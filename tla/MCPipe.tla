------------------------------- MODULE MCPipe -------------------------------
EXTENDS Pipe

CONSTANTS x, y

\* Longer than the pipe.
Long == <<x, y, y>>
MCStrings == {Long}
=============================================================================
