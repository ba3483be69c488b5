----------------------------- MODULE MCMailbox -----------------------------
(* Mailboxes shared by a few processes. *)
EXTENDS Mailbox, TLC

=============================================================================
