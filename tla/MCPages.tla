------------------------------- MODULE MCPages -------------------------------
(***************************************************************************)
(* Records at the limits of the append handler, and ones of which about a  *)
(* hundred fill a page.                                                    *)
(***************************************************************************)
EXTENDS RecoveryPages

\* The largest event and one too large, the largest without a Welcome, a small
\* one, and one that fills a page of a hundred.
MCAppends ==
  {[parent |-> p, epoch |-> 10, body |-> b, welcome |-> w] :
     p \in {1, 9}, b \in {MAX_MLS_BLOB_BYTES}, w \in {0} \cup {MAX_PAYLOAD - MAX_MLS_BLOB_BYTES - s : s \in {0, Slack}}}
  \cup {[parent |-> 9, epoch |-> 1, body |-> b, welcome |-> 0] : b \in {1, 7793}}

\* Invitations of 12 KiB to rooms of some tens of members, on a relay that has
\* stored few of them, or more than 16383: 64 of them, as many as a recipient's
\* package pool allows at once, leave 32 bytes below the limit of the loop.
MCInvitations ==
  {[name |-> 20, cursor |-> c, sequence |-> 2, body |-> 12132] : c \in {2, 3}}

=============================================================================
