---------------------------- MODULE MCHttpDownload ----------------------------
(* Model values for HttpDownload: the emulation thread and one mailbox      *)
(* worker, which are not interchangeable, so no symmetry is declared.       *)
EXTENDS HttpDownload
CONSTANTS emulation, mailbox
\* A body that is retained or streamed by a ring of three, then a retained one.
BothModes == <<{2, 4}, {2}>>
\* A body twice as long as a ring of one, then one that fits.
Streamed == <<{2}, {1}>>
\* Bodies smaller and larger than a ring of two.
AnyMode == [d \in Download |-> {1, 3}]
=============================================================================
