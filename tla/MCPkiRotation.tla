--------------------------- MODULE MCPkiRotation ---------------------------
(* PkiRotation on a small instance. *)
EXTENDS PkiRotation

CONSTANTS t1, t2

\* Two operators rotate the leaf and the issuers side by side; one rotates the
\* leaf and is interrupted twice; one who also replaces the root works alone,
\* as the other rotations do not recover an interrupted replacement of the
\* root.
MCShifts ==
  {[tuis |-> {t1, t2}, kinds |-> {"tls", "issuer"}, disruptions |-> 0],
   [tuis |-> {t1}, kinds |-> {"tls"}, disruptions |-> 2],
   [tuis |-> {t1}, kinds |-> {"tls", "issuer", "root"}, disruptions |-> 1]}
=============================================================================
