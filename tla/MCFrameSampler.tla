--------------------------- MODULE MCFrameSampler ---------------------------
(* Small instances of FrameSampler for TLC.                                *)
EXTENDS FrameSampler

\* Every stride of at least one with small terms; 2 and 4 frames a second from 25,
\* and from the NTSC rate 30000/1001.
MCStrides ==
    {<<p, q>> \in (1 .. 9) \X (1 .. 4) : p >= q}
        \cup {<<25, 2>>, <<25, 4>>, <<15000, 1001>>, <<7500, 1001>>}
=============================================================================
