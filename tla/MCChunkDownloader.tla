------------------------- MODULE MCChunkDownloader -------------------------
(***************************************************************************)
(* Instances of ChunkDownloader for TLC: an inline rowset followed by a    *)
(* few chunks of different sizes.                                          *)
(***************************************************************************)
EXTENDS ChunkDownloader

\* One row inline, then chunks of 2, 1 and 1 rows.
MCRowCount == [k \in Rowset..QSize - 1 |-> IF k = 0 THEN 2 ELSE 1]

MCOffset ==
    [k \in Rowset..QSize |->
        IF k = Rowset THEN 0 ELSE IF k = 0 THEN 1 ELSE k + 2]

====
