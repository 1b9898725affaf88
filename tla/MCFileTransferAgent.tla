------------------------ MODULE MCFileTransferAgent ------------------------
(***************************************************************************)
(* Instances of FileTransferAgent: small sets of files and commands.       *)
(***************************************************************************)
EXTENDS FileTransferAgent

CONSTANTS a, b, c

Put(files) == [kind |-> "UPLOAD", files |-> files, supported |-> TRUE]
Get(files) == [kind |-> "DOWNLOAD", files |-> files, supported |-> TRUE]

\* Two small files up, a large one down, and a stage on Azure.
MixedCommands ==
    {Put(<<b, c>>), Get(<<a>>), [Get(<<b>>) EXCEPT !.supported = FALSE]}

TwoUploads == {Put(<<a>>), Put(<<b>>)}

====
