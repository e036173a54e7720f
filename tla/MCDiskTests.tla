---------------------------- MODULE MCDiskTests ----------------------------
(* Two disks, one of which may be written; for TLC. *)
EXTENDS DiskTests
CONSTANTS sda, sdb

\* Enough chunks to give up before the end; a chunk to skip, which fio meets
\* when the disk is written.
MCBadSets == {{<<sda, 0>>, <<sda, 1>>}, {<<sdb, 0>>}}

NoBadSets == {{}}

OneBadSet == {{<<sda, 0>>}}
=============================================================================
