------------------------------- MODULE LowDb -------------------------------
(***************************************************************************)
(* The database file of the designer, as lowdb keeps it: db.write() writes *)
(* what db.data holds at the call.  One write is under way at a time; of   *)
(* the calls that come meanwhile only the last content is written next.    *)
(* The file is written under another name and renamed, so that a process   *)
(* that ends leaves the old content or the new one.                        *)
(***************************************************************************)
EXTENDS Naturals, Sequences

VARIABLES
    disk,   \* db.json
    cur,    \* the content being written, <<>> or <<content>>
    next    \* the content to be written next, likewise

file == <<disk, cur, next>>

FileInit(d) == disk = d /\ cur = <<>> /\ next = <<>>

\* db.write(), called with the content d.
Write(d) ==
    /\ cur' = IF cur = <<>> THEN <<d>> ELSE cur
    /\ next' = IF cur = <<>> THEN next ELSE <<d>>
    /\ UNCHANGED disk

\* The rename, and the start of the write that waits.
Written ==
    /\ cur # <<>>
    /\ disk' = cur[1]
    /\ cur' = next
    /\ next' = <<>>

\* The process ends: writes under way are lost.
WritesLost == cur' = <<>> /\ next' = <<>> /\ UNCHANGED disk
=============================================================================
