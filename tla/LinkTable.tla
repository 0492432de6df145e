----------------------------- MODULE LinkTable ------------------------------
(* The copy of a contract table that the Diameter and the RADIUS server     *)
(* keep (diameter_link_, radius_link_): the set of the <<imsi, nas>> that   *)
(* have a contract.  A thread of the server reads the database's binlog and *)
(* applies it.                                                              *)
EXTENDS Integers

WRITE_ROWS == 30
UPDATE_ROWS == 31
DELETE_ROWS == 32

(* bzero and then OnNotify, once for each column of the row of the event:   *)
(* evt is not among what they set.                                          *)
Notified(ev) == [evt |-> 0, key |-> ev.key, active |-> ev.active]

OperateTable(link, key, up) == IF up THEN link \cup {key} ELSE link \ {key}
FindTable(link, key) == key \in link

(* A round of BinLogLoop. *)
BinLogLoop(link, ev) ==
  LET record == Notified(ev)
  IN CASE record.evt = WRITE_ROWS -> OperateTable(link, record.key, TRUE)
       [] record.evt = UPDATE_ROWS -> OperateTable(link, record.key, record.active)
       [] record.evt = DELETE_ROWS -> OperateTable(link, record.key, FALSE)
       [] OTHER -> link
=============================================================================
