--------------------------- MODULE MCTunnelSession ---------------------------
(* Small instances of TunnelSession: two contracts whose TEIDs are 1 and 5  *)
(* (with prefix 5 the second reads the same in both byte orders).           *)
EXTENDS TunnelSession

MCLow == [i \in Imsis |-> IF i = "i1" THEN 1 ELSE 5]

Base == [op |-> "create", complete |-> TRUE, imsi |-> NoImsi, msisdn |-> "m1",
         teid |-> <<0, 0>>, ebi |-> 0, ep |-> NoEp, rat |-> FALSE]

(* Two SGWs set up sessions with different bearers; one request gives only  *)
(* a telephone number, one is incomplete.                                   *)
Creates == {[Base EXCEPT !.imsi = "i1", !.ebi = 5, !.ep = "e5"],
            [Base EXCEPT !.imsi = "i1", !.ebi = 6, !.ep = "e6"],
            [Base EXCEPT !.ebi = 6, !.ep = "e6"],
            [Base EXCEPT !.complete = FALSE]}

(* Requests about the session that a Create with bearer 5 sets up. *)
Others == {[Base EXCEPT !.op = "delete", !.teid = <<5, 1>>, !.ebi = 5],
           [Base EXCEPT !.op = "suspend", !.teid = <<5, 1>>],
           [Base EXCEPT !.op = "resume", !.teid = <<5, 1>>, !.imsi = "i1"],
           [Base EXCEPT !.op = "resume", !.teid = <<5, 1>>, !.complete = FALSE]}

Modifies == {[Base EXCEPT !.op = "modify", !.teid = <<5, 1>>, !.ebi = 6, !.ep = "e6"],
             [Base EXCEPT !.op = "modify", !.teid = <<5, 1>>, !.ep = "e0"],
             [Base EXCEPT !.op = "modify", !.teid = <<5, 1>>, !.rat = TRUE],
             [Base EXCEPT !.op = "modify", !.teid = <<5, 1>>, !.ebi = 6]}

Pdps == {[Base EXCEPT !.op = "pdp_create", !.imsi = "i2", !.ebi = 5, !.ep = "v1a"],
         [Base EXCEPT !.op = "pdp_create", !.complete = FALSE],
         [Base EXCEPT !.op = "pdp_update", !.teid = <<5, 5>>, !.ep = "v1b"],
         [Base EXCEPT !.op = "pdp_update", !.teid = <<0, 5>>],
         [Base EXCEPT !.op = "pdp_delete", !.teid = <<5, 5>>, !.ebi = 5],
         [Base EXCEPT !.op = "pdp_delete", !.teid = <<0, 5>>, !.ebi = 5]}

ModifyRequests == Creates \cup Modifies \cup {r \in Others : r.op = "delete"}
AllRequests == Creates \cup Others \cup Modifies \cup Pdps
                 \cup {[Base EXCEPT !.imsi = "i2", !.ebi = 5, !.ep = "e5"]}
=============================================================================
