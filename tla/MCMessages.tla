------------------------------ MODULE MCMessages -----------------------------
(* Three parts that share no state, checked one at a time: the SGW          *)
(* simulator against the control plane, the RADIUS server, and BFD.         *)
EXTENDS SgwSim, Radius, Bfd

VARIABLE moves      \* the part this behaviour is about
messageVars == <<moves, vars, radiusVars, bfdVars>>

Run(threads, typed) == [busy |-> threads, keys |-> typed, quit |-> FALSE]

MCScenarios ==
    {[busy |-> {<<"create", 1>>, <<"echo", 0>>}, keys |-> <<>>, quit |-> TRUE],
     Run({}, <<113>>),
     Run({<<"create", 0>>}, <<8, 2, 122, 113>>),
     Run({<<"create", 0>>, <<"create", 1>>}, <<8, 113>>),
     Run({<<"gtpu", 0>>}, <<6, 6, 113>>),
     Run({<<"gtpu", 1>>, <<"echou", 0>>}, <<6, 4, -1, 113>>),
     Run({<<"delete", 0>>, <<"bearer", 0>>}, <<113>>),
     Run({<<"modify", 0>>, <<"echo", 0>>}, <<113>>),
     Run({<<"resume", 0>>, <<"suspend", 0>>}, <<113>>)}
MCTunnels == {[pgw_teid |-> <<1, 2, 3, 4>>, ue |-> <<0, 2, 3, 4>>, msisdn |-> MsisdnOf(1),
               ebi |-> 5, sgw_c_teid |-> <<0, 0, 0, 7>>],
              [pgw_teid |-> <<9, 0, 0, 21>>, ue |-> <<11, 12, 13, 14>>, msisdn |-> MsisdnOf(2),
               ebi |-> 6, sgw_c_teid |-> <<0, 0, 1, 0>>]}
MCAsks == {<<0, <<>>>>, <<1, <<<<13, 0>>>>>>, <<3, <<<<3, 0>>, <<13, 0>>>>>>, <<2, <<<<3, 0>>>>>>,
           <<1, <<<<16, 0>>, <<32801, 16, <<16, 129, 131>>>>>>>>}
MCRadiusRows == {[type |-> WRITE_ROWS, key |-> <<1, "nas1">>, active |-> TRUE]}

MCInit ==
  /\ moves \in {"sgw", "radius", "bfd"} /\ Init /\ RadiusInit /\ BfdInit
  /\ (moves # "sgw" => keys = <<113>> /\ \A t \in Bulk \cup Single : pc[t] = "asleep")
SgwMoves == moves = "sgw" /\ Next /\ UNCHANGED <<moves, radiusVars, bfdVars>>
RadiusMoves == moves = "radius" /\ RadiusNext /\ UNCHANGED <<moves, vars, bfdVars>>
BfdMoves == moves = "bfd" /\ BfdNext /\ UNCHANGED <<moves, vars, radiusVars>>
MCNext == SgwMoves \/ RadiusMoves \/ BfdMoves
MCSpec == MCInit /\ [][MCNext]_messageVars
=============================================================================
