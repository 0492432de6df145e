-------------------------------- MODULE Gtpc --------------------------------
(***************************************************************************)
(* The GTP-C version 2 codec of the control plane, and the answers its     *)
(* handlers build with it.                                                 *)
(*                                                                         *)
(* An information element is a record: its type, its instance, the value   *)
(* of its length field and its content, always a sequence (octets, digit   *)
(* pairs, PCO options, or nested elements).  A 32-bit number in memory is  *)
(* its four octets, lowest first; htonl and ntohl reverse them.  A         *)
(* datagram is a record of the header fields, the elements and the number  *)
(* of octets received.                                                     *)
(***************************************************************************)
EXTENDS Walks

Msg == [unknown |-> 0, echo_req |-> 1, echo_res |-> 2, version_not_supported |-> 3,
        create_req |-> 32, create_res |-> 33, modify_req |-> 34, modify_res |-> 35,
        delete_req |-> 36, delete_res |-> 37, bearer_req |-> 99, bearer_res |-> 100,
        suspend |-> 162, suspend_ack |-> 163, resume |-> 164, resume_ack |-> 165]

Ie == [imsi |-> 1, cause |-> 2, recovery |-> 3, apn |-> 71, ambr |-> 72, ebi |-> 73,
       mei |-> 75, msisdn |-> 76, indication |-> 77, pco |-> 78, paa |-> 79,
       bearer_qos |-> 80, rat |-> 82, serving_network |-> 83, uli |-> 86, f_teid |-> 87,
       bearer_ctx |-> 93, charging_id |-> 94, pdn_type |-> 99, apn_restriction |-> 127,
       selection_mode |-> 128, private_extension |-> 255]

\* Causes, PDN types, container ids and lengths.
Code == [accepted |-> 16, denied |-> 93, ipv4 |-> 1, ipv6 |-> 2, ipv4v6 |-> 3,
         imsi_len |-> 8, msisdn_len |-> 6, mei_len |-> 8, ether_max |-> 1518,
         ipcp |-> 32801, dns6 |-> 3, dns |-> 13, ipv4_mtu |-> 16, nonip_mtu |-> 21,
         primary |-> 129, secondary |-> 131, pco_len |-> 253, paa_len |-> 21]

\* F-TEID interfaces and the number of elements a packet may hold.
Fteid == [sgw_u |-> 4, pgw_u |-> 5, sgw_c |-> 6, pgw_c |-> 7, item_count |-> 255]

\* sizeof of the packed structs, four octets of common header included.
NumberSize == [head |-> 4, imsi |-> 12, cause |-> 10, recovery |-> 5, apn |-> 36,
               ambr |-> 12, ebi |-> 5, mei |-> 12, msisdn |-> 10]
OptionSize == [indication |-> 10, pco |-> 258, paa |-> 26, bearer_qos |-> 26, ipcp |-> 16]
LocationSize == [rat |-> 5, serving_network |-> 7]
TunnelSize == [f_teid |-> 25, charging_id |-> 8, pdn_type |-> 5, apn_restriction |-> 5,
               selection_mode |-> 5, child |-> 256, private_extension |-> 32]

Size(item) == NumberSize.head + item.len
SumSize(items) == FoldLeft(LAMBDA n, i : n + Size(i), 0, items)

Mem(n) == <<n % 256, (n \div 256) % 256, (n \div 65536) % 256, n \div 16777216>>
Swap(b) == Reverse(b)
ZERO == <<0, 0, 0, 0>>

\* What a builder that fails leaves: an element nothing appends.
NONE == [type |-> Msg.unknown, inst |-> 0, len |-> 0, v |-> <<>>]
Item(type, inst, len, v) == [type |-> type, inst |-> inst, len |-> len, v |-> v]

-----------------------------------------------------------------------------
\* Decimal digits packed two to an octet, the first in the low half; 15 fills.

gtpc_digits_set(n, digits) ==
    IF Len(digits) > 2 * n THEN <<>>
    ELSE LET at(k) == IF k <= Len(digits) THEN digits[k] ELSE 15
         IN  [k \in 1..n |-> <<at(2 * k - 1), at(2 * k)>>]

gtpc_digits_get(pairs) ==
    LET keep(s, d) == IF d = 15 THEN s ELSE Append(s, d)
    IN  Walk(LAMBDA s, p : keep(keep(s, p[1]), p[2]), <<>>, pairs)

gtpc_imsi_set(digits) ==
    LET d == gtpc_digits_set(Code.imsi_len, digits)
    IN  IF d = <<>> THEN NONE ELSE Item(Ie.imsi, 0, Code.imsi_len, d)

gtpc_msisdn_set(digits) ==
    LET d == gtpc_digits_set(Code.msisdn_len, digits)
    IN  IF d = <<>> THEN NONE ELSE Item(Ie.msisdn, 0, Code.msisdn_len, d)

gtpc_recovery_set(n) == Item(Ie.recovery, 0, 1, <<n>>)
gtpc_cause_set(c) == Item(Ie.cause, 0, 2, <<c>>)
\* teid is a number of the host; the address is IPv4 where there is one.
gtpc_f_teid_set(inst, iftype, teid) == Item(Ie.f_teid, inst, 9, <<iftype>> \o Swap(teid))
gtpc_ambr_set(up, down) == Item(Ie.ambr, 0, 8, Swap(up) \o Swap(down))
gtpc_charging_id_set(cid) == Item(Ie.charging_id, 0, 4, Swap(cid))
gtpc_ebi_set(inst, n) == Item(Ie.ebi, inst, 1, <<n % 16>>)
gtpc_pco_set(options, len) == IF len >= Code.pco_len THEN NONE ELSE Item(Ie.pco, 0, len, options)
gtpc_paa_set(pdn, address, len) ==
    IF len > Code.paa_len THEN NONE ELSE Item(Ie.paa, 0, len + 1, <<pdn>> \o address)
gtpc_apn_restriction_set(n) == Item(Ie.apn_restriction, 0, 1, <<n>>)
gtpc_bearer_ctx_set == Item(Ie.bearer_ctx, 0, 0, <<>>)

(* Mutant: the length of the context does not count the child. *)
ChildNotCounted(ctx, child) ==
    IF ctx = NONE \/ ctx.len + Size(child) >= TunnelSize.child THEN NONE
    ELSE [ctx EXCEPT !.v = Append(@, child)]

\* A context that has failed stays failed: every caller breaks at the first error.
gtpc_bearer_ctx_add_child(ctx, child) ==
    IF ctx = NONE \/ ctx.len + Size(child) >= TunnelSize.child THEN NONE
    ELSE [ctx EXCEPT !.len = @ + Size(child), !.v = Append(@, child)]

gtpc_private_extension_set(cs, pgw_teid) ==
    Item(Ie.private_extension, 0, TunnelSize.private_extension - NumberSize.head,
         cs.val["FTEID_U"].v \o pgw_teid)

-----------------------------------------------------------------------------
\* Packets under construction.  err is set once an append has failed; every
\* caller stops there.

gtpc_type_headerlen(type) == IF type \in {Msg.echo_req, Msg.echo_res} THEN 8 ELSE 12

gtpc_type_issupported(type) ==
    type \in {Msg.echo_req, Msg.echo_res, Msg.version_not_supported,
              Msg.create_req, Msg.create_res, Msg.modify_req, Msg.modify_res,
              Msg.delete_req, Msg.delete_res, Msg.bearer_req, Msg.bearer_res,
              Msg.resume, Msg.suspend}

gtpc_alloc_packet(type) ==
    [type |-> type, version |-> 2, piggy |-> 0, length |-> gtpc_type_headerlen(type) - 4,
     offset |-> gtpc_type_headerlen(type), items |-> <<>>, err |-> FALSE]

gtpc_append_item(pkt, item) ==
    IF pkt.err \/ item = NONE \/ pkt.offset + Size(item) >= Code.ether_max
    THEN [pkt EXCEPT !.err = TRUE]
    ELSE [pkt EXCEPT !.items = Append(@, item), !.offset = @ + Size(item),
                     !.length = @ + Size(item)]

\* The datagram of a finished packet, with the tunnel id and sequence number
\* the handlers write over its header.
gtpc_convert_to_packet(pkt, teid, seqno) ==
    [type |-> pkt.type, version |-> pkt.version, piggy |-> pkt.piggy, length |-> pkt.length,
     teid |-> teid, seqno |-> seqno, items |-> pkt.items, len |-> pkt.offset]

gtpc_validate_header(d) ==
    /\ d.length >= NumberSize.head
    /\ \/ d.version = 1
       \/ /\ d.version = 2 => d.piggy = 0
          /\ gtpc_type_issupported(d.type)

\* The parsed packet: "ok", "err", or "lost" where the error return leaves
\* the packet allocated.
gtpc_alloc_packet_from_payload(d) ==
    LET pkt == Walk(gtpc_append_item, gtpc_alloc_packet(d.type), d.items)
    IN  IF \/ d.len = 0
           \/ ~gtpc_validate_header(d)
           \/ d.length + 4 # d.len
           \/ gtpc_type_headerlen(d.type) > d.len THEN "err"
        ELSE IF pkt.err \/ Len(d.items) > Fteid.item_count THEN "err"
        ELSE IF pkt.offset > d.len THEN "lost"
        ELSE IF pkt.offset = d.len THEN "ok" ELSE "err"

-----------------------------------------------------------------------------
\* Parsing into the state the handlers read.

PCO_IDS == [PCO_DNS_IPV4 |-> Code.dns, PCO_DNS_IPV6 |-> Code.dns6,
            PCO_IPV4_LINK_MTU |-> Code.ipv4_mtu, PCO_NONIP_LINK_MTU |-> Code.nonip_mtu]
IPCP_IDS == [PCO_IPCP_P_DNS |-> Code.primary, PCO_IPCP_S_DNS |-> Code.secondary]

FLAGS == {"MSISDN", "FTEID_C", "FTEID_U", "AMBR", "BQOS", "IMSI", "RECOVERY", "CAUSE", "MEI",
         "CHRGID", "EBI", "PCO", "PAA", "APN_R", "BQOS_R", "BCTX", "EBI_B", "AMBR_R", "PDN", "RAT"}

INCLUDED_ALL == {"MSISDN", "FTEID_C", "FTEID_U", "AMBR_R", "BQOS"}

gtpc_parse_state == [flag |-> {}, val |-> [h \in FLAGS |-> NONE], err |-> FALSE]

Rule(type, have, sizes) == [type |-> type, have |-> have, sizes |-> sizes]

\* Which element sets which flag, and the sizes it is taken with: an element
\* of another size is passed over.
ROOT_RULES ==
    {Rule(Ie.msisdn, "MSISDN", 0..NumberSize.msisdn),
     Rule(Ie.imsi, "IMSI", 0..NumberSize.imsi),
     Rule(Ie.recovery, "RECOVERY", {NumberSize.recovery}),
     Rule(Ie.cause, "CAUSE", {NumberSize.cause, NumberSize.cause - 4}),
     Rule(Ie.mei, "MEI", 0..NumberSize.mei),
     Rule(Ie.f_teid, "FTEID_C", {TunnelSize.f_teid, TunnelSize.f_teid - 12}),
     Rule(Ie.ambr, "AMBR_R", {NumberSize.ambr}),
     Rule(Ie.charging_id, "CHRGID", {TunnelSize.charging_id}),
     Rule(Ie.ebi, "EBI", {NumberSize.ebi}),
     Rule(Ie.rat, "RAT", {LocationSize.rat}),
     Rule(Ie.pco, "PCO", 0..(OptionSize.pco - 1)),
     Rule(Ie.paa, "PAA", 0..OptionSize.paa),
     Rule(Ie.apn_restriction, "APN_R", {TunnelSize.apn_restriction}),
     Rule(Ie.bearer_qos, "BQOS_R", {OptionSize.bearer_qos}),
     Rule(Ie.pdn_type, "PDN", {TunnelSize.pdn_type})}

BEARER_RULES ==
    {Rule(Ie.f_teid, "FTEID_U", {TunnelSize.f_teid, TunnelSize.f_teid - 12}),
     Rule(Ie.bearer_qos, "BQOS", {OptionSize.bearer_qos}),
     Rule(Ie.ebi, "EBI_B", {NumberSize.ebi}),
     Rule(Ie.ambr, "AMBR", {NumberSize.ambr})}

Keep(rules, cs, item) ==
    LET hit == {r \in rules : r.type = item.type /\ Size(item) \in r.sizes}
    IN  [cs EXCEPT !.flag = @ \cup {r.have : r \in hit},
                   !.val = [h \in FLAGS |-> IF \E r \in hit : r.have = h THEN item ELSE @[h]]]

on_gtpc_parse_bearer_context(cs, item) == Keep(BEARER_RULES, cs, item)

\* An option is its id, its content length and, for IPCP, the length field and
\* the two option types of the nested configuration.
gtpc_iterate_pco_ipcp_item(opt) ==
    IF opt[3][1] # OptionSize.ipcp THEN [ok |-> FALSE, flag |-> {}]
    ELSE [ok |-> TRUE, flag |-> {h \in DOMAIN IPCP_IDS : IPCP_IDS[h] \in {opt[3][2], opt[3][3]}}]

on_gtpc_parse_pco(cs, item) ==
    LET step(s, opt) ==
          LET asked == {h \in DOMAIN PCO_IDS : PCO_IDS[h] = opt[1] /\ opt[2] = 0}
              ipcp == IF opt[1] = Code.ipcp THEN gtpc_iterate_pco_ipcp_item(opt)
                      ELSE [ok |-> TRUE, flag |-> {}]
          IN  IF s.stop \/ s.offset >= item.len - 2 THEN s
              ELSE [flag |-> s.flag \cup asked \cup ipcp.flag,
                    offset |-> s.offset + 3 + opt[2], stop |-> ~ipcp.ok]
        all == Walk(step, [flag |-> {}, offset |-> 0, stop |-> FALSE], item.v)
    IN  [cs EXCEPT !.flag = @ \cup all.flag]

gtpc_iterate_bearer_ctx_item(cs, ctx) ==
    LET parsed == Walk(on_gtpc_parse_bearer_context, cs, ctx.v)
    IN  [parsed EXCEPT !.err = ctx.v = <<>> \/ SumSize(ctx.v) # ctx.len
                                 \/ Len(ctx.v) > Fteid.item_count]

on_gtpc_parse_root(cs, item) ==
    LET kept == Keep(ROOT_RULES, cs, item)
    IN  IF item.type = Ie.bearer_ctx
        THEN gtpc_iterate_bearer_ctx_item([cs EXCEPT !.flag = @ \cup {"BCTX"}], item)
        ELSE IF item.type = Ie.pco /\ kept # cs THEN on_gtpc_parse_pco(kept, item)
        ELSE kept

gtpc_iterate_item(items) ==
    Walk(LAMBDA cs, i : IF cs.err THEN cs ELSE on_gtpc_parse_root(cs, i),
             gtpc_parse_state, items)

-----------------------------------------------------------------------------
\* The options setup_pco answers with: tables of fixed values.
PCO_DNS_IPV4_VAL == <<<<Code.dns, 4>>, <<Code.dns, 4>>>>
PCO_DNS_IPV6_VAL == <<<<Code.dns6, 16>>, <<Code.dns6, 16>>>>
PCO_DNS_IPV64_VAL == PCO_DNS_IPV6_VAL \o PCO_DNS_IPV4_VAL
PCO_MTU_IPV4_VAL == <<<<Code.ipv4_mtu, 2>>>>
PCO_MTU_NONIP_VAL == <<<<Code.nonip_mtu, 2>>>>
PCO_DNS_IPCP_IPV4_VAL == <<<<Code.ipcp, 16, <<16, Code.primary, Code.secondary>>>>>>

PcoLen(options) == FoldLeft(LAMBDA n, o : n + 3 + o[2], 0, options)

(* Mutant: the options are always those of IPv6. *)
PcoByFamily(cs) ==
    IF cs.flag \cap DOMAIN PCO_IDS = {} THEN NONE
    ELSE gtpc_pco_set(PCO_DNS_IPV6_VAL, PcoLen(PCO_DNS_IPV6_VAL) + 1)

\* The answer to the containers the request asked for; NONE where there is
\* nothing to answer.  A handset that asked for both address families and
\* both name servers gets the IPv4 ones only.
setup_pco(cs) ==
    LET has(h) == h \in cs.flag
        dns64 == has("PCO_DNS_IPV4") /\ has("PCO_DNS_IPV6")
        dns == IF dns64 THEN IF has("PDN") /\ cs.val["PDN"].v[1] = Code.ipv4v6
                             THEN PCO_DNS_IPV4_VAL ELSE PCO_DNS_IPV64_VAL
               ELSE IF has("PCO_DNS_IPV6") THEN PCO_DNS_IPV6_VAL
               ELSE IF has("PCO_DNS_IPV4") THEN PCO_DNS_IPV4_VAL ELSE <<>>
        mtu == IF has("PCO_NONIP_LINK_MTU") THEN PCO_MTU_NONIP_VAL
               ELSE IF has("PCO_IPV4_LINK_MTU") THEN PCO_MTU_IPV4_VAL ELSE <<>>
        ipcp == IF DOMAIN IPCP_IDS \subseteq cs.flag THEN PCO_DNS_IPCP_IPV4_VAL ELSE <<>>
        all == dns \o mtu \o ipcp
    IN  IF cs.flag \cap DOMAIN PCO_IDS = {} \/ PcoLen(all) <= 1 THEN NONE
        ELSE gtpc_pco_set(all, PcoLen(all) + 1)

-----------------------------------------------------------------------------
\* The answers.  tunnel is the record on_tunnel_record copied into the parse
\* state; the packet is converted and sent unless it ends with err.

PGW_IP8 == 10
PGW_RECOVERY_COUNT == 0

Packet(type, items) == Walk(gtpc_append_item, gtpc_alloc_packet(type), items)
Optional(item) == IF item = NONE THEN <<>> ELSE <<item>>
Context(children) == Walk(gtpc_bearer_ctx_add_child, gtpc_bearer_ctx_set, children)
BearerEbi(cs) == IF "EBI_B" \in cs.flag THEN cs.val["EBI_B"].v[1] % 16 ELSE 0
TeidOf(item) == SubSeq(item.v, 2, 5)

\* The address given to the handset, by the PDN type asked for.  The record
\* keeps the address with a first octet of zero.
create_session_paa(cs, tunnel) ==
    LET ue == <<PGW_IP8>> \o Tail(tunnel.ue)
        v4 == gtpc_paa_set(Code.ipv4, ue, 4)
    IN  IF "PDN" \notin cs.flag THEN gtpc_paa_set(Code.ipv4, ZERO, 4)
        ELSE IF tunnel.ue[1] # 0 THEN NONE
        ELSE IF cs.val["PDN"].v[1] = Code.ipv6 THEN gtpc_paa_set(Code.ipv6, Tail(ue), 17)
        ELSE v4

create_session_accept(cs, tunnel) ==
    LET cause == gtpc_cause_set(Code.accepted)
        rate == cs.val["AMBR_R"].v
    IN  Packet(Msg.create_res,
               <<cause, gtpc_f_teid_set(1, Fteid.pgw_c, tunnel.pgw_teid),
                 create_session_paa(cs, tunnel), gtpc_apn_restriction_set(0),
                 gtpc_ambr_set(Swap(SubSeq(rate, 1, 4)), Swap(SubSeq(rate, 5, 8)))>>
               \o Optional(setup_pco(cs)) \o
               <<Context(<<cause, gtpc_ebi_set(0, BearerEbi(cs)),
                           gtpc_f_teid_set(2, Fteid.pgw_u, tunnel.pgw_teid),
                           gtpc_charging_id_set(tunnel.pgw_teid)>>),
                 gtpc_recovery_set(PGW_RECOVERY_COUNT),
                 gtpc_private_extension_set(cs, tunnel.pgw_teid)>>)

create_session_denied ==
    LET cause == gtpc_cause_set(Code.denied)
    IN  Packet(Msg.create_res, <<cause, Context(<<cause, gtpc_ebi_set(0, 0)>>)>>)

modify_bearer_accept(cs, tunnel) ==
    LET cause == gtpc_cause_set(Code.accepted)
        moved == \A f \in {"FTEID_C", "FTEID_U"} :
                    f \in cs.flag /\ TeidOf(cs.val[f]) # ZERO
    IN  Packet(Msg.modify_res,
               <<cause, gtpc_msisdn_set(tunnel.msisdn), gtpc_ebi_set(0, 5),
                 gtpc_apn_restriction_set(0)>> \o Optional(setup_pco(cs)) \o
               <<Context(<<cause, gtpc_ebi_set(0, BearerEbi(cs)),
                           gtpc_charging_id_set(tunnel.pgw_teid)>>),
                 gtpc_recovery_set(PGW_RECOVERY_COUNT)>> \o
               (IF moved THEN <<gtpc_private_extension_set(cs, tunnel.pgw_teid)>> ELSE <<>>))

modify_bearer_denied == Packet(Msg.modify_res, <<gtpc_cause_set(Code.denied)>>)

delete_session_accept(cs) ==
    Packet(Msg.delete_res, <<gtpc_cause_set(Code.accepted)>> \o Optional(setup_pco(cs))
                           \o <<gtpc_recovery_set(PGW_RECOVERY_COUNT)>>)

delete_session_denied ==
    Packet(Msg.delete_res, <<gtpc_cause_set(Code.denied), gtpc_recovery_set(PGW_RECOVERY_COUNT)>>)

delete_bearer_accept(cs, tunnel) ==
    Packet(Msg.bearer_res, <<gtpc_cause_set(Code.accepted), gtpc_ebi_set(0, tunnel.ebi)>>
                           \o Optional(setup_pco(cs)))

\* The refusal is allocated as a Delete Session Response.
delete_bearer_denied(cs, tunnel) ==
    Packet(Msg.delete_res, <<gtpc_cause_set(Code.denied), gtpc_ebi_set(0, tunnel.ebi),
                             gtpc_recovery_set(PGW_RECOVERY_COUNT)>> \o Optional(cs.val["PCO"]))

resume_accept == Packet(Msg.resume_ack, <<gtpc_cause_set(Code.accepted)>>)
resume_denied == Packet(Msg.resume_ack, <<gtpc_cause_set(Code.denied)>>)
suspend_accept == Packet(Msg.suspend_ack, <<gtpc_cause_set(Code.accepted)>>)
suspend_denied == Packet(Msg.suspend_ack, <<gtpc_cause_set(Code.denied)>>)
=============================================================================
