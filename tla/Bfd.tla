--------------------------------- MODULE Bfd ---------------------------------
(***************************************************************************)
(* The BFD sessions of the tools: BfdSessionManager and its peer.          *)
(*                                                                         *)
(* Packets of the peer are handled by on_bfd_recieve, and a thread sends a *)
(* packet every second; both hold the mutex of the manager.  The peer is   *)
(* external: it follows RFC 5880, and may restart or be disabled.  The     *)
(* network delays, loses and repeats packets.  Sessions are kept by the    *)
(* address of the peer and do not touch one another, so there is one.      *)
(*                                                                         *)
(* The manager tells a discriminator only from 0.  The discriminators of   *)
(* the peer are the numbers of its incarnations, that of the manager is 1. *)
(***************************************************************************)
EXTENDS Integers

CONSTANTS NoPacket,   \* nothing on the wire
          NoSession,  \* no entry in bfd_sessions_
          MaxBoots,   \* bound on the incarnations of the peer
          MaxRuns     \* bound on the runs of the manager

ASSUME BootsAssumption == MaxBoots \in Nat \ {0} /\ MaxRuns \in Nat \ {0}

VARIABLES
  sess,      \* the session with the peer, or NoSession
  runs,      \* runs of the manager so far
  peer,      \* the peer: its state, incarnation and the discriminator it heard
  toManager, \* the packet on its way to the manager
  toPeer,    \* the packet on its way to the peer
  heard      \* incarnations of the peer that accepted a packet of the manager
bfdVars == <<sess, runs, peer, toManager, toPeer, heard>>

BfdStates == {"Down", "Init", "Up", "Admin"}
Discriminators == 0 .. MaxBoots
Packet ==
  [state : BfdStates, my : Discriminators, your : Discriminators,
   minRx : {0, 1}, poll : BOOLEAN, final : BOOLEAN]

(* BfdSession(): down, no connection, detection time passed. *)
NewSession ==
  [state |-> "Down", local |-> 0, remote |-> 0, minRx |-> 0, conn |-> FALSE,
   mustTerminate |-> FALSE, pollbitOn |-> FALSE, detecting |-> FALSE]
Session ==
  [state : BfdStates \ {"Admin"}, local : Discriminators, remote : Discriminators,
   minRx : {0, 1}, conn : BOOLEAN, mustTerminate : BOOLEAN, pollbitOn : BOOLEAN,
   detecting : BOOLEAN]

BfdInit ==
  /\ sess = NoSession
  /\ runs = 1
  /\ peer = [state |-> "Down", boot |-> 1, remote |-> 0]
  /\ toManager = NoPacket
  /\ toPeer = NoPacket
  /\ heard = {}

-----------------------------------------------------------------------------
(* The manager. *)

(* transmit_unsafe and sendudp: without a connection nothing is sent, and  *)
(* a discriminator of 0 goes only with the state Down.                     *)
TransmitUnsafe(s) ==
  LET state == IF s.local # 0 THEN s.state ELSE "Down"
      sent == s.conn /\ ((s.local = 0 \/ s.remote = 0) => state = "Down")
  IN  toPeer' = IF sent
                THEN [state |-> state, my |-> s.local, your |-> s.remote,
                      minRx |-> 1, poll |-> FALSE, final |-> s.pollbitOn]
                ELSE toPeer

(* The early returns of on_bfd_recieve.  A packet with a wrong length,     *)
(* version, multiplier or authentication is as good as lost.               *)
Accepted(m) ==
  /\ m.my # 0
  /\ m.your = 0 => m.state \in {"Down", "Admin"}

(* Mutant: a session in Init comes up with any packet of the peer. *)
NextStateEager(state, remote) ==
  IF remote = "Admin" THEN "Down"
  ELSE IF state \in {"Init", "Up"} \/ <<state, remote>> = <<"Down", "Init">> THEN "Up"
  ELSE IF <<state, remote>> = <<"Down", "Down">> THEN "Init"
  ELSE "Down"

(* session_state_ after a packet with the given state. *)
NextState(state, remote) ==
  IF remote = "Admin" THEN "Down"
  ELSE IF <<state, remote>> \in
            {<<"Down", "Init">>} \cup ({"Init", "Up"} \X {"Init", "Up"}) THEN "Up"
  ELSE IF <<state, remote>> = <<"Down", "Down">> THEN "Init"
  ELSE "Down"

(* A packet for the entry s; the first one connects.  The detection time   *)
(* starts again.  Init and Down forget the discriminator of the peer.      *)
Update(s, m) ==
  [state |-> NextState(s.state, m.state),
   local |-> IF s.conn THEN s.local ELSE 1,
   remote |-> IF s.state = "Init" /\ m.state = "Down" THEN 0 ELSE m.my,
   minRx |-> m.minRx,
   conn |-> TRUE,
   mustTerminate |-> s.mustTerminate \/ m.final,
   pollbitOn |-> s.pollbitOn \/ m.poll,
   detecting |-> TRUE]

(* on_bfd_recieve: an unknown peer that addresses a session is entered and *)
(* told Down, which fails for want of a connection; an unknown peer that   *)
(* says Down is entered and handled.  A poll is answered at once.          *)
OnBfdReceive(m) ==
  /\ Accepted(m)
  /\ \/ /\ sess = NoSession
        /\ m.your # 0
        /\ sess' = [NewSession EXCEPT !.remote = m.my, !.local = m.your]
        /\ TransmitUnsafe(sess')
     \/ /\ sess = NoSession => m.your = 0 /\ m.state = "Down"
        /\ sess' = Update(IF sess = NoSession THEN NewSession ELSE sess, m)
        /\ IF m.poll THEN TransmitUnsafe(sess') ELSE UNCHANGED toPeer

(* One session of the loop in on_bfd_thread. *)
BfdThread ==
  /\ sess # NoSession
  /\ sess.detecting
  /\ ~sess.mustTerminate
  /\ sess.remote # 0
  /\ sess.minRx # 0
  /\ TransmitUnsafe(sess)
  /\ UNCHANGED <<sess, runs, peer, toManager, heard>>

(* detect_time_ passes: the thread sees it and the state stays. *)
DetectTimePasses ==
  /\ sess # NoSession
  /\ sess.detecting
  /\ sess' = [sess EXCEPT !.detecting = FALSE]
  /\ UNCHANGED <<runs, peer, toManager, toPeer, heard>>

(* BfdRecv is started again: the sessions were in memory only. *)
RestartManager ==
  /\ runs < MaxRuns
  /\ runs' = runs + 1
  /\ sess' = NoSession
  /\ UNCHANGED <<peer, toManager, toPeer, heard>>

-----------------------------------------------------------------------------
(* The network. *)

(* A packet arrives, and may arrive once more later. *)
ToManagerArrives ==
  /\ toManager # NoPacket
  /\ toManager' \in {NoPacket, toManager}
  /\ OnBfdReceive(toManager)
  /\ UNCHANGED <<runs, peer, heard>>

-----------------------------------------------------------------------------
(* The peer. *)

(* It accepts packets to its discriminator, or Down packets to none. *)
PeerAccepts(m) ==
  /\ peer.state # "Admin"
  /\ m.my # 0
  /\ m.your = peer.boot \/ (m.your = 0 /\ m.state = "Down")

PeerState(state, remote) ==
  IF remote = "Down" THEN (IF state = "Down" THEN "Init" ELSE IF state = "Up" THEN "Down" ELSE state)
  ELSE IF state = "Down" /\ remote = "Up" THEN "Down" ELSE "Up"

PeerReceives ==
  /\ toPeer # NoPacket
  /\ toPeer' \in {NoPacket, toPeer}
  /\ PeerAccepts(toPeer)
  /\ peer' = [peer EXCEPT !.state = PeerState(@, toPeer.state), !.remote = toPeer.my]
  /\ heard' = heard \cup {peer.boot}
  /\ UNCHANGED <<sess, runs, toManager>>

(* A later packet takes the place of one that is lost.  A final bit would  *)
(* answer a poll, and the manager never polls.                             *)
PeerSends ==
  /\ \E poll \in BOOLEAN, rx \in {0, 1} :
       toManager' = [state |-> peer.state, my |-> peer.boot, your |-> peer.remote,
                     minRx |-> rx, poll |-> poll, final |-> FALSE]
  /\ UNCHANGED <<sess, runs, peer, toPeer, heard>>

(* It hears nothing for its detection time, or is disabled or enabled. *)
PeerFalls ==
  /\ \E s \in {"Down", "Admin"} : peer' = [peer EXCEPT !.state = s, !.remote = 0]
  /\ UNCHANGED <<sess, runs, toManager, toPeer, heard>>

RestartPeer ==
  /\ peer.boot < MaxBoots
  /\ peer' = [state |-> "Down", boot |-> peer.boot + 1, remote |-> 0]
  /\ UNCHANGED <<sess, runs, toManager, toPeer, heard>>

-----------------------------------------------------------------------------
BfdNext ==
  \/ ToManagerArrives \/ BfdThread \/ DetectTimePasses \/ RestartManager
  \/ PeerReceives \/ PeerSends \/ PeerFalls \/ RestartPeer

BfdSpec == BfdInit /\ [][BfdNext]_bfdVars

-----------------------------------------------------------------------------
(* The session, the packets and the peer have the fields of the code.      *)
BfdTypeOK ==
  /\ sess \in Session \cup {NoSession}
  /\ runs \in 1 .. MaxRuns
  /\ peer \in [state : BfdStates, boot : 1 .. MaxBoots, remote : Discriminators]
  /\ toManager \in Packet \cup {NoPacket}
  /\ toPeer \in Packet \cup {NoPacket}
  /\ heard \subseteq 1 .. MaxBoots

(* The three-way handshake: the manager takes a session to Up only for an  *)
(* incarnation of the peer that has itself heard the manager, whatever was *)
(* lost, delayed or repeated and whoever restarted (on_bfd_recieve).       *)
IsUp(s) == s # NoSession /\ s.state = "Up"
UpIsMutual ==
  [][IsUp(sess)' /\ ~IsUp(sess) => toManager.my \in heard]_bfdVars
=============================================================================
