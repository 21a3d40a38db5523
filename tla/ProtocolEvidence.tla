-------------------------- MODULE ProtocolEvidence --------------------------
(***************************************************************************)
(* What a packet capture proves: the analyzers of                          *)
(* lib/services/protocol_evidence.py over the frames that a sniffer on the *)
(* access point has heard, and the peers that sent them.                   *)
(*                                                                         *)
(* Peers are honest.  Frames are lost, delayed and retransmitted, and the  *)
(* sniffer misses some of them.  What a peer has really done is kept in    *)
(* "truth", which no analyzer reads.                                       *)
(***************************************************************************)
EXTENDS Integers, SequencesExt

CONSTANTS Stations,   \* stations, and access points that send beacons
          Target,     \* the one under test
          Stranger,   \* one that does not know the PSK
          Protocols,  \* what is captured
          MaxFrames   \* bound: frames of one capture

ASSUME TargetAssumption == Target \in Stations /\ Stranger \in Stations \ {Target}
ASSUME ProtocolsAssumption == Protocols \subseteq {"eapol", "dhcp", "dns", "beacon"}
ASSUME MaxFramesAssumption == MaxFrames \in [Protocols -> Nat]

VARIABLES protocol,  \* of the capture that is going on, or "none"
          air,       \* frames that were sent, in order
          heard,     \* those of them in the capture
          client,    \* where each station is
          counter,   \* replay counter of the access point, for each station
          truth      \* facts about each station

captureVars == <<protocol, air, heard, client, counter, truth>>

Quiet ==
  /\ protocol = "none"
  /\ air = <<>> /\ heard = <<>>
  /\ client = [c \in Stations |-> "idle"]
  /\ counter = [c \in Stations |-> 0]
  /\ truth = [c \in Stations |-> {}]

\* A capture begins, or ends.
Listen(p) ==
  /\ protocol' = p
  /\ air' = <<>> /\ heard' = <<>>
  /\ client' = [c \in Stations |-> "idle"]
  /\ counter' = [c \in Stations |-> 0]
  /\ truth' = [c \in Stations |-> {}]

Frame(kind, c, n) == [kind |-> kind, from |-> c, n |-> n]

\* A frame is sent, and the sniffer hears it or not.
Transmit(f) ==
  /\ Len(air) < MaxFrames[protocol]
  /\ air' = Append(air, f)
  /\ heard' \in {heard, Append(heard, f)}

\* A peer may get a frame late, twice or never.
Got(c, kind) == {f \in ToSet(air) : f.from = c /\ f.kind = kind}

Learn(c, facts) == truth' = [truth EXCEPT ![c] = @ \cup facts]
Become(c, state) == client' = [client EXCEPT ![c] = state]

\* Where the frames of one station and its peer are in the capture.
Of(c) == {i \in DOMAIN heard : heard[i].from = c}

\* Frames of these kinds, in this order.
InOrder(i, j, k, l, kinds) ==
  /\ i < j /\ j < k /\ k < l
  /\ <<heard[i].kind, heard[j].kind, heard[k].kind, heard[l].kind>> = kinds

-----------------------------------------------------------------------------
(* The WPA2 four-way handshake; n is the replay counter.                    *)

M1(c) ==
  /\ client[c] # "installed"
  /\ counter' = [counter EXCEPT ![c] = @ + 1]
  /\ Transmit(Frame("M1", c, counter[c] + 1))
  /\ UNCHANGED <<client, truth>>

M2(c) ==
  /\ \E m \in Got(c, "M1") : Transmit(Frame("M2", c, m.n))
  /\ UNCHANGED <<client, counter, truth>>

\* The access point checks the MIC of M2.
M3(c) ==
  /\ c # Stranger /\ Got(c, "M2") # {}
  /\ counter' = [counter EXCEPT ![c] = @ + 1]
  /\ Transmit(Frame("M3", c, counter[c] + 1))
  /\ UNCHANGED <<client, truth>>

M4(c) ==
  /\ \E m \in Got(c, "M3") : Transmit(Frame("M4", c, m.n))
  /\ Become(c, "installed") /\ Learn(c, {"installed"})
  /\ UNCHANGED counter

\* _handshake_is_complete; direction and descriptor go with the kind.
HandshakeIsComplete(places) ==
  \E i, j, k, l \in places :
    /\ InOrder(i, j, k, l, <<"M1", "M2", "M3", "M4">>)
    /\ heard[j].n = heard[i].n /\ heard[k].n > heard[i].n /\ heard[l].n = heard[k].n

-----------------------------------------------------------------------------
(* DHCP; n is what a REQUEST is for.  All stations draw the same            *)
(* transaction id.                                                         *)

Send(c, kind, n, state) ==
  Transmit(Frame(kind, c, n)) /\ Become(c, state) /\ UNCHANGED <<counter, truth>>

Discover(c) ==
  client[c] \in {"idle", "rebooting", "selecting"} /\ Send(c, "DISCOVER", "", "selecting")

Offer(c) == Got(c, "DISCOVER") # {} /\ Send(c, "OFFER", "", client[c])

Select(c) ==
  /\ client[c] \in {"selecting", "requesting"} /\ Got(c, "OFFER") # {}
  /\ Send(c, "REQUEST", "select", "requesting")

\* A station that remembers its address, and one whose lease is at T1 or T2.
Reboot(c) == client[c] = "idle" /\ Send(c, "REQUEST", "reboot", "rebooting")
Renew(c) == client[c] \in {"idle", "renewing"} /\ Send(c, "REQUEST", "RENEW", "renewing")
Rebind(c) == client[c] \in {"renewing", "rebinding"} /\ Send(c, "REQUEST", "REBIND", "rebinding")

\* The server grants what was asked for.
Ack(c) ==
  /\ Got(c, "REQUEST") # {}
  /\ Transmit(Frame("ACK", c, ""))
  /\ Learn(c, {m.n : m \in Got(c, "REQUEST")})
  /\ UNCHANGED <<client, counter>>

Nak(c) == client[c] = "rebooting" /\ Send(c, "NAK", "", "selecting")

\* Mutant: transactions are told apart by their id alone.
Transaction_ByXid(c) == DOMAIN heard

\* analyze_dhcp groups by transaction id and hardware address.
Transaction(c) == Of(c)

\* _ordered_dora.
OrderedDora(places) ==
  \E i, j, k, l \in places : InOrder(i, j, k, l, <<"DISCOVER", "OFFER", "REQUEST", "ACK">>)

\* A REQUEST to the server (RENEW) or to everyone (REBIND), and an ACK after it.
Extended(places, phase) ==
  \E i, j \in places :
    i < j /\ heard[i].kind = "REQUEST" /\ heard[i].n = phase /\ heard[j].kind = "ACK"

-----------------------------------------------------------------------------
(* DNS; n is the transaction id with the port.                              *)

Flows == 1..2
Times(kind, c, n) == Cardinality({i \in DOMAIN air : air[i] = Frame(kind, c, n)})

Query(c) == \E n \in Flows : Send(c, "query", n, client[c])

Respond(c) ==
  \E n \in Flows :
    Times("response", c, n) < Times("query", c, n) /\ Send(c, "response", n, client[c])

\* A response answers the oldest outstanding query of its flow.
Matched(acc) == [pending |-> acc.pending - 1, correlated |-> acc.correlated + 1]

\* What the loop does with a frame.
Counted(acc, f) ==
  IF f.kind = "query" THEN [acc EXCEPT !.pending = @ + 1]
  ELSE IF acc.pending > 0 THEN Matched(acc) ELSE acc

\* analyze_dns: the queries of a flow, outstanding and with a response, among
\* these frames.
Analyzed(frames, c, n) ==
  LET after[i \in 0..Len(frames)] ==
        IF i = 0 THEN [pending |-> 0, correlated |-> 0]
        ELSE IF frames[i].from = c /\ frames[i].n = n THEN Counted(after[i - 1], frames[i])
        ELSE after[i - 1]
  IN after[Len(frames)]

Correlated(c, n) == Analyzed(heard, c, n).correlated

-----------------------------------------------------------------------------
(* Beacons; n is the RSN element as far as it was received.                 *)

\* A network is brought up, with WPA2 or without.
Open(c) ==
  /\ client[c] = "idle"
  /\ \E rsn \in {"CCMP", "none"} : Become(c, rsn) /\ Learn(c, {rsn})
  /\ UNCHANGED <<air, heard, counter>>

Beacon(c) ==
  /\ client[c] # "idle"
  /\ \E rsn \in {client[c], "truncated"} : Send(c, "beacon", rsn, client[c])

\* analyze_beacon: the first beacon with the expected SSID and BSSID, or else
\* the first.
Chosen == heard[IF Of(Target) # {} THEN Min(Of(Target)) ELSE 1]

\* What the test asserts of it.
BeaconAccepted == heard # <<>> /\ Chosen = Frame("beacon", Target, "CCMP")

-----------------------------------------------------------------------------
(* Captures and what the tests claim from them.                             *)

Capturing(c) ==
  /\ \/ protocol = "eapol" /\ (M1(c) \/ M2(c) \/ M3(c) \/ M4(c))
     \/ protocol = "dhcp" /\ (Discover(c) \/ Offer(c) \/ Select(c) \/ Reboot(c)
                               \/ Renew(c) \/ Rebind(c) \/ Ack(c) \/ Nak(c))
     \/ protocol = "dns" /\ (Query(c) \/ Respond(c))
     \/ protocol = "beacon" /\ (Open(c) \/ Beacon(c))
  /\ UNCHANGED protocol

\* What the tests assert of the analyses, but for what the model has no data
\* of: the addresses of answers and leases, a beacon's channel and interval.
\* Without these more captures claim something, never fewer.
Claimed ==
  CASE protocol = "eapol" -> HandshakeIsComplete(Of(Target))
    [] protocol = "dhcp" -> \E c \in Stations : OrderedDora(Transaction(c))
    [] protocol = "dns" -> \E c \in Stations, n \in Flows : Correlated(c, n) > 0
    [] protocol = "beacon" -> BeaconAccepted
    [] OTHER -> FALSE

Happened ==
  CASE protocol = "eapol" -> "installed" \in truth[Target]
    [] protocol = "dhcp" -> \E c \in Stations : "select" \in truth[c]
    [] protocol = "dns" -> \E c \in Stations, n \in Flows : Times("response", c, n) > 0
    [] protocol = "beacon" -> "CCMP" \in truth[Target]
    [] OTHER -> FALSE

\* A claim is true, and what happened is claimed if no frame of it was missed.
Exact(claim, fact) == (claim => fact) /\ (fact /\ heard = air => claim)

Whole(c) == \A f \in ToSet(air) : f.from = c => f.n # "truncated"

\* No frame that is lost, late, repeated or missed makes an analyzer claim what
\* no station has done; and a capture without gaps never fails to prove what
\* happened.  A renewal may be the rebinding that followed it.
ClaimsAreExact ==
  /\ protocol = "eapol" =>
       \A c \in Stations : Exact(HandshakeIsComplete(Of(c)), "installed" \in truth[c])
  /\ protocol = "dhcp" =>
       \A c \in Stations :
         /\ Exact(OrderedDora(Transaction(c)), "select" \in truth[c])
         /\ Exact(\E phase \in {"RENEW", "REBIND"} : Extended(Transaction(c), phase),
                  truth[c] \cap {"RENEW", "REBIND"} # {})
         /\ Extended(Transaction(c), "REBIND") => "REBIND" \in truth[c]
  /\ protocol = "dns" =>
       \A c \in Stations, n \in Flows :
         /\ Correlated(c, n) <= Times("response", c, n)
         /\ heard = air => Correlated(c, n) = Times("response", c, n)
  /\ protocol = "beacon" =>
       /\ BeaconAccepted => "CCMP" \in truth[Target]
       /\ "CCMP" \in truth[Target] /\ heard = air /\ Whole(Target) /\ Of(Target) # {}
            => BeaconAccepted
=============================================================================
