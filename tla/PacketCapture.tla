---------------------------- MODULE PacketCapture ----------------------------
(***************************************************************************)
(* The capture of BACnet/IP packets (bacnet/packet_capture.py), the hooks  *)
(* that feed it (bacnet/app.py) and the routes that show it                *)
(* (api/routers/packet_capture.py).                                        *)
(*                                                                         *)
(* A payload is what the decoder makes of it: which header or parameter is *)
(* amiss, the APDU, its service, its invoke id and what it is about.       *)
(* Addresses are the client's; the other end is always the simulator.      *)
(* Everything runs on the event loop, without an await in between.         *)
(***************************************************************************)
EXTENDS Naturals, Sequences

CONSTANTS
  Peers,    \* clients, and devices the simulator itself asks
  Incoming, \* payloads a peer may send
  Outgoing, \* and the simulator
  MaxPackets, MaxPayload,
  Known,    \* devices and points there is a row for
  Absent,
  MaxTraffic, MaxStamp, MaxCaptures \* bounds: packets, time, commands

\* What the six parsed services ask for; the rest is decoded by name only.
Tracked == {"ReadProperty", "ReadPropertyMultiple", "WriteProperty",
            "WritePropertyMultiple", "ReadRange", "SubscribeCOV"}
Answering == {"SimpleACK", "ComplexACK", "Error", "Reject", "Abort"}

Payload == [header: {"fits", "length", "foreign", "cut"},       \* BVLC
            network: {"fits", "cut", "version", "missing", "message"}, \* NPDU
            pdu: {"Request", "Unconfirmed", "Segment"} \cup Answering,
            service: Tracked \cup {"I-Am", "Who-Is", "Other"},
            invoke: Nat,
            about: Known \cup {Absent},
            rest: {"fits", "cut", "odd"},                       \* parameters
            size: Nat \ {0}]

ASSUME CaptureAssumption ==
  /\ Incoming \subseteq Payload /\ Outgoing \subseteq Payload
  /\ MaxPackets \in Nat \ {0} /\ MaxPayload \in Nat \ {0}
  /\ {MaxTraffic, MaxStamp, MaxCaptures} \subseteq Nat /\ Absent \notin Known \cup Nat \cup Tracked

VARIABLES
  capture,  \* _running, _session_id, _started_at, _stopped_at
  packets,  \* _packets
  counters, \* _packets_seen, _packets_dropped, _inbound_count, _outbound_count
  clock,    \* the simulation clock runs, and the time of day
  awaiting, \* by peer: the request it waits for an answer to
  traffic, captures

captureVars == <<capture, packets, counters, clock, awaiting, traffic, captures>>

Zero == [seen |-> 0, dropped |-> 0, inbound |-> 0, outbound |-> 0]

CaptureInit ==
  /\ capture = [running |-> FALSE, session |-> 0, began |-> 0, ended |-> 0]
  /\ packets = <<>>
  /\ counters = Zero
  /\ clock = [runs |-> TRUE, now |-> 1]
  /\ awaiting = [c \in Peers |-> Absent]
  /\ traffic = 0 /\ captures = 0

---------------------------------------------------------------------------
(* decode_bacnet_summary *)

Undecoded == [name |-> Absent, operation |-> Absent, invoke |-> Absent, about |-> Absent]
Named(name, operation, invoke, about) ==
  [name |-> name, operation |-> operation, invoke |-> invoke, about |-> about]

\* A wrong tag or the end of the payload fails the whole packet.
Reads(g) == g.rest = "fits"

ReadPropertyRequest(g) ==
  IF Reads(g) THEN Named("Confirmed-Request", "ReadProperty", g.invoke, g.about) ELSE Undecoded

\* The value is passed over up to its closing tag.
WritePropertyRequest(g) ==
  IF Reads(g) THEN Named("Confirmed-Request", "WriteProperty", g.invoke, g.about) ELSE Undecoded

\* Only a read or a write of one property gives its object.
ConfirmedRequest(g) ==
  CASE g.service = "ReadProperty" -> ReadPropertyRequest(g)
    [] g.service = "WriteProperty" -> WritePropertyRequest(g)
    [] OTHER -> Named("Confirmed-Request", g.service, g.invoke, Absent)

\* The device that says so, or the one asked for by equal limits.
IAm(g) == IF Reads(g) THEN Named("I-Am", "I-Am", Absent, g.about) ELSE Undecoded
WhoIs(g) == IF Reads(g) THEN Named("Who-Is", "Who-Is", Absent, g.about) ELSE Undecoded

UnconfirmedRequest(g) ==
  CASE g.service = "I-Am" -> IAm(g)
    [] g.service = "Who-Is" -> WhoIs(g)
    [] OTHER -> Named(g.service, g.service, Absent, Absent)

SimpleAck(g) == Named("Simple-ACK", "SimpleACK", g.invoke, Absent)
ComplexAck(g) == Named("Complex-ACK", "ComplexACK", g.invoke, Absent)
\* An unexpected tag is a warning; the end of the payload fails the packet.
ErrorApdu(g) == IF g.rest = "cut" THEN Undecoded ELSE Named("Error", "Error", g.invoke, Absent)
RejectApdu(g) == Named("Reject", "Reject", g.invoke, Absent)
AbortApdu(g) == Named("Abort", "Abort", g.invoke, Absent)

Apdu(g) ==
  CASE g.pdu = "Request" -> ConfirmedRequest(g)
    [] g.pdu = "Unconfirmed" -> UnconfirmedRequest(g)
    [] g.pdu = "SimpleACK" -> SimpleAck(g)
    [] g.pdu = "ComplexACK" -> ComplexAck(g)
    [] g.pdu = "Error" -> ErrorApdu(g)
    [] g.pdu = "Reject" -> RejectApdu(g)
    [] g.pdu = "Abort" -> AbortApdu(g)
    [] OTHER -> Named("Unknown-APDU", "Unknown-APDU", Absent, Absent)

\* Whatever is amiss, the packet stays in the list; a wrong length is a warning.
Decoded(g) ==
  CASE g.header \in {"foreign", "cut"} \/ g.network \in {"cut", "version", "missing"} -> Undecoded
    [] g.network = "message" -> Named("Network-Layer-Message", "Network-Layer-Message", Absent, Absent)
    [] OTHER -> Apdu(g)

---------------------------------------------------------------------------
(* list_packets and enrich_packet_context *)

\* Filters come before the enrichment: a request that is filtered out lends
\* its object to nothing.
Filters == [direction: {"inbound", "outbound", Absent}, peer: Peers \cup {Absent},
            name: {"Confirmed-Request", "Complex-ACK", Absent}]
Passes(p, f) ==
  /\ f.direction \in {Absent, p.direction}
  /\ f.peer \in {Absent, p.peer}
  /\ f.name \in {Absent, Decoded(p.payload).name}

\* The places of the packets that are listed.
Listed(f) == {n \in DOMAIN packets : Passes(packets[n], f)}

\* The order of their time.  The sort is stable: of packets of one time, the
\* one that is listed first comes first, the newest or the oldest.
ByTime(m, n, newestFirst) ==
  \/ packets[m].stamp < packets[n].stamp
  \/ packets[m].stamp = packets[n].stamp /\ IF newestFirst THEN n < m ELSE m < n

\* Mutant: requests are told apart by invoke id only.
PendingByInvokeId(p) == <<Decoded(p.payload).invoke>>

\* (client, simulator, invoke id), turned round for what goes out.
PendingKey(p) == <<p.peer, Decoded(p.payload).invoke>>

\* A request is never taken out of pending, only replaced: its answer, and
\* whatever else goes out with the same key, is given its object.
NoRequest == [id |-> Absent, about |-> Absent]
Asking(listed, newestFirst, n) ==
  {m \in listed : /\ ByTime(m, n, newestFirst) /\ packets[m].direction = "inbound"
                   /\ Decoded(packets[m].payload).operation \in Tracked
                   /\ PendingKey(packets[m]) = PendingKey(packets[n])}
Pending(listed, newestFirst, n) ==
  LET asking == Asking(listed, newestFirst, n)
      last == CHOOSE m \in asking : \A k \in asking : k = m \/ ByTime(k, m, newestFirst)
  IN IF asking = {} THEN NoRequest
     ELSE [id |-> packets[last].id, about |-> Decoded(packets[last].payload).about]

\* By place: the request it is shown to answer, and what it is about.
Enriched(listed, newestFirst) ==
  [n \in listed |->
     LET p == packets[n]
         linked == p.direction = "outbound" /\ Decoded(p.payload).invoke # Absent
         request == IF linked THEN Pending(listed, newestFirst, n) ELSE NoRequest
         own == Decoded(p.payload).about
     IN [request |-> request.id, about |-> IF own # Absent THEN own ELSE request.about]]

\* resolve_packet_simulator_context: no row, no association.
Associated(about) == IF about \in Known THEN about ELSE Absent

---------------------------------------------------------------------------
(* PacketCapture *)

CaptureCommand == captures < MaxCaptures /\ captures' = captures + 1

StartCapture ==
  /\ CaptureCommand
  /\ capture' = [running |-> TRUE, session |-> capture.session + 1, began |-> clock.now, ended |-> 0]
  /\ packets' = <<>> /\ counters' = Zero
  /\ UNCHANGED <<clock, awaiting, traffic>>

StopCapture ==
  /\ CaptureCommand
  /\ capture' = [capture EXCEPT !.running = FALSE, !.ended = clock.now]
  /\ UNCHANGED <<packets, counters, clock, awaiting, traffic>>

ClearCapture ==
  /\ CaptureCommand
  /\ packets' = <<>> /\ counters' = Zero
  /\ UNCHANGED <<capture, clock, awaiting, traffic>>

\* Mutant: a packet that is pushed out of the list is not counted as dropped.
DropsCutOnly(g) == IF g.size > MaxPayload THEN 1 ELSE 0

\* A packet that is cut and one that is pushed out count alike.
Drops(g) ==
  (IF g.size > MaxPayload THEN 1 ELSE 0) + (IF Len(packets) = MaxPackets THEN 1 ELSE 0)

\* _record.  A payload that was cut no longer has its declared length.
Record(direction, c, g, answers) ==
  LET kept == IF g.size > MaxPayload THEN [g EXCEPT !.size = MaxPayload, !.rest = "cut"] ELSE g
      p == [id |-> traffic + 1, session |-> capture.session, stamp |-> clock.now,
            direction |-> direction, peer |-> c, payload |-> kept, answers |-> answers]
      stored == Append(packets, p)
  IN IF ~capture.running THEN UNCHANGED <<packets, counters>>
     ELSE /\ packets' = IF Len(stored) > MaxPackets THEN Tail(stored) ELSE stored
          /\ counters' = [seen |-> counters.seen + 1,
                          dropped |-> counters.dropped + Drops(g),
                          inbound |-> counters.inbound + (IF direction = "inbound" THEN 1 ELSE 0),
                          outbound |-> counters.outbound + (IF direction = "outbound" THEN 1 ELSE 0)]

Packet == traffic < MaxTraffic /\ traffic' = traffic + 1 /\ UNCHANGED <<capture, clock, captures>>

\* captured_confirmation: also while the clock stands.  A peer asks one thing
\* at a time; it may give up an answer and ask again with the same invoke id.
PacketIn(c, g) ==
  /\ Packet
  /\ Record("inbound", c, g, Absent)
  /\ awaiting' = IF g.pdu = "Request" THEN [awaiting EXCEPT ![c] = [id |-> traffic + 1, invoke |-> g.invoke]]
                 ELSE awaiting

\* captured_indication: while the clock stands nothing goes out and nothing is
\* recorded.
PacketOut(c, g) ==
  /\ clock.runs
  /\ Packet
  /\ IF g.pdu \in Answering
     THEN /\ awaiting[c] # Absent
          /\ g.invoke = awaiting[c].invoke
          /\ Record("outbound", c, g, awaiting[c].id)
          /\ awaiting' = [awaiting EXCEPT ![c] = Absent]
     ELSE Record("outbound", c, g, Absent) /\ UNCHANGED awaiting

\* Two packets may bear the same time.
CaptureLater ==
  /\ clock.now < MaxStamp
  /\ clock' = [clock EXCEPT !.now = @ + 1]
  /\ UNCHANGED <<capture, packets, counters, awaiting, traffic, captures>>

HoldClock ==
  /\ clock' = [clock EXCEPT !.runs = ~@]
  /\ UNCHANGED <<capture, packets, counters, awaiting, traffic, captures>>

CaptureNext ==
  \/ StartCapture \/ StopCapture \/ ClearCapture \/ CaptureLater \/ HoldClock
  \/ \E c \in Peers :
       \/ \E g \in Incoming : PacketIn(c, g)
       \/ \E g \in Outgoing : PacketOut(c, g)

CaptureSpec == CaptureInit /\ [][CaptureNext]_captureVars

---------------------------------------------------------------------------
\* Across starts, stops and clears the status route tells the truth of the
\* list: all of it is of this session and of the time it ran, and what was
\* seen and is not stored was dropped, once.
CaptureAddsUp ==
  /\ counters.inbound + counters.outbound = counters.seen
  /\ Len(packets) <= counters.seen
  /\ counters.seen <= Len(packets) + counters.dropped
  /\ (\A g \in Incoming \cup Outgoing : g.size <= MaxPayload) =>
       counters.seen = Len(packets) + counters.dropped
  /\ \A n \in DOMAIN packets :
       /\ packets[n].session = capture.session
       /\ capture.began <= packets[n].stamp
       /\ capture.running \/ packets[n].stamp <= capture.ended

\* "Copy object/property context from confirmed requests into their ...
\* responses" (enrich_packet_context): however it is filtered and whichever end
\* comes first, no packet is shown to answer another client's request, or one
\* that is not listed; and a decoded answer is shown to answer the request it
\* does answer, and to be about the same thing, if that is listed with an
\* earlier time, its service is parsed and the client has not asked again since.
AnswersKeepTheirRequest ==
  \A f \in Filters, newestFirst \in BOOLEAN :
    LET listed == Listed(f)
        shown == Enriched(listed, newestFirst)
        answered(a) == {r \in DOMAIN packets : packets[r].id = shown[a].request}
        again(r, a) == \E n \in listed \ {r} :
                         /\ packets[n].direction = "inbound" /\ packets[n].peer = packets[r].peer
                         /\ packets[r].stamp <= packets[n].stamp /\ packets[n].stamp <= packets[a].stamp
    IN \A a \in listed :
         /\ shown[a].request # Absent =>
              /\ answered(a) # {}
              /\ \A r \in answered(a) : /\ r \in listed /\ packets[r].direction = "inbound"
                                         /\ packets[r].peer = packets[a].peer
         /\ \A r \in listed :
              (/\ packets[r].id = packets[a].answers
               /\ packets[r].stamp < packets[a].stamp /\ ~again(r, a)
               /\ Decoded(packets[r].payload).operation \in Tracked
               /\ Decoded(packets[a].payload).invoke # Absent)
                => /\ shown[a].request = packets[r].id
                   /\ Associated(shown[a].about) = Associated(Decoded(packets[r].payload).about)
=============================================================================
