----------------------------- MODULE IrqRouting -----------------------------
(***************************************************************************)
(* Device interrupts: huesos-arch ioapic.rs (redirection entries, route    *)
(* records, vectors) with the tables of huesos-ioapic, the vector entry    *)
(* code, and the Interrupt object a driver binds to a port and             *)
(* acknowledges.  The IOAPIC lock makes each ioapic function one step; the *)
(* steps of the object and of the interrupt entry interleave with them.    *)
(* A redirection register may be stuck (writes are lost): the code reads   *)
(* every write back.                                                       *)
(***************************************************************************)
EXTENDS Integers, FiniteSets, FiniteSetsExt

CONSTANTS Gsis, LevelGsis, KeyboardGsi,   \* pins, and how the MADT configures them
          ActiveGsis,                     \* bound: pins whose devices and callers act
          Vectors, KeyboardVector, OnlineCpus,
          IrqObjs, GsiOf, KeysOf,          \* Interrupt objects, their pin, <<primary, alias>>
          PortRoom, AckModulus             \* bounds; pending_acks is a u64 that wraps

ASSUME IrqAssumption ==
    /\ LevelGsis \subseteq Gsis /\ ActiveGsis \subseteq Gsis /\ KeyboardGsi \in Gsis
    /\ Vectors \subseteq Nat /\ KeyboardVector \in Vectors
    /\ OnlineCpus \subseteq Nat /\ OnlineCpus # {}
    /\ GsiOf \in [IrqObjs -> Gsis]
    /\ \A o \in IrqObjs : KeysOf[o] = <<KeysOf[o][1], KeysOf[o][2]>> /\ KeysOf[o][1] # "none"
    /\ AckModulus \in Nat \ {0, 1}

VARIABLES pins, health, irr, asserted,      \* hardware
          routes, vecUsed, vecNext, vecEvents,     \* IoApicState, VECTOR_*_EVENT
          entering,                                \* interrupts between vector entry and dispatch
          obj, binder, acker, signals, room, lost  \* Interrupt objects, their calls, the port

irqVars == <<pins, health, irr, asserted, routes, vecUsed, vecNext, vecEvents,
             entering, obj, binder, acker, signals, room, lost>>

Free == [valid |-> FALSE]
Unrouted == [vec |-> 0, dest |-> 0, masked |-> TRUE]
FreshObj == [bound |-> FALSE, active |-> FALSE, ackReq |-> FALSE, pending |-> 0]
NoEvents == <<"none", "none">>

\* initialize masks every pin; init_keyboard adds the permanent keyboard route.
IrqInit ==
    /\ LET entry == [vec |-> KeyboardVector, dest |-> Min(OnlineCpus), masked |-> FALSE] IN
       /\ pins = [g \in Gsis |-> IF g = KeyboardGsi THEN entry ELSE Unrouted]
       /\ routes = [g \in Gsis |->
                     IF g = KeyboardGsi
                     THEN [valid |-> TRUE, entry |-> entry, refs |-> 0, permanent |-> TRUE,
                           inService |-> FALSE, acks |-> 0, manual |-> FALSE,
                           events |-> <<"legacy1", "none">>]
                     ELSE Free]
    /\ health = [g \in Gsis |-> "good"]
    /\ irr = {} /\ asserted = {}
    /\ vecUsed = {KeyboardVector} /\ vecNext = Min(Vectors)
    /\ vecEvents = [v \in Vectors |-> IF v = KeyboardVector THEN <<"legacy1", "none">> ELSE NoEvents]
    /\ entering = {}
    /\ obj = [o \in IrqObjs |-> FreshObj]
    /\ binder = [o \in IrqObjs |-> "idle"] /\ acker = [o \in IrqObjs |-> "idle"]
    /\ signals = {}
    /\ room = PortRoom /\ lost = {}

Stuck(g) == health[g] = "stuck"

\* Register writes as the hardware applies them.
Wrote(g, entry) == IF Stuck(g) THEN pins ELSE [pins EXCEPT ![g] = entry]
Masked(entry) == [entry EXCEPT !.masked = TRUE]

\* mask_record: sets the mask bit; verified when the pin then is the record's entry.
MaskPin(g) == Wrote(g, Masked(pins[g]))
MaskVerified(g, entry) == MaskPin(g)[g] = Masked(entry)

hardware == <<health, irr, asserted>>
calls == <<entering, obj, acker, signals, room, lost>>

\* VectorAllocator::allocate: next fit from the cursor.
VectorAfter(v) == IF v = Max(Vectors) THEN Min(Vectors) ELSE v + 1
NextVector ==
    LET free == Vectors \ vecUsed
        ahead == {v \in free : v >= vecNext}
    IN IF ahead # {} THEN Min(ahead) ELSE Min(free)

\* add_event_key, for both keys of a request; empty when there is no room.
WithKey(events, key) ==
    IF key \in {events[1], events[2], "none"} THEN {events}
    ELSE IF events[2] = "none" THEN {<<events[1], key>>} ELSE {}
WithKeys(events, keys) == UNION {WithKey(e, keys[2]) : e \in WithKey(events, keys[1])}

Bound(o, ok) ==
    /\ binder' = [binder EXCEPT ![o] = IF ok THEN "routed" ELSE "failed"]
    /\ UNCHANGED hardware /\ UNCHANGED calls

\* route_locked when the GSI has a route: share it, unless it is configured
\* differently or is level triggered and owned.
JoinRoute(o, cpu) ==
    LET g == GsiOf[o]
        r == routes[g]
        joined == WithKeys(r.events, KeysOf[o])
        conflict == r.entry.dest # cpu \/ (~r.permanent /\ g \in LevelGsis /\ r.refs # 0)
    IN /\ binder[o] = "acquire" /\ r.valid
       /\ IF conflict \/ pins[g] # r.entry \/ joined = {}
          THEN Bound(o, FALSE) /\ UNCHANGED <<routes, vecEvents>>
          ELSE \E events \in joined :
                 /\ routes' = [routes EXCEPT ![g].events = events,
                                             ![g].refs = IF r.permanent THEN @ ELSE @ + 1]
                 /\ vecEvents' = [vecEvents EXCEPT ![r.entry.vec] = events]
                 /\ Bound(o, TRUE)
       /\ UNCHANGED <<pins, vecUsed, vecNext>>

\* route_locked otherwise: a vector, the event keys, the pin written masked and
\* verified, then unmasked and verified.  On failure a pin that verifiably is masked
\* gives everything back; otherwise the record keeps the vector for ever.
NewRoute(o, cpu) ==
    LET g == GsiOf[o]
        v == NextVector
        entry == [vec |-> v, dest |-> cpu, masked |-> FALSE]
        record(e) == [valid |-> TRUE, entry |-> e, refs |-> 1, permanent |-> FALSE,
                      inService |-> FALSE, acks |-> 0, manual |-> FALSE, events |-> KeysOf[o]]
        keep(e) ==
            /\ routes' = [routes EXCEPT ![g] = record(e)]
            /\ vecUsed' = vecUsed \cup {v}
            /\ vecEvents' = [vecEvents EXCEPT ![v] = KeysOf[o]]
    IN /\ binder[o] = "acquire" /\ ~routes[g].valid
       /\ IF Vectors \subseteq vecUsed
          THEN Bound(o, FALSE) /\ UNCHANGED <<pins, routes, vecUsed, vecNext, vecEvents>>
          ELSE /\ vecNext' = VectorAfter(v)
               /\ IF ~Stuck(g)
                  THEN pins' = Wrote(g, entry) /\ keep(entry) /\ Bound(o, TRUE)
                  ELSE /\ UNCHANGED pins
                       /\ IF MaskVerified(g, entry)
                          THEN UNCHANGED <<routes, vecUsed>> /\ vecEvents' = [vecEvents EXCEPT ![v] = NoEvents]
                          ELSE keep(Masked(entry))
                       /\ Bound(o, FALSE)

\* bind_port: set the binding, then under route_lock declare the route active, ...
BindPort(o) ==
    /\ binder[o] = "idle"
    /\ obj' = [obj EXCEPT ![o].bound = TRUE,
                          ![o].active = TRUE,
                          ![o].ackReq = IF obj[o].active THEN @ ELSE TRUE]
    /\ binder' = [binder EXCEPT ![o] = IF obj[o].active THEN "idle" ELSE "acquire"]
    /\ UNCHANGED <<pins, routes, vecUsed, vecNext, vecEvents, entering, acker, signals, room, lost>>
    /\ UNCHANGED hardware

\* ... acquire it, and record whether it needs acknowledgement, or take it back.
BindDone(o) ==
    LET ok == binder[o] = "routed"
        needsAck == GsiOf[o] \in LevelGsis /\ routes[GsiOf[o]].entry.vec # KeyboardVector
    IN /\ binder[o] \in {"routed", "failed"}
       /\ obj' = [obj EXCEPT ![o].active = ok, ![o].ackReq = ok /\ needsAck]
       /\ binder' = [binder EXCEPT ![o] = "idle"]
       /\ UNCHANGED <<pins, routes, vecUsed, vecNext, vecEvents, entering, acker, signals, room, lost>>
       /\ UNCHANGED hardware

\* release_route_key: the last reference masks the pin and gives the vector back;
\* a pin that does not verify as masked keeps its record.
Released(g) ==
    LET r == routes[g] IN
    IF ~r.valid \/ r.permanent THEN UNCHANGED <<pins, routes, vecUsed, vecEvents>>
    ELSE IF r.refs > 1
    THEN routes' = [routes EXCEPT ![g].refs = @ - 1] /\ UNCHANGED <<pins, vecUsed, vecEvents>>
    ELSE /\ pins' = MaskPin(g)
         /\ IF MaskVerified(g, r.entry)
            THEN /\ routes' = [routes EXCEPT ![g] = Free]
                 /\ vecUsed' = vecUsed \ {r.entry.vec}
                 /\ vecEvents' = [vecEvents EXCEPT ![r.entry.vec] = NoEvents]
            ELSE /\ routes' = [routes EXCEPT ![g].entry = Masked(@), ![g].manual = TRUE, ![g].refs = 1]
                 /\ UNCHANGED <<vecUsed, vecEvents>>

\* Drop of the last reference to an Interrupt; a later object may have the same IRQ.
DropInterrupt(o) ==
    /\ binder[o] = "idle" /\ acker[o] = "idle"
    /\ \A s \in signals : s.obj # o
    /\ obj[o].bound
    /\ obj' = [obj EXCEPT ![o] = FreshObj]
    /\ IF obj[o].active THEN Released(GsiOf[o]) ELSE UNCHANGED <<pins, routes, vecUsed, vecEvents>>
    /\ lost' = lost \ {o}
    /\ UNCHANGED <<vecNext, entering, binder, acker, signals, room>>
    /\ UNCHANGED hardware

\* The device raises or lowers its line; the IOAPIC sends an unmasked pin's vector
\* once until end of interrupt (level), or once per edge.
Raise(g) == g \notin asserted /\ asserted' = asserted \cup {g} /\ UNCHANGED <<health, irr, entering>>
Lower(g) == g \in asserted /\ asserted' = asserted \ {g} /\ UNCHANGED <<health, irr, entering>>
Send(g) ==
    /\ g \in asserted /\ ~pins[g].masked /\ g \notin irr
    /\ \A e \in entering : e.vec # pins[g].vec
    /\ entering' = entering \cup {[vec |-> pins[g].vec, begun |-> FALSE]}
    /\ IF g \in LevelGsis THEN irr' = irr \cup {g} /\ UNCHANGED asserted
       ELSE asserted' = asserted \ {g} /\ UNCHANGED irr
    /\ UNCHANGED <<health>>
\* A pin may go bad once and be mended (a fault of the hardware, not of the code).
Fault(g) ==
    /\ health[g] # "mended"
    /\ health' = [health EXCEPT ![g] = IF @ = "good" THEN "stuck" ELSE "mended"]
    /\ UNCHANGED <<irr, asserted, entering>>
Device(g) ==
    /\ Raise(g) \/ Lower(g) \/ Send(g) \/ Fault(g)
    /\ UNCHANGED <<pins, routes, vecUsed, vecNext, vecEvents, obj, binder, acker, signals, room, lost>>

\* Mutant: the line is masked, but nothing records that it waits for the driver.
BeginWithoutService(v) ==
    /\ [vec |-> v, begun |-> FALSE] \in entering
    /\ entering' = (entering \ {[vec |-> v, begun |-> FALSE]}) \cup {[vec |-> v, begun |-> TRUE]}
    /\ \E g \in Gsis :
         /\ routes[g].valid /\ routes[g].entry.vec = v
         /\ pins' = MaskPin(g)
         /\ routes' = [routes EXCEPT ![g].entry = Masked(@), ![g].inService = TRUE, ![g].acks = 0]
         /\ irr' = irr \ {g}
    /\ UNCHANGED <<health, asserted, vecUsed, vecNext, vecEvents, obj, binder, acker, signals, room, lost>>

\* dispatch_external_irq: begin_interrupt masks a level line until it is
\* acknowledged, then end of interrupt; ...
BeginInterrupt(v) ==
    LET at == {g \in Gsis : routes[g].valid /\ routes[g].entry.vec = v}
        serve == {g \in at : ~routes[g].permanent /\ g \in LevelGsis /\ ~routes[g].inService}
    IN /\ [vec |-> v, begun |-> FALSE] \in entering
       /\ entering' = (entering \ {[vec |-> v, begun |-> FALSE]}) \cup {[vec |-> v, begun |-> TRUE]}
       /\ pins' = [g \in Gsis |-> IF g \in serve THEN MaskPin(g)[g] ELSE pins[g]]
       /\ routes' = [g \in Gsis |->
                       IF g \in serve
                       THEN [routes[g] EXCEPT !.entry = Masked(@), !.inService = TRUE, !.acks = routes[g].refs]
                       ELSE routes[g]]
       /\ irr' = {g \in irr : pins[g].vec # v}
       /\ UNCHANGED <<health, asserted, vecUsed, vecNext, vecEvents, obj, binder, acker, signals, room, lost>>

\* ... dispatch_vector and handle_irq: both event keys, and every bound Interrupt of
\* each.  signal counts an acknowledgement for the packet it is about to queue, ...
Dispatch(v) ==
    LET keys == {vecEvents[v][1], vecEvents[v][2]} \ {"none"}
        to == {o \in IrqObjs : obj[o].bound /\ KeysOf[o][1] \in keys}
        needs(o) == obj[o].active /\ obj[o].ackReq
    IN /\ [vec |-> v, begun |-> TRUE] \in entering
       /\ \A s \in signals : s.obj \notin to
       /\ \A o \in to : obj[o].pending # AckModulus - 2   \* bound: AckModulus - 1 stands for 2^64 - 1
       /\ entering' = entering \ {[vec |-> v, begun |-> TRUE]}
       /\ signals' = signals \cup {[obj |-> o, needsAck |-> needs(o)] : o \in to}
       /\ obj' = [o \in IrqObjs |-> IF o \in to /\ needs(o)
                                   THEN [obj[o] EXCEPT !.pending = (@ + 1) % AckModulus] ELSE obj[o]]
       /\ UNCHANGED <<pins, routes, vecUsed, vecNext, vecEvents, binder, acker, room, lost>>
       /\ UNCHANGED hardware

\* ... and takes the count back if the port is full.
QueueSignal(s) ==
    /\ s \in signals
    /\ signals' = signals \ {s}
    /\ IF room > 0
       THEN room' = room - 1 /\ UNCHANGED <<obj, lost>>
       ELSE /\ UNCHANGED room
            /\ lost' = IF s.needsAck THEN lost \cup {s.obj} ELSE lost
            /\ obj' = [obj EXCEPT ![s.obj].pending = IF s.needsAck THEN (@ - 1) % AckModulus ELSE @]
    /\ UNCHANGED <<pins, routes, vecUsed, vecNext, vecEvents, entering, binder, acker>>
    /\ UNCHANGED hardware

\* The driver reads packets of its port; others queue packets there too.
UsePort ==
    /\ room' \in 0..PortRoom /\ room' # room
    /\ UNCHANGED <<pins, routes, vecUsed, vecNext, vecEvents, entering, obj, binder, acker, signals, lost>>
    /\ UNCHANGED hardware

\* Interrupt::acknowledge, at any time: take one pending count, ...
Acknowledge(o) ==
    /\ acker[o] = "idle" /\ binder[o] = "idle" /\ obj[o].active /\ obj[o].ackReq /\ obj[o].pending # 0
    /\ obj' = [obj EXCEPT ![o].pending = @ - 1]
    /\ acker' = [acker EXCEPT ![o] = "ack"]
    /\ UNCHANGED <<pins, routes, vecUsed, vecNext, vecEvents, entering, binder, signals, room, lost>>
    /\ UNCHANGED hardware

\* ... acknowledge_route_key: the last acknowledgement unmasks the pin, unless it is
\* masked by hand; if that does not verify, the count is put back.
AcknowledgeRoute(o) ==
    LET g == GsiOf[o]
        r == routes[g]
        ends == r.valid /\ ~r.permanent /\ r.inService /\ r.acks # 0
        last == ends /\ r.acks = 1 /\ ~r.manual
        done == Wrote(g, [r.entry EXCEPT !.masked = FALSE])
        failed == ~r.valid \/ (last /\ done[g] # [r.entry EXCEPT !.masked = FALSE])
    IN /\ acker[o] = "ack"
       /\ acker' = [acker EXCEPT ![o] = "idle"]
       /\ pins' = IF last THEN done ELSE pins
       /\ routes' = IF ~ends \/ failed THEN routes
                    ELSE [routes EXCEPT ![g].acks = @ - 1,
                                        ![g].inService = r.acks # 1,
                                        ![g].entry.masked = IF last THEN FALSE ELSE @]
       /\ obj' = [obj EXCEPT ![o].pending = IF failed THEN (@ + 1) % AckModulus ELSE @]
       /\ UNCHANGED <<vecUsed, vecNext, vecEvents, entering, binder, signals, room, lost>>
       /\ UNCHANGED hardware

\* mask_gsi and unmask_gsi: the record first, then the register.
MaskGsi(g) ==
    /\ routes[g].valid
    /\ routes' = [routes EXCEPT ![g].manual = TRUE, ![g].entry = Masked(@)]
    /\ pins' = Wrote(g, Masked(routes[g].entry))
    /\ UNCHANGED <<vecUsed, vecNext, vecEvents, binder>>
    /\ UNCHANGED hardware /\ UNCHANGED calls

UnmaskGsi(g) ==
    LET r == routes[g]
        open == [r.entry EXCEPT !.masked = FALSE]
    IN /\ r.valid /\ ~(r.inService /\ g \in LevelGsis)
       /\ pins' = IF Wrote(g, open)[g] = open THEN Wrote(g, open) ELSE MaskPin(g)
       /\ routes' = [routes EXCEPT ![g].manual = Wrote(g, open)[g] # open,
                                   ![g].entry.masked = Wrote(g, open)[g] # open]
       /\ UNCHANGED <<vecUsed, vecNext, vecEvents, binder>>
       /\ UNCHANGED hardware /\ UNCHANGED calls

\* set_affinity: mask, wait for the level line to be idle, write the destination
\* masked, restore the mask.  A pin that does not verify stays recorded as masked.
SetAffinity(g, cpu) ==
    LET r == routes[g]
        moved == [r.entry EXCEPT !.dest = cpu, !.masked = @ \/ r.manual]
        busy == g \in LevelGsis /\ g \in irr
    IN /\ r.valid /\ cpu \in OnlineCpus
       /\ IF Stuck(g)
          THEN IF pins[g] # Masked(r.entry)   \* the first write does not verify
               THEN routes' = [routes EXCEPT ![g].entry = Masked(@)] /\ UNCHANGED pins
               ELSE IF busy
               THEN /\ routes' = [routes EXCEPT ![g].entry = Masked(@),
                                               ![g].manual = @ \/ ~r.entry.masked]
                    /\ UNCHANGED pins
               ELSE routes' = [routes EXCEPT ![g].entry = Masked(moved)] /\ UNCHANGED pins
          ELSE IF busy
          THEN /\ pins' = Wrote(g, IF r.manual THEN Masked(r.entry) ELSE r.entry)
               /\ routes' = [routes EXCEPT ![g].entry = IF r.manual THEN Masked(@) ELSE @]
          ELSE pins' = Wrote(g, moved) /\ routes' = [routes EXCEPT ![g].entry = moved]
       /\ UNCHANGED <<vecUsed, vecNext, vecEvents, binder>>
       /\ UNCHANGED hardware /\ UNCHANGED calls

IrqNext ==
    \/ \E o \in IrqObjs : BindPort(o) \/ BindDone(o) \/ DropInterrupt(o) \/ Acknowledge(o) \/ AcknowledgeRoute(o)
    \/ \E o \in IrqObjs, cpu \in OnlineCpus : JoinRoute(o, cpu) \/ NewRoute(o, cpu)
    \/ \E g \in ActiveGsis : Device(g) \/ MaskGsi(g) \/ UnmaskGsi(g)
    \/ \E g \in ActiveGsis, cpu \in OnlineCpus : SetAffinity(g, cpu)
    \/ \E v \in Vectors : BeginInterrupt(v) \/ Dispatch(v)
    \/ \E s \in signals : QueueSignal(s)
    \/ UsePort

IrqSpec == IrqInit /\ [][IrqNext]_irqVars

\* Somebody will unmask a level line in service: the driver has an acknowledgement
\* to give or is giving it, or the handler is still to tell it.  Excepted are a line
\* masked by hand and a driver whose packet met a full port (interrupt.rs drops the
\* packet and the count, and leaves the line masked).
Owed(g) ==
    \/ \E o \in IrqObjs : GsiOf[o] = g /\ (obj[o].pending # 0 \/ acker[o] = "ack" \/ o \in lost)
    \/ [vec |-> routes[g].entry.vec, begun |-> TRUE] \in entering
    \/ routes[g].manual

\* A pin is unmasked only while a route owns it, with its vector reserved and its
\* events published, even when register writes were lost; and a level line of a
\* working pin that is in service is never left masked with nobody due to acknowledge
\* it, whatever interleaving of binding, entry, signal, acknowledgement, masking,
\* affinity changes and drops.
RoutesSound ==
    \A g \in Gsis :
        /\ ~pins[g].masked =>
              /\ routes[g].valid /\ routes[g].entry.vec = pins[g].vec
              /\ pins[g].vec \in vecUsed /\ vecEvents[pins[g].vec] = routes[g].events
        /\ routes[g].valid /\ routes[g].inService /\ health[g] = "good" => Owed(g)
=============================================================================
