------------------------ MODULE MappingOutstation_proofs ------------------------
(***************************************************************************)
(* Proofs about MappingOutstation, for any masters, destinations, mappings *)
(* and responses: its types, that no update is lost between an input array *)
(* and the database, that a mapping whose input indices fit its arrays     *)
(* publishes nothing but what was sent, and that whole responses take      *)
(* effect, as PointMirror promises.                                        *)
(***************************************************************************)
EXTENDS MappingOutstation, FoldFacts

USE DEF Analog, Binary, Counter

-------------------------------------------------------------------------------
(* Operators of the model *)

LEMMA ZeroType == Zero \in Point
  BY ValueAssumption DEF Zero, Point

\* A point's channel is one of the model's, and one its destination looks at.
LEMMA PointType ==
  ASSUME NEW d \in Dests, NEW p \in Points[d]
  PROVE  /\ p \in MappedDataPoint
         /\ Channel(p) \in Channels
         /\ Channel(p) \in ChannelsOf(d)
         /\ p.input_index \in Index
  BY PointAssumption DEF MappedDataPoint, Channel, Channels, ChannelsOf

LEMMA ChannelsOfType == ASSUME NEW d \in Dests PROVE ChannelsOf(d) \subseteq Channels
  BY PointAssumption DEF MappedDataPoint, Channels, ChannelsOf

LEMMA StoredType ==
  ASSUME NEW d, NEW c, NEW array \in [Index -> Point], NEW it \in Item
  PROVE  Stored(d, c, array, it) \in [Index -> Point]
  BY DEF Stored, Item, Point

LEMMA ViewType ==
  ASSUME NEW d, NEW x \in Point \cup {Garbage}
  PROVE  /\ View(d, x) \in Point \cup {Garbage}
         /\ x \in Point => View(d, x) \in Point
  BY ScriptAssumption DEF View, Point

LEMMA InputType ==
  ASSUME TypeOK, NEW d \in Dests, NEW p \in Points[d]
  PROVE  /\ Input(d, p) \in Point \cup {Garbage}
         /\ HasSlot(d, Channel(p), p.input_index) => Input(d, p) \in Point
  BY PointType DEF Input, Element, TypeOK

LEMMA CopiedType ==
  ASSUME TypeOK, NEW d \in Dests, NEW c
  PROVE  Copied(d, c) \in [Points[d] -> Point \cup {Garbage}]
  BY InputType DEF Copied, TypeOK

LEMMA InjectedType ==
  ASSUME TypeOK, NEW d \in Dests, NEW k,
         NEW points \in [Points[d] -> Point \cup {Garbage}]
  PROVE  Injected(d, k, points) \in [Points[d] -> Point \cup {Garbage}]
  <1> SUFFICES ASSUME NEW p \in Points[d]
               PROVE  (IF p.kind = k THEN View(d, points[p]) ELSE db[d][p])
                        \in Point \cup {Garbage}
    BY DEF Injected
  <1>1. View(d, points[p]) \in Point \cup {Garbage}
    BY ViewType
  <1> QED BY <1>1 DEF TypeOK

-------------------------------------------------------------------------------
(* Types, and who holds a mutex *)

LEMMA TypeInit == Init => TypeOK
  <1> SUFFICES ASSUME Init PROVE TypeOK
    OBVIOUS
  <1>1. \A d \in Dests : [p \in Points[d] |-> Zero] \in [Points[d] -> Point \cup {Garbage}]
    BY ZeroType
  <1>2. /\ in \in [Dests -> [Channels -> [Index -> Point]]]
        /\ phase \in [Dests -> Phases]
        /\ holder \in [Dests -> Masters \cup {Free, Station}]
        /\ \A d \in Dests : holder[d] # Station /\ phase[d] # "pass"
    BY ZeroType, HolderAssumption DEF Init, Phases
  <1>3. /\ DOMAIN builder = Dests /\ DOMAIN out = Dests /\ DOMAIN db = Dests
        /\ \A d \in Dests :
              /\ builder[d] \subseteq Points[d]
              /\ out[d] \in [Points[d] -> Point \cup {Garbage}]
              /\ db[d] \in [Points[d] -> Point \cup {Garbage}]
    BY <1>1 DEF Init
  <1>4. /\ batch \in [Masters -> Seq(Item)]
        /\ next \in [Masters -> Nat \ {0}]
    <2>1. <<>> \in Seq(Item)
      OBVIOUS
    <2> QED BY <2>1 DEF Init
  <1> QED BY <1>2, <1>3, <1>4 DEF Init, TypeOK

LEMMA TypeMain ==
  TypeOK /\ (Quit \/ \E m \in Masters : UpdateDestinations(m)) => TypeOK'
  BY DEF TypeOK, Quit, UpdateDestinations, masterVars, destVars

LEMMA TypeReceive ==
  ASSUME TypeOK, NEW m \in Masters, Receive(m) PROVE TypeOK'
  <1>1. PICK k \in Kinds, b \in Batches :
            /\ kind' = [kind EXCEPT ![m] = k]
            /\ batch' = [batch EXCEPT ![m] = b]
    BY DEF Receive
  <1>2. b \in Seq(Item)
    BY BatchAssumption
  <1>3. kind' \in [Masters -> Kinds] /\ batch' \in [Masters -> Seq(Item)]
    BY <1>1, <1>2 DEF TypeOK
  <1>4. todo' \in [Masters -> SUBSET Dests]
    BY DestAssumption DEF Receive, TypeOK
  <1> QED BY <1>3, <1>4 DEF Receive, TypeOK, destVars

LEMMA TypeCallback ==
  ASSUME TypeOK, NEW m \in Masters, NEW d \in Dests, Callback(m, d) PROVE TypeOK'
  <1>1. CASE LockDest(m, d)
    BY <1>1, HolderAssumption DEF LockDest, Available, TypeOK, destVars
  <1>2. CASE StoreItem(m, d)
    <2>1. Current(m) \in Channels
      BY DEF Current, Channels, TypeOK
    <2>2. batch[m][next[m]] \in Item
      BY <1>2 DEF StoreItem, TypeOK
    <2>3. Stored(d, Current(m), in[d][Current(m)], batch[m][next[m]]) \in [Index -> Point]
      <3>1. in[d][Current(m)] \in [Index -> Point]
        BY <2>1 DEF TypeOK
      <3> HIDE DEF Current
      <3> QED BY <2>2, <3>1, StoredType
    <2>4. in' \in [Dests -> [Channels -> [Index -> Point]]]
      BY <1>2, <2>1, <2>3 DEF StoreItem, TypeOK
    <2>5. next' \in [Masters -> Nat \ {0}]
      BY <1>2 DEF StoreItem, TypeOK
    <2> QED BY <1>2, <2>4, <2>5 DEF StoreItem, TypeOK, destVars
  <1>3. CASE RaiseFlag(m, d)
    <2>1. Current(m) \in Channels
      BY DEF Current, Channels, TypeOK
    <2>2. /\ flag' \in [Dests -> SUBSET Channels]
          /\ missed' \in [Dests -> SUBSET Channels]
      BY <1>3, <2>1 DEF RaiseFlag, TypeOK
    <2>3. /\ holder' \in [Dests -> Masters \cup {Free, Station}]
          /\ \A e \in Dests : holder'[e] = Station <=> phase[e] = "pass"
      BY <1>3, HolderAssumption DEF RaiseFlag, Holds, TypeOK
    <2>4. batch' \in [Masters -> Seq(Item)]
      <3>1. <<>> \in Seq(Item)
        OBVIOUS
      <3> QED BY <1>3, <3>1 DEF RaiseFlag, TypeOK
    <2> QED BY <1>3, <2>2, <2>3, <2>4 DEF RaiseFlag, TypeOK, destVars
  <1> QED BY <1>1, <1>2, <1>3 DEF Callback

LEMMA TypeStart ==
  ASSUME TypeOK, NEW d \in Dests, Resize(d) \/ ZeroArrays(d) \/ ResetFlags(d) PROVE TypeOK'
  <1>1. CASE Resize(d)
    BY <1>1 DEF Resize, TypeOK, Phases, masterVars, destVars
  <1>2. CASE ZeroArrays(d)
    <2>1. in' \in [Dests -> [Channels -> [Index -> Point]]]
      BY <1>2, ZeroType DEF ZeroArrays, TypeOK
    <2> QED BY <1>2, <2>1 DEF ZeroArrays, TypeOK, Phases, masterVars, destVars
  <1>3. CASE ResetFlags(d)
    BY <1>3 DEF ResetFlags, TypeOK, Phases, masterVars, destVars
  <1> QED BY <1>1, <1>2, <1>3

LEMMA TypeVisit ==
  ASSUME TypeOK, NEW d \in Dests, NEW c \in ChannelsOf(d),
         VisitFlagged(d, c) \/ VisitUnflagged(d, c)
  PROVE  TypeOK'
  <1>1. CASE VisitFlagged(d, c)
    <2>1. Copied(d, c) \in [Points[d] -> Point \cup {Garbage}]
      BY CopiedType
    <2>2. Injected(d, c[2], Copied(d, c)) \in [Points[d] -> Point \cup {Garbage}]
      BY <2>1, InjectedType
    <2>3. /\ DOMAIN out' = Dests
          /\ \A e \in Dests : out'[e] \in [Points[e] -> Point \cup {Garbage}]
      BY <1>1, <2>1 DEF VisitFlagged, TypeOK
    <2>4. /\ DOMAIN db' = Dests
          /\ \A e \in Dests : db'[e] \in [Points[e] -> Point \cup {Garbage}]
      BY <1>1, <2>2 DEF VisitFlagged, TypeOK
    <2>5. DOMAIN builder' = Dests /\ \A e \in Dests : builder'[e] \subseteq Points[e]
      <3>1. \/ builder' = builder
            \/ builder' = [builder EXCEPT ![d] = @ \cup {p \in Points[d] : Channel(p) = c}]
        BY <1>1 DEF VisitFlagged
      <3>2. DOMAIN builder' = Dests
        BY <3>1 DEF TypeOK
      <3>3. ASSUME NEW e \in Dests PROVE builder'[e] \subseteq Points[e]
        <4>1. builder[e] \subseteq Points[e] /\ DOMAIN builder = Dests
          BY DEF TypeOK
        <4>2. \/ builder'[e] = builder[e]
              \/ e = d /\ builder'[e] = builder[d] \cup {p \in Points[d] : Channel(p) = c}
          BY <3>1, <4>1
        <4> QED BY <4>1, <4>2
      <3> QED BY <3>2, <3>3
    <2> QED BY <1>1, <2>3, <2>4, <2>5 DEF VisitFlagged, TypeOK, masterVars
  <1>2. CASE VisitUnflagged(d, c)
    <2>1. Injected(d, Counter, out[d]) \in [Points[d] -> Point \cup {Garbage}]
      BY InjectedType DEF TypeOK
    <2>2. /\ DOMAIN db' = Dests
          /\ \A e \in Dests : db'[e] \in [Points[e] -> Point \cup {Garbage}]
      BY <1>2, <2>1 DEF VisitUnflagged, TypeOK
    <2> QED BY <1>2, <2>2 DEF VisitUnflagged, TypeOK, masterVars
  <1> QED BY <1>1, <1>2

LEMMA TypeLoop ==
  ASSUME TypeOK, NEW d \in Dests,
         BeginPass(d) \/ EndPass(d) \/ GoRound(d) \/ Stop(d)
  PROVE  TypeOK'
  <1>1. CASE BeginPass(d)
    BY <1>1, ChannelsOfType DEF BeginPass, TypeOK, Phases, masterVars
  <1>2. CASE EndPass(d)
    <2>1. /\ DOMAIN db' = Dests
          /\ \A e \in Dests : db'[e] \in [Points[e] -> Point \cup {Garbage}]
      BY <1>2 DEF EndPass, TypeOK
    <2>2. /\ holder' \in [Dests -> Masters \cup {Free, Station}]
          /\ \A e \in Dests : holder'[e] = Station <=> phase'[e] = "pass"
      BY <1>2, HolderAssumption DEF EndPass, TypeOK
    <2> QED BY <1>2, <2>1, <2>2 DEF EndPass, TypeOK, Phases, masterVars
  <1>3. CASE GoRound(d) \/ Stop(d)
    BY <1>3 DEF GoRound, Stop, TypeOK, Phases, masterVars, destVars
  <1> QED BY <1>1, <1>2, <1>3

\* One step of Next is one of the actions the lemmas are about.
LEMMA TypeStep == TypeOK /\ [Next]_vars => TypeOK'
  <1> SUFFICES ASSUME TypeOK, [Next]_vars PROVE TypeOK'
    OBVIOUS
  <1>1. CASE Quit \/ \E m \in Masters : UpdateDestinations(m)
    BY <1>1, TypeMain
  <1>2. CASE \E m \in Masters : Receive(m)
    BY <1>2, TypeReceive
  <1>3. CASE \E m \in Masters, d \in Dests : Callback(m, d)
    BY <1>3, TypeCallback
  <1>4. CASE \E d \in Dests : Run(d) \/ BeginPass(d)
    BY <1>4, TypeStart, TypeVisit, TypeLoop DEF Run
  <1>5. CASE UNCHANGED vars
    BY <1>5 DEF TypeOK, vars, masterVars, destVars
  <1> QED BY <1>1, <1>2, <1>3, <1>4, <1>5 DEF Next

\* The variables keep their types, and the mutex of a destination is its own
\* thread's exactly while a pass is under way.
THEOREM Typing == Spec => []TypeOK
  BY TypeInit, TypeStep, PTL DEF Spec

-------------------------------------------------------------------------------
(* No update is lost *)

Starting(d) == phase[d] \in {"created", "resized", "zeroed"}

\* Before its loop a destination has copied and published nothing.
Untouched ==
    \A d \in Dests : Starting(d) =>
        /\ missed[d] = {}
        /\ \A p \in Points[d] : out[d][p] = Zero

\* Points are collected for the builder by a pass that uses no script only.
Collected ==
    \A d \in Dests : builder[d] # {} => phase[d] = "pass" /\ d \notin Scripted

\* Nobody is at work on the channel of p, and its flag says nothing is due.
AtRest(d, p) ==
    /\ Channel(p) \notin flag[d]
    /\ Channel(p) \notin missed[d]
    /\ \A m \in Masters : ~Serving(m, d, Channel(p))
    /\ HasSlot(d, Channel(p), p.input_index)

\* Then the output point is what the input array has, even in a pass.
Coherent == \A d \in Dests : \A p \in Points[d] : AtRest(d, p) => out[d][p] = Input(d, p)

\* The database shows the output point, unless the builder has yet to be applied.
InStep == \A d \in Dests : \A p \in Points[d] : Shows(d, p, out[d][p]) \/ p \in builder[d]

Inv == TypeOK /\ Untouched /\ Collected /\ Coherent /\ InStep

LEMMA PublishedFromInv == Inv => Published
  <1> SUFFICES ASSUME Inv, NEW d \in Dests, NEW p \in Points[d],
                      Settled(d, Channel(p)), HasSlot(d, Channel(p), p.input_index)
               PROVE  Shows(d, p, Input(d, p))
    BY DEF Published
  <1>1. out[d][p] = Input(d, p)
    BY DEF Inv, Coherent, AtRest, Settled
  <1>2. builder[d] = {}
    BY DEF Inv, Collected, Settled
  <1> QED BY <1>1, <1>2 DEF Inv, InStep

LEMMA InvInit == Init => Inv
  <1> SUFFICES ASSUME Init PROVE Inv
    OBVIOUS
  <1>1. TypeOK
    BY TypeInit
  <1>2. \A d \in Dests : \A p \in Points[d] : out[d][p] = Zero /\ db[d][p] = Zero
    BY DEF Init
  <1>3. \A d \in Dests : \A p \in Points[d] :
            HasSlot(d, Channel(p), p.input_index) => Input(d, p) = Zero
    BY PointType DEF Init, Input, Element
  <1> QED BY <1>1, <1>2, <1>3
        DEF Init, Inv, Untouched, Collected, Coherent, AtRest, InStep, Shows

\* A step that copies, stores and flags nothing keeps the invariant, as long as
\* it ends no callback's work and applies no pass's.
LEMMA InvFrame ==
  ASSUME Inv, TypeOK',
         UNCHANGED <<builder, out, db, in, flag, missed>>,
         \A d \in Dests : Starting(d)' => Starting(d),
         \A d \in Dests : builder[d] # {} => phase'[d] = "pass",
         \A m \in Masters, d \in Dests, c \in Channels : Serving(m, d, c) => Serving(m, d, c)'
  PROVE  Inv'
  <1>1. Untouched'
    BY DEF Inv, Untouched
  <1>2. Collected'
    BY DEF Inv, Collected
  <1>3. Coherent'
    <2> SUFFICES ASSUME NEW d \in Dests, NEW p \in Points[d], AtRest(d, p)'
                 PROVE  (out[d][p] = Input(d, p))'
      BY DEF Coherent
    <2>1. AtRest(d, p)
      BY PointType DEF AtRest
    <2> QED BY <2>1 DEF Inv, Coherent, Input
  <1>4. InStep'
    BY DEF Inv, InStep, Shows
  <1> QED BY <1>1, <1>2, <1>3, <1>4 DEF Inv

LEMMA InvMain ==
  ASSUME Inv, TypeOK', Quit \/ \E m \in Masters : UpdateDestinations(m) PROVE Inv'
  <1>1. UNCHANGED <<builder, out, db, in, flag, missed, phase, holder, kind>>
    BY DEF Quit, UpdateDestinations, masterVars, destVars
  <1> QED BY <1>1, InvFrame DEF Inv, Collected, Starting, Serving, Holds, Current

LEMMA InvReceive ==
  ASSUME Inv, TypeOK', NEW m \in Masters, Receive(m) PROVE Inv'
  <1>1. UNCHANGED <<builder, out, db, in, flag, missed, phase, holder>>
    BY DEF Receive, destVars
  <1>2. \A n \in Masters, d \in Dests, c \in Channels : Serving(n, d, c) => Serving(n, d, c)'
    <2>1. \A n \in Masters \ {m} : kind'[n] = kind[n]
      BY DEF Receive, Inv, TypeOK
    <2>2. \A d \in Dests : ~Holds(m, d)
      BY DEF Receive
    <2> QED BY <1>1, <2>1, <2>2 DEF Serving, Holds, Current
  <1> QED BY <1>1, <1>2, InvFrame DEF Inv, Collected, Starting

LEMMA InvLock ==
  ASSUME Inv, TypeOK', NEW m \in Masters, NEW d \in Dests, LockDest(m, d) PROVE Inv'
  <1>1. UNCHANGED <<builder, out, db, in, flag, missed, phase, kind>>
    BY DEF LockDest, destVars
  <1>2. \A n \in Masters, e \in Dests, c \in Channels : Serving(n, e, c) => Serving(n, e, c)'
    <2>1. holder[d] = Free /\ \A e \in Dests \ {d} : holder'[e] = holder[e]
      BY DEF LockDest, Available, Inv, TypeOK
    <2> QED BY <1>1, <2>1, HolderAssumption DEF Serving, Holds, Current
  <1> QED BY <1>1, <1>2, InvFrame DEF Inv, Collected, Starting

\* An item changes the channel being stored, and that one is not at rest.
LEMMA InvStore ==
  ASSUME Inv, TypeOK', NEW m \in Masters, NEW d \in Dests, StoreItem(m, d) PROVE Inv'
  <1>1. UNCHANGED <<builder, out, db, flag, missed, phase, holder, kind>>
    BY DEF StoreItem, destVars
  <1>2. Untouched' /\ Collected' /\ InStep'
    BY <1>1 DEF Inv, Untouched, Starting, Collected, InStep, Shows
  <1>3. Coherent'
    <2> SUFFICES ASSUME NEW e \in Dests, NEW p \in Points[e], AtRest(e, p)'
                 PROVE  (out[e][p] = Input(e, p))'
      BY DEF Coherent
    <2>1. AtRest(e, p)
      BY <1>1 DEF AtRest, Serving, Holds, Current
    <2>2. ~(e = d /\ Channel(p) = Current(m))
      BY <2>1 DEF AtRest, Serving, StoreItem
    <2>3. in'[e][Channel(p)] = in[e][Channel(p)]
      BY <2>2, PointType DEF StoreItem, Inv, TypeOK
    <2> QED BY <1>1, <2>1, <2>3 DEF Inv, Coherent, Input
  <1> QED BY <1>2, <1>3 DEF Inv

\* The channel that leaves the callback's hands is flagged from then on.
LEMMA InvRaise ==
  ASSUME Inv, TypeOK', NEW m \in Masters, NEW d \in Dests, RaiseFlag(m, d) PROVE Inv'
  <1>1. UNCHANGED <<builder, out, db, in, phase, kind>>
    BY DEF RaiseFlag, destVars
  <1>2. \A e \in Dests : flag[e] \subseteq flag'[e] /\ missed'[e] \subseteq missed[e]
    BY DEF RaiseFlag, Inv, TypeOK
  <1>3. Untouched' /\ Collected' /\ InStep'
    BY <1>1, <1>2 DEF Inv, Untouched, Starting, Collected, InStep, Shows
  <1>4. Coherent'
    <2> SUFFICES ASSUME NEW e \in Dests, NEW p \in Points[e], AtRest(e, p)'
                 PROVE  (out[e][p] = Input(e, p))'
      BY DEF Coherent
    <2>1. ~(e = d /\ Channel(p) = Current(m))
      BY DEF AtRest, RaiseFlag, Inv, TypeOK
    <2>2. Channel(p) \notin flag[e] /\ Channel(p) \notin missed[e]
      BY <2>1, <1>2 DEF AtRest, RaiseFlag, Inv, TypeOK
    <2>3. \A n \in Masters : ~Serving(n, e, Channel(p))
      <3> SUFFICES ASSUME NEW n \in Masters, Serving(n, e, Channel(p)) PROVE FALSE
        OBVIOUS
      <3>1. n # m \/ e # d
        BY <2>1 DEF Serving
      <3>2. holder'[e] = holder[e]
        BY <3>1 DEF RaiseFlag, Serving, Holds, Inv, TypeOK
      <3> QED BY <1>1, <3>2 DEF AtRest, Serving, Holds, Current
    <2>4. AtRest(e, p)
      BY <2>2, <2>3 DEF AtRest
    <2> QED BY <1>1, <2>4 DEF Inv, Coherent, Input
  <1> QED BY <1>3, <1>4 DEF Inv

LEMMA InvResize ==
  ASSUME Inv, TypeOK', NEW d \in Dests, Resize(d) PROVE Inv'
  <1>1. UNCHANGED <<builder, out, db, in, flag, missed, holder, kind>>
    BY DEF Resize, masterVars, destVars
  <1>2. /\ \A e \in Dests : Starting(e)' => Starting(e)
        /\ \A e \in Dests : builder[e] # {} => phase'[e] = "pass"
    BY DEF Resize, Starting, Inv, TypeOK, Collected
  <1> QED BY <1>1, <1>2, InvFrame DEF Serving, Holds, Current

\* What is zeroed has not been copied yet, so its output point is zero too.
LEMMA InvZero ==
  ASSUME Inv, TypeOK', NEW d \in Dests, ZeroArrays(d) PROVE Inv'
  <1>1. UNCHANGED <<builder, out, db, flag, missed, holder, kind>>
    BY DEF ZeroArrays, masterVars, destVars
  <1>2. Starting(d) /\ builder[d] = {}
    BY DEF ZeroArrays, Starting, Inv, Collected
  <1>3. Untouched' /\ Collected' /\ InStep'
    BY <1>1, <1>2 DEF ZeroArrays, Inv, TypeOK, Untouched, Starting, Collected, InStep, Shows
  <1>4. Coherent'
    <2> SUFFICES ASSUME NEW e \in Dests, NEW p \in Points[e], AtRest(e, p)'
                 PROVE  (out[e][p] = Input(e, p))'
      BY DEF Coherent
    <2>1. AtRest(e, p)
      BY <1>1 DEF AtRest, Serving, Holds, Current
    <2>2. CASE in'[e][Channel(p)] = in[e][Channel(p)]
      BY <1>1, <2>1, <2>2 DEF Inv, Coherent, Input
    <2>3. CASE e = d /\ in'[e][Channel(p)] = [i \in Index |-> Zero]
      <3>1. out[e][p] = Zero
        BY <1>2, <2>3 DEF Inv, Untouched
      <3> QED BY <1>1, <2>1, <2>3, <3>1, PointType DEF AtRest, Input, Element
    <2> QED BY <2>2, <2>3, PointType DEF ZeroArrays, Inv, TypeOK
  <1> QED BY <1>3, <1>4 DEF Inv

LEMMA InvReset ==
  ASSUME Inv, TypeOK', NEW d \in Dests, ResetFlags(d) PROVE Inv'
  <1>1. UNCHANGED <<builder, out, db, in, holder, kind>>
    BY DEF ResetFlags, masterVars, destVars
  <1>2. Starting(d) /\ builder[d] = {}
    BY DEF ResetFlags, Starting, Inv, Collected
  <1>3. Untouched' /\ Collected' /\ InStep'
    BY <1>1, <1>2 DEF ResetFlags, Inv, TypeOK, Untouched, Starting, Collected, InStep, Shows
  <1>4. Coherent'
    <2> SUFFICES ASSUME NEW e \in Dests, NEW p \in Points[e], AtRest(e, p)'
                 PROVE  (out[e][p] = Input(e, p))'
      BY DEF Coherent
    <2>1. Channel(p) \notin flag[e] /\ Channel(p) \notin missed[e]
      BY <1>2, PointType DEF AtRest, ResetFlags, Inv, TypeOK, Untouched
    <2>2. AtRest(e, p)
      BY <1>1, <2>1 DEF AtRest, Serving, Holds, Current
    <2> QED BY <1>1, <2>2 DEF Inv, Coherent, Input
  <1> QED BY <1>3, <1>4 DEF Inv

LEMMA InvBegin ==
  ASSUME Inv, TypeOK', NEW d \in Dests, BeginPass(d) PROVE Inv'
  <1>1. UNCHANGED <<builder, out, db, in, flag, missed, kind>>
    BY DEF BeginPass, masterVars
  <1>2. \A m \in Masters, e \in Dests, c \in Channels : Serving(m, e, c) => Serving(m, e, c)'
    <2>1. holder[d] = Free /\ \A e \in Dests \ {d} : holder'[e] = holder[e]
      BY DEF BeginPass, Inv, TypeOK
    <2> QED BY <1>1, <2>1, HolderAssumption DEF Serving, Holds, Current
  <1>3. /\ \A e \in Dests : Starting(e)' => Starting(e)
        /\ \A e \in Dests : builder[e] # {} => phase'[e] = "pass"
    BY DEF BeginPass, Starting, Inv, TypeOK, Collected
  <1> QED BY <1>1, <1>2, <1>3, InvFrame

LEMMA InvIdle ==
  ASSUME Inv, TypeOK', NEW d \in Dests, GoRound(d) \/ Stop(d) PROVE Inv'
  <1>1. UNCHANGED <<builder, out, db, in, flag, missed, holder, kind>>
    BY DEF GoRound, Stop, masterVars, destVars
  <1>2. /\ \A e \in Dests : Starting(e)' => Starting(e)
        /\ \A e \in Dests : builder[e] # {} => phase'[e] = "pass"
    BY DEF GoRound, Stop, Starting, Inv, TypeOK, Collected
  <1> QED BY <1>1, <1>2, InvFrame DEF Serving, Holds, Current

\* A visit copies the channel whose flag it takes down.
LEMMA InvVisitFlagged ==
  ASSUME Inv, TypeOK', NEW d \in Dests, NEW c \in ChannelsOf(d), VisitFlagged(d, c) PROVE Inv'
  <1>1. UNCHANGED <<in, missed, holder, kind, phase>> /\ phase[d] = "pass"
    BY DEF VisitFlagged, Turn, masterVars
  <1>2. /\ out'[d] = Copied(d, c)
        /\ \A e \in Dests \ {d} : /\ out'[e] = out[e] /\ db'[e] = db[e]
                                  /\ builder'[e] = builder[e] /\ flag'[e] = flag[e]
        /\ flag'[d] = flag[d] \ {c}
    <2>1. \A e \in Dests \ {d} : db'[e] = db[e] /\ builder'[e] = builder[e]
      BY DEF VisitFlagged, Inv, TypeOK
    <2> QED BY <2>1 DEF VisitFlagged, Inv, TypeOK
  <1>3. Untouched'
    BY <1>1, <1>2 DEF Inv, Untouched, Starting
  <1>4. Collected'
    <2>1. builder'[d] # {} => d \notin Scripted
      BY DEF VisitFlagged, Inv, TypeOK, Collected
    <2> QED BY <1>1, <1>2, <2>1 DEF Inv, Collected
  <1>5. Coherent'
    <2> SUFFICES ASSUME NEW e \in Dests, NEW p \in Points[e], AtRest(e, p)'
                 PROVE  (out[e][p] = Input(e, p))'
      BY DEF Coherent
    <2>1. Input(e, p)' = Input(e, p)
      BY <1>1 DEF Input
    <2>2. CASE e = d /\ Channel(p) = c
      BY <1>2, <2>1, <2>2 DEF Copied
    <2>3. CASE ~(e = d /\ Channel(p) = c)
      <3>1. out'[e][p] = out[e][p]
        BY <1>2, <2>3 DEF Copied
      <3>2. AtRest(e, p)
        BY <1>1, <1>2, <2>3 DEF AtRest, Serving, Holds, Current
      <3> QED BY <2>1, <3>1, <3>2 DEF Inv, Coherent
    <2> QED BY <2>2, <2>3
  <1>6. InStep'
    <2> SUFFICES ASSUME NEW e \in Dests, NEW p \in Points[e]
                 PROVE  (Shows(e, p, out[e][p]) \/ p \in builder[e])'
      BY DEF InStep
    <2>1. CASE e # d
      BY <1>2, <2>1 DEF Inv, InStep, Shows
    <2>2. CASE e = d /\ d \in Scripted
      <3>1. /\ db'[d] = Injected(d, c[2], Copied(d, c))
            /\ builder' = builder
        BY <2>2 DEF VisitFlagged, Inv, TypeOK
      <3>2. CASE p.kind = c[2]
        BY <1>2, <2>2, <3>1, <3>2 DEF Injected, Shows
      <3>3. CASE p.kind # c[2]
        <4>1. Channel(p) # c
          BY <3>3 DEF Channel
        <4>2. db'[d][p] = db[d][p] /\ out'[d][p] = out[d][p]
          BY <1>2, <2>2, <3>1, <3>3, <4>1 DEF Injected, Copied
        <4> QED BY <2>2, <3>1, <4>2 DEF Inv, InStep, Shows
      <3> QED BY <3>2, <3>3
    <2>3. CASE e = d /\ d \notin Scripted
      <3>1. /\ db' = db
            /\ builder'[d] = builder[d] \cup {q \in Points[d] : Channel(q) = c}
        BY <2>3 DEF VisitFlagged, Inv, TypeOK
      <3>2. Channel(p) # c => out'[d][p] = out[d][p]
        BY <1>2, <2>3 DEF Copied
      <3> QED BY <2>3, <3>1, <3>2 DEF Inv, InStep, Shows
    <2> QED BY <2>1, <2>2, <2>3
  <1> QED BY <1>3, <1>4, <1>5, <1>6 DEF Inv

LEMMA InvVisitUnflagged ==
  ASSUME Inv, TypeOK', NEW d \in Dests, NEW c \in ChannelsOf(d), VisitUnflagged(d, c) PROVE Inv'
  <1>1. UNCHANGED <<builder, out, in, flag, missed, holder, kind, phase>>
    BY DEF VisitUnflagged, masterVars
  <1>2. Untouched' /\ Collected'
    BY <1>1 DEF Inv, Untouched, Starting, Collected
  <1>3. Coherent'
    BY <1>1 DEF Inv, Coherent, AtRest, Input, Serving, Holds, Current
  <1>4. InStep'
    <2> SUFFICES ASSUME NEW e \in Dests, NEW p \in Points[e]
                 PROVE  (Shows(e, p, out[e][p]) \/ p \in builder[e])'
      BY DEF InStep
    <2>1. db'[e][p] = db[e][p] \/ db'[e][p] = View(e, out[e][p])
      BY DEF VisitUnflagged, Injected, Inv, TypeOK
    <2> QED BY <1>1, <2>1 DEF Inv, InStep, Shows
  <1> QED BY <1>2, <1>3, <1>4 DEF Inv

LEMMA InvEnd ==
  ASSUME Inv, TypeOK', NEW d \in Dests, EndPass(d) PROVE Inv'
  <1>1. UNCHANGED <<out, in, flag, missed, kind>>
    BY DEF EndPass, masterVars
  <1>2. \A m \in Masters, e \in Dests, c \in Channels : Serving(m, e, c) => Serving(m, e, c)'
    <2>1. holder[d] = Station /\ \A e \in Dests \ {d} : holder'[e] = holder[e]
      BY DEF EndPass, Inv, TypeOK
    <2> QED BY <1>1, <2>1, HolderAssumption DEF Serving, Holds, Current
  <1>3. /\ phase'[d] = "idle" /\ builder'[d] = {}
        /\ \A e \in Dests \ {d} : /\ phase'[e] = phase[e] /\ builder'[e] = builder[e]
                                  /\ db'[e] = db[e]
    BY DEF EndPass, Inv, TypeOK
  <1>4. Untouched' /\ Collected'
    BY <1>1, <1>3 DEF Inv, Untouched, Starting, Collected
  <1>5. Coherent'
    <2> SUFFICES ASSUME NEW e \in Dests, NEW p \in Points[e], AtRest(e, p)'
                 PROVE  (out[e][p] = Input(e, p))'
      BY DEF Coherent
    <2>1. AtRest(e, p)
      BY <1>1, <1>2, PointType DEF AtRest
    <2> QED BY <1>1, <2>1 DEF Inv, Coherent, Input
  <1>6. InStep'
    <2> SUFFICES ASSUME NEW e \in Dests, NEW p \in Points[e]
                 PROVE  (Shows(e, p, out[e][p]) \/ p \in builder[e])'
      BY DEF InStep
    <2>1. CASE e # d
      <3>1. Shows(e, p, out[e][p]) \/ p \in builder[e]
        BY DEF Inv, InStep
      <3> QED BY <1>1, <1>3, <2>1, <3>1 DEF Shows
    <2>2. CASE e = d /\ p \in builder[d]
      <3>1. db'[d][p] = out[d][p] /\ d \notin Scripted
        BY <2>2 DEF EndPass, Inv, TypeOK, Collected
      <3> QED BY <1>1, <2>2, <3>1 DEF Shows, View
    <2>3. CASE e = d /\ p \notin builder[d]
      <3>1. db'[d][p] = db[d][p]
        BY <2>3 DEF EndPass, Inv, TypeOK
      <3> QED BY <1>1, <2>3, <3>1 DEF Inv, InStep, Shows
    <2> QED BY <2>1, <2>2, <2>3
  <1> QED BY <1>4, <1>5, <1>6 DEF Inv

LEMMA InvStep == Inv /\ [Next]_vars => Inv'
  <1> SUFFICES ASSUME Inv, [Next]_vars PROVE Inv'
    OBVIOUS
  <1>1. TypeOK'
    BY TypeStep DEF Inv
  <1>2. CASE Quit \/ \E m \in Masters : UpdateDestinations(m)
    BY <1>1, <1>2, InvMain
  <1>3. CASE \E m \in Masters : Receive(m)
    BY <1>1, <1>3, InvReceive
  <1>4. CASE \E m \in Masters, d \in Dests : Callback(m, d)
    BY <1>1, <1>4, InvLock, InvStore, InvRaise DEF Callback
  <1>5. CASE \E d \in Dests : Run(d) \/ BeginPass(d)
    BY <1>1, <1>5, InvResize, InvZero, InvReset, InvBegin, InvEnd, InvIdle,
       InvVisitFlagged, InvVisitUnflagged DEF Run
  <1>6. CASE UNCHANGED vars
    <2>1. UNCHANGED <<builder, out, db, in, flag, missed, holder, kind, phase>>
      BY <1>6 DEF vars, masterVars, destVars
    <2> QED BY <1>1, <2>1, InvFrame DEF Inv, Collected, Starting, Serving, Holds, Current
  <1> QED BY <1>2, <1>3, <1>4, <1>5, <1>6 DEF Next

\* Every value that an input array holds, of a channel that nobody is storing or
\* copying and whose flag is down, is in the DNP3 database at its output index.
THEOREM NoLostUpdate == Spec => []Published
  <1>1. Spec => []Inv
    BY InvInit, InvStep, PTL DEF Spec
  <1> QED BY <1>1, PublishedFromInv, PTL

-------------------------------------------------------------------------------
(* Nothing but what was sent *)

\* Every mapped point has its InputIndex inside the array that its Index sizes.
InputsFit == \A d \in Dests : \A p \in Points[d] : HasSlot(d, Channel(p), p.input_index)

Clean == \A d \in Dests : \A p \in Points[d] : out[d][p] \in Point /\ db[d][p] \in Point

LEMMA CleanVisit ==
  ASSUME InputsFit, TypeOK, TypeOK', Clean, NEW d \in Dests, NEW c \in ChannelsOf(d),
         VisitFlagged(d, c) \/ VisitUnflagged(d, c)
  PROVE  Clean'
  <1> SUFFICES ASSUME NEW e \in Dests, NEW p \in Points[e]
               PROVE  out'[e][p] \in Point /\ db'[e][p] \in Point
    BY DEF Clean
  <1>1. out'[e][p] \in {out[e][p], Input(e, p)}
    <2>1. out' = out \/ out' = [out EXCEPT ![d] = Copied(d, c)]
      BY DEF VisitFlagged, VisitUnflagged
    <2>2. CASE out' = [out EXCEPT ![d] = Copied(d, c)]
      <3>1. CASE e = d
        <4>1. out'[e] = Copied(d, c)
          BY <2>2, <3>1 DEF TypeOK
        <4> QED BY <3>1, <4>1 DEF Copied
      <3>2. CASE e # d
        BY <2>2, <3>2 DEF TypeOK
      <3> QED BY <3>1, <3>2
    <2> QED BY <2>1, <2>2
  <1>2. Input(e, p) \in Point
    BY InputType DEF InputsFit
  <1>3. out[e][p] \in Point /\ db[e][p] \in Point
    BY DEF Clean
  <1>4. db'[e][p] \in {db[e][p], View(e, out'[e][p])}
    <2>1. CASE VisitFlagged(d, c)
      <3>1. out'[d] = Copied(d, c)
        BY <2>1 DEF VisitFlagged, TypeOK
      <3>2. db' = db \/ db' = [db EXCEPT ![d] = Injected(d, c[2], Copied(d, c))]
        BY <2>1 DEF VisitFlagged
      <3> QED BY <3>1, <3>2 DEF Injected, TypeOK
    <2>2. CASE VisitUnflagged(d, c)
      BY <2>2 DEF VisitUnflagged, Injected, TypeOK
    <2> QED BY <2>1, <2>2
  <1> QED BY <1>1, <1>2, <1>3, <1>4, ViewType

LEMMA CleanStep == InputsFit /\ TypeOK /\ TypeOK' /\ Clean /\ [Next]_vars => Clean'
  <1> SUFFICES ASSUME InputsFit, TypeOK, TypeOK', Clean, [Next]_vars PROVE Clean'
    OBVIOUS
  <1>1. CASE UNCHANGED <<out, db>>
    BY <1>1 DEF Clean
  <1>2. CASE \E d \in Dests : EndPass(d)
    <2>1. PICK d \in Dests : EndPass(d)
      BY <1>2
    <2>2. \A e \in Dests : \A p \in Points[e] :
              out'[e][p] = out[e][p] /\ db'[e][p] \in {db[e][p], out[e][p]}
      BY <2>1 DEF EndPass, TypeOK
    <2> QED BY <2>2 DEF Clean
  <1>3. CASE \E d \in Dests : \E c \in ChannelsOf(d) : VisitFlagged(d, c) \/ VisitUnflagged(d, c)
    BY <1>3, CleanVisit
  <1>4. \/ UNCHANGED <<out, db>>
        \/ \E d \in Dests : EndPass(d)
        \/ \E d \in Dests : \E c \in ChannelsOf(d) : VisitFlagged(d, c) \/ VisitUnflagged(d, c)
    BY DEF Next, vars, Quit, UpdateDestinations, Receive, Callback, LockDest, StoreItem,
           RaiseFlag, Run, Resize, ZeroArrays, ResetFlags, GoRound, BeginPass,
           Stop, destVars
  <1> QED BY <1>1, <1>2, <1>3, <1>4

\* With such a mapping nothing from behind an array reaches the DNP3 database.
THEOREM CleanDatabase == InputsFit => (Spec => []NoGarbage)
  <1> SUFFICES ASSUME InputsFit PROVE Spec => []NoGarbage
    OBVIOUS
  <1>1. Init => Clean
    BY ZeroType DEF Init, Clean
  <1>2. Clean => NoGarbage
    BY GarbageAssumption DEF Clean, NoGarbage
  <1>3. TypeOK /\ TypeOK' /\ Clean /\ [Next]_vars => Clean'
    BY CleanStep
  <1> QED BY <1>1, <1>2, <1>3, Typing, PTL DEF Spec

-------------------------------------------------------------------------------
(* What storing a response item by item comes to *)

Fold(d, c, array, items) == FoldLeft(LAMBDA a, it : Stored(d, c, a, it), array, items)

\* f[i]: the array once the first i items are in it.
Stages(f, d, c, array, items) ==
    /\ f[0] = array
    /\ f[Len(items)] = Fold(d, c, array, items)
    /\ \A i \in 1..Len(items) : f[i] = Stored(d, c, f[i - 1], items[i])

\* The fold over a response stores its items one after the other.
LEMMA FoldOfStored ==
  ASSUME NEW d, NEW c, NEW array \in [Index -> Point], NEW items \in Seq(Item)
  PROVE  \E f : Stages(f, d, c, array, items)
  <1> DEFINE S == [Index -> Point]
             n == Len(items)
             G == [i \in 1..n |-> [v \in S |-> Stored(d, c, v, items[i])]]
             Fits(h) == h = [s \in SUBSET (1..n) |->
                 IF s = {} THEN array ELSE Stored(d, c, h[s \ {Max(s)}], items[Max(s)])]
             h == CHOOSE h : Fits(h)
  <1>1. n \in Nat /\ DOMAIN items = 1..n /\ \A i \in 1..n : items[i] \in Item
    OBVIOUS
  <1>2. \E g : Fits(g)
    <2>1. G \in [1..n -> [S -> S]]
      BY <1>1, StoredType
    <2>2. \A i \in 1..n, v \in S : G[i][v] = Stored(d, c, v, items[i])
      OBVIOUS
    <2> HIDE DEF G, S
    <2>3. array \in S
      BY DEF S
    <2>4. PICK g \in [SUBSET (1..n) -> S] : Solves(g, n, array, G)
      BY <1>1, <2>1, <2>3, FoldExists DEF Solvable
    <2>5. ASSUME NEW s \in SUBSET (1..n), s # {}
          PROVE  g[s] = Stored(d, c, g[s \ {Max(s)}], items[Max(s)])
      <3>1. Max(s) \in 1..n /\ s \ {Max(s)} \in SUBSET (1..n)
        BY <1>1, <2>5, MaxIn
      <3>2. g[s] = G[Max(s)][g[s \ {Max(s)}]]
        BY <2>4, <2>5 DEF Solves
      <3> QED BY <2>2, <3>1, <3>2
    <2>6. g[{}] = array
      BY <2>4 DEF Solves
    <2>7. Fits(g)
      BY <2>5, <2>6
    <2> QED BY <2>7
  <1>3. Fits(h)
    BY <1>2
  <1>4. Fold(d, c, array, items) = h[1..n]
    BY <1>1 DEF Fold, FoldLeft, MapThenFoldSet
  <1> HIDE DEF h
  <1>5. ASSUME NEW i \in 1..n PROVE h[1..i] = Stored(d, c, h[1..(i - 1)], items[i])
    <2>1. 1..i # {} /\ (1..i) \ {i} = 1..(i - 1) /\ i \in 1..i /\ 1..i \in SUBSET (1..n)
      OBVIOUS
    <2>2. Max(1..i) = i
      BY <2>1, MaxIs
    <2> QED BY <1>3, <2>1, <2>2
  <1>6. h[1..0] = array
    <2>1. 1..0 = {}
      OBVIOUS
    <2> QED BY <1>3, <2>1
  <1> DEFINE f == [i \in 0..n |-> h[1..i]]
  <1>7. f[0] = h[1..0] /\ f[n] = h[1..n]
    BY <1>1
  <1>8. \A i \in 1..n : f[i] = h[1..i] /\ f[i - 1] = h[1..(i - 1)]
    BY <1>1
  <1> HIDE DEF f
  <1>9. Stages(f, d, c, array, items)
    BY <1>4, <1>5, <1>6, <1>7, <1>8 DEF Stages
  <1> QED BY <1>9

LEMMA FoldNone ==
  ASSUME NEW d, NEW c, NEW array \in [Index -> Point]
  PROVE  Fold(d, c, array, <<>>) = array
  <1>1. <<>> \in Seq(Item) /\ Len(<<>>) = 0
    OBVIOUS
  <1>2. PICK f : Stages(f, d, c, array, <<>>)
    BY <1>1, FoldOfStored
  <1> QED BY <1>1, <1>2 DEF Stages

\* Storing an item before the rest of a response.
LEMMA FoldFirst ==
  ASSUME NEW d, NEW c, NEW array \in [Index -> Point], NEW items \in Seq(Item),
         NEW n \in 1..Len(items)
  PROVE  Fold(d, c, array, SubSeq(items, n, Len(items)))
           = Fold(d, c, Stored(d, c, array, items[n]), SubSeq(items, n + 1, Len(items)))
  <1> DEFINE all == SubSeq(items, n, Len(items))
             rest == SubSeq(items, n + 1, Len(items))
             r == Len(items) - n
  <1>1. /\ r \in Nat /\ Len(all) = r + 1 /\ Len(rest) = r
        /\ all \in Seq(Item) /\ rest \in Seq(Item)
        /\ all[1] = items[n] /\ items[n] \in Item
        /\ \A i \in 1..r : rest[i] = all[i + 1]
    OBVIOUS
  <1> HIDE DEF all, rest, r
  <1>2. PICK f : Stages(f, d, c, array, all)
    BY <1>1, FoldOfStored
  <1>3. Stored(d, c, array, items[n]) \in [Index -> Point]
    BY <1>1, StoredType
  <1>4. PICK g : Stages(g, d, c, Stored(d, c, array, items[n]), rest)
    BY <1>1, <1>3, FoldOfStored
  <1> DEFINE K == {k \in Nat : k <= r => g[k] = f[k + 1]}
  <1>5. 0 \in K
    <2>1. 1 \in 1..(r + 1) /\ 1 - 1 = 0 /\ 0 + 1 = 1
      BY <1>1
    <2>2. f[1] = Stored(d, c, array, items[n])
      BY <1>1, <1>2, <2>1 DEF Stages
    <2> QED BY <1>4, <2>1, <2>2 DEF Stages
  <1>6. ASSUME NEW k \in Nat, k \in K PROVE k + 1 \in K
    <2> SUFFICES ASSUME k + 1 <= r PROVE g[k + 1] = f[(k + 1) + 1]
      OBVIOUS
    <2>1. k <= r /\ k + 1 \in 1..r /\ (k + 1) + 1 \in 1..(r + 1)
          /\ (k + 1) - 1 = k /\ ((k + 1) + 1) - 1 = k + 1
      BY <1>1
    <2>2. g[k] = f[k + 1]
      BY <1>6, <2>1
    <2>3. g[k + 1] = Stored(d, c, g[k], rest[k + 1])
      BY <1>1, <1>4, <2>1 DEF Stages
    <2>4. f[(k + 1) + 1] = Stored(d, c, f[k + 1], all[(k + 1) + 1])
      BY <1>1, <1>2, <2>1 DEF Stages
    <2> QED BY <1>1, <2>1, <2>2, <2>3, <2>4
  <1> HIDE DEF K
  <1>7. r \in K
    BY <1>1, <1>5, <1>6, NatInduct
  <1>8. g[r] = f[r + 1]
    BY <1>1, <1>7 DEF K
  <1> QED BY <1>1, <1>2, <1>4, <1>8 DEF Stages, all, rest

-------------------------------------------------------------------------------
(* Whose turn it is *)

\* Who holds a mutex holds one only and is at work on a response; who holds none
\* will begin with the first item.
InTurn ==
    \A m \in Masters :
        /\ (todo[m] # {} \/ \E d \in Dests : Holds(m, d)) => batch[m] \in Batches
        /\ (\A d \in Dests : ~Holds(m, d)) => next[m] = 1
        /\ \A d, e \in Dests : Holds(m, d) /\ Holds(m, e) => d = e

LEMMA InTurnInit == Init => InTurn
  <1>1. \A m \in Masters : m # Free
    BY HolderAssumption
  <1> QED BY <1>1 DEF Init, InTurn, Holds

LEMMA InTurnCallback ==
  ASSUME TypeOK, InTurn, NEW m \in Masters, NEW d \in Dests, Callback(m, d)
  PROVE  InTurn'
  <1> SUFFICES ASSUME NEW n \in Masters
               PROVE  /\ (todo'[n] # {} \/ \E e \in Dests : Holds(n, e)') => batch'[n] \in Batches
                      /\ (\A e \in Dests : ~Holds(n, e)') => next'[n] = 1
                      /\ \A a, e \in Dests : Holds(n, a)' /\ Holds(n, e)' => a = e
    BY DEF InTurn
  <1>0. m # Free
    BY HolderAssumption
  <1>1. CASE LockDest(m, d)
    <2>1. \A e \in Dests : Holds(n, e)' <=> IF e = d THEN n = m ELSE Holds(n, e)
      BY <1>1 DEF LockDest, Holds, TypeOK
    <2>2. /\ todo[m] # {} /\ \A e \in Dests : ~Holds(m, e)
          /\ todo'[n] \subseteq todo[n] /\ UNCHANGED <<batch, next>>
          /\ ~Holds(n, d)
      BY <1>1, HolderAssumption DEF LockDest, Available, Holds, TypeOK
    <2>3. CASE n = m
      BY <2>1, <2>2, <2>3 DEF InTurn
    <2>4. CASE n # m
      BY <2>1, <2>2, <2>4 DEF InTurn
    <2> QED BY <2>3, <2>4
  <1>2. CASE StoreItem(m, d)
    <2>1. /\ UNCHANGED <<batch, todo>> /\ \A e \in Dests : Holds(n, e)' <=> Holds(n, e)
          /\ Holds(m, d) /\ (n # m => next'[n] = next[n])
      BY <1>2 DEF StoreItem, Holds, TypeOK
    <2> QED BY <2>1 DEF InTurn
  <1>3. CASE RaiseFlag(m, d)
    <2>1. Holds(m, d) /\ UNCHANGED todo
      BY <1>3 DEF RaiseFlag
    <2>2. \A e \in Dests : Holds(n, e)' <=> (Holds(n, e) /\ e # d)
      BY <1>3, HolderAssumption DEF RaiseFlag, Holds, TypeOK
    <2>3. next'[n] = IF n = m THEN 1 ELSE next[n]
      BY <1>3 DEF RaiseFlag, TypeOK
    <2>4. n # m \/ todo[m] # {} => batch'[n] = batch[n]
      BY <1>3 DEF RaiseFlag, TypeOK
    <2>5. CASE n = m
      <3>1. \A e \in Dests : ~Holds(n, e)'
        BY <2>1, <2>2, <2>5 DEF InTurn
      <3> QED BY <2>1, <2>3, <2>4, <2>5, <3>1 DEF InTurn
    <2>6. CASE n # m
      <3>1. n # m => ~Holds(n, d)
        BY <2>1 DEF Holds
      <3> QED BY <2>1, <2>2, <2>3, <2>4, <2>6, <3>1 DEF InTurn
    <2> QED BY <2>5, <2>6
  <1> QED BY <1>1, <1>2, <1>3 DEF Callback

LEMMA InTurnReceive ==
  ASSUME TypeOK, InTurn, NEW m \in Masters, Receive(m) PROVE InTurn'
  <1>1. PICK b \in Batches : batch' = [batch EXCEPT ![m] = b]
    BY DEF Receive
  <1>2. /\ UNCHANGED <<next, holder>>
        /\ \A n \in Masters : n # m => todo'[n] = todo[n] /\ batch'[n] = batch[n]
        /\ batch'[m] = b
    BY <1>1 DEF Receive, TypeOK
  <1> QED BY <1>2 DEF InTurn, Holds

\* The thread of a destination takes its mutex for itself and gives it back.
LEMMA InTurnOther ==
  ASSUME InTurn, UNCHANGED <<batch, todo, next>>,
         \A m \in Masters, d \in Dests : Holds(m, d)' <=> Holds(m, d)
  PROVE  InTurn'
  BY DEF InTurn

LEMMA HoldsOther ==
  ASSUME TypeOK,
         \/ UNCHANGED holder
         \/ \E d \in Dests : BeginPass(d) \/ EndPass(d)
  PROVE  \A m \in Masters, d \in Dests : Holds(m, d)' <=> Holds(m, d)
  <1> SUFFICES ASSUME NEW m \in Masters, NEW e \in Dests PROVE Holds(m, e)' <=> Holds(m, e)
    OBVIOUS
  <1>1. CASE UNCHANGED holder
    BY <1>1 DEF Holds
  <1>2. CASE \E d \in Dests : BeginPass(d) \/ EndPass(d)
    <2>1. PICK d \in Dests : BeginPass(d) \/ EndPass(d)
      BY <1>2
    <2>2. holder[d] \in {Free, Station} /\ holder'[d] \in {Free, Station}
          /\ (e # d => holder'[e] = holder[e])
      BY <2>1 DEF BeginPass, EndPass, TypeOK
    <2> QED BY <2>2, HolderAssumption DEF Holds
  <1> QED BY <1>1, <1>2

LEMMA InTurnStep == TypeOK /\ InTurn /\ [Next]_vars => InTurn'
  <1> SUFFICES ASSUME TypeOK, InTurn, [Next]_vars PROVE InTurn'
    OBVIOUS
  <1>1. CASE \E m \in Masters : Receive(m)
    BY <1>1, InTurnReceive
  <1>2. CASE \E m \in Masters, d \in Dests : Callback(m, d)
    BY <1>2, InTurnCallback
  <1>3. CASE /\ UNCHANGED <<batch, todo, next>>
             /\ UNCHANGED holder \/ \E d \in Dests : BeginPass(d) \/ EndPass(d)
    BY <1>3, InTurnOther, HoldsOther
  <1>4. \/ \E m \in Masters : Receive(m)
        \/ \E m \in Masters, d \in Dests : Callback(m, d)
        \/ /\ UNCHANGED <<batch, todo, next>>
           /\ UNCHANGED holder \/ \E d \in Dests : BeginPass(d) \/ EndPass(d)
    BY DEF Next, vars, masterVars, Quit, UpdateDestinations, Run, Resize, ZeroArrays,
           ResetFlags, GoRound, BeginPass, EndPass, Stop, VisitFlagged, VisitUnflagged
  <1> QED BY <1>1, <1>2, <1>3, <1>4

-------------------------------------------------------------------------------
(* The promise of PointMirror *)

\* What has arrived of channel c at d: its array once the callback at work on it
\* is through.
Arrived(d, c) == Fold(d, c, in[d][c], Unsent(d, c))

Owed(d, c) == c \in flag[d] \/ \E m \in Masters : Serving(m, d, c)

LEMMA Mapping ==
  /\ Latest = [d \in Dests |-> [c \in Channels |-> Arrived(d, c)]]
  /\ TypeOK => Due = [d \in Dests |-> {c \in Channels : Owed(d, c)}]
  /\ Up = [d \in Dests |-> ~Starting(d)]
  <1>1. Latest = [d \in Dests |-> [c \in Channels |-> Arrived(d, c)]]
    BY DEF Latest, Arrived, Fold
  <1>2. TypeOK => Due = [d \in Dests |-> {c \in Channels : Owed(d, c)}]
    BY DEF Due, Owed, TypeOK
  <1>3. Up = [d \in Dests |-> ~Starting(d)]
    BY DEF Up, Starting
  <1> QED BY <1>1, <1>2, <1>3

LEMMA MappingPrime ==
  /\ Latest' = [d \in Dests |-> [c \in Channels |-> Arrived(d, c)']]
  /\ TypeOK' => Due' = [d \in Dests |-> {c \in Channels : Owed(d, c)'}]
  /\ Up' = [d \in Dests |-> ~Starting(d)']
  <1>1. Latest' = [d \in Dests |-> [c \in Channels |-> Arrived(d, c)']]
    BY DEF Latest, Arrived, Fold
  <1>2. TypeOK' => Due' = [d \in Dests |-> {c \in Channels : Owed(d, c)'}]
    BY DEF Due, Owed, TypeOK
  <1>3. Up' = [d \in Dests |-> ~Starting(d)']
    BY DEF Up, Starting
  <1> QED BY <1>1, <1>2, <1>3

\* Nothing that the promise is about changes in channel c of d.
Quiet(d, c) == Arrived(d, c)' = Arrived(d, c) /\ (Owed(d, c)' <=> Owed(d, c))

QuietAt(d) == (Starting(d)' <=> Starting(d)) /\ \A c \in Channels : Quiet(d, c)

LEMMA StutterStep ==
  ASSUME TypeOK, TypeOK', UNCHANGED out, \A d \in Dests : QuietAt(d)
  PROVE  UNCHANGED Promise!vars
  <1>1. Up' = Up
    BY Mapping, MappingPrime DEF QuietAt
  <1>2. Latest' = Latest
    BY Mapping, MappingPrime DEF QuietAt, Quiet
  <1>3. Due' = Due
    BY Mapping, MappingPrime DEF QuietAt, Quiet
  <1> QED BY <1>1, <1>2, <1>3 DEF Promise!vars

LEMMA ConfigureStep ==
  ASSUME TypeOK, TypeOK', UNCHANGED out, NEW d \in Dests, Starting(d),
         \A e \in Dests \ {d} : QuietAt(e)
  PROVE  Promise!Next
  <1>1. ~Up[d]
    BY Mapping
  <1>2. Up' \in {Up, [Up EXCEPT ![d] = TRUE]}
    <2>1. \A e \in Dests \ {d} : Up'[e] = Up[e]
      BY Mapping, MappingPrime DEF QuietAt
    <2>2. Up' = [e \in Dests |-> IF e = d THEN Up'[d] ELSE Up[e]]
      BY <2>1, MappingPrime
    <2>3. Up = [e \in Dests |-> IF e = d THEN FALSE ELSE Up[e]]
      BY <1>1, Mapping
    <2>4. Up'[d] \in BOOLEAN
      BY MappingPrime
    <2>5. CASE Up'[d] = TRUE
      BY <2>2, <2>5, Mapping
    <2>6. CASE Up'[d] = FALSE
      BY <2>2, <2>3, <2>6
    <2> QED BY <2>4, <2>5, <2>6
  <1>3. ASSUME NEW e \in Dests \ {d} PROVE Latest'[e] = Latest[e] /\ Due'[e] = Due[e]
    BY <1>3, Mapping, MappingPrime DEF QuietAt, Quiet
  <1>4. Promise!Configure(d)
    BY <1>1, <1>2, <1>3 DEF Promise!Configure
  <1> QED BY <1>4 DEF Promise!Next

LEMMA RespondStep ==
  ASSUME TypeOK, TypeOK', UNCHANGED out, NEW d \in Dests, ~Starting(d), ~Starting(d)',
         NEW c \in Channels, NEW items \in Batches,
         Arrived(d, c)' = Fold(d, c, Arrived(d, c), items), Owed(d, c)',
         \A k \in Channels \ {c} : Quiet(d, k),
         \A e \in Dests \ {d} : QuietAt(e)
  PROVE  Promise!Next
  <1>1. Up' = Up /\ Up[d]
    BY Mapping, MappingPrime DEF QuietAt
  <1>2. Latest' = [Latest EXCEPT ![d][c] = Promise!Merged(d, c, @, items)]
    <2>1. Promise!Merged(d, c, Latest[d][c], items) = Arrived(d, c)'
      <3>1. Promise!Merged(d, c, Latest[d][c], items) = Fold(d, c, Latest[d][c], items)
        BY DEF Promise!Merged, Promise!FoldLeft, Promise!MapThenFoldSet, Promise!Max,
               Fold, FoldLeft, MapThenFoldSet, Max
      <3> QED BY <3>1, Mapping
    <2>2. \A e \in Dests, k \in Channels :
              Arrived(e, k)' = IF e = d /\ k = c THEN Arrived(d, c)' ELSE Arrived(e, k)
      BY DEF QuietAt, Quiet
    <2> DEFINE x == Arrived(d, c)'
    <2>3. Latest' = [e \in Dests |->
              [k \in Channels |-> IF e = d /\ k = c THEN x ELSE Arrived(e, k)]]
      BY <2>2, MappingPrime
    <2> HIDE DEF x
    <2>4. [Latest EXCEPT ![d][c] = x]
            = [e \in Dests |-> [k \in Channels |-> IF e = d /\ k = c THEN x ELSE Arrived(e, k)]]
      BY Mapping
    <2>5. Promise!Merged(d, c, Latest[d][c], items) = x
      BY <2>1 DEF x
    <2> QED BY <2>3, <2>4, <2>5
  <1>3. Due' = [Due EXCEPT ![d] = @ \cup {c}]
    <2>1. \A e \in Dests, k \in Channels :
              Owed(e, k)' <=> Owed(e, k) \/ (e = d /\ k = c)
      BY DEF QuietAt, Quiet
    <2>2. \A e \in Dests : Due'[e] = IF e = d THEN Due[e] \cup {c} ELSE Due[e]
      BY <2>1, Mapping, MappingPrime
    <2>3. DOMAIN Due = Dests /\ Due' = [e \in Dests |-> Due'[e]] /\ Due = [e \in Dests |-> Due[e]]
      BY Mapping, MappingPrime
    <2> QED BY <2>2, <2>3
  <1>4. Promise!Respond(d, c, items)
    BY <1>1, <1>2, <1>3 DEF Promise!Respond
  <1> QED BY <1>1, <1>4 DEF Promise!Next

LEMMA CopyStep ==
  ASSUME TypeOK, TypeOK', NEW d \in Dests, ~Starting(d), ~Starting(d)', NEW c \in Channels,
         Owed(d, c), Arrived(d, c) = in[d][c],
         out' = [out EXCEPT ![d] = Copied(d, c)],
         Arrived(d, c)' = Arrived(d, c), ~Owed(d, c)',
         \A k \in Channels \ {c} : Quiet(d, k),
         \A e \in Dests \ {d} : QuietAt(e)
  PROVE  Promise!Next
  <1>1. Up' = Up /\ Up[d]
    BY Mapping, MappingPrime DEF QuietAt
  <1>2. Latest' = Latest
    BY Mapping, MappingPrime DEF QuietAt, Quiet
  <1>3. c \in Due[d] /\ Due' = [Due EXCEPT ![d] = @ \ {c}]
    <2>1. \A e \in Dests, k \in Channels :
              Owed(e, k)' <=> Owed(e, k) /\ ~(e = d /\ k = c)
      BY DEF QuietAt, Quiet
    <2>2. \A e \in Dests : Due'[e] = IF e = d THEN Due[e] \ {c} ELSE Due[e]
      BY <2>1, Mapping, MappingPrime
    <2>3. DOMAIN Due = Dests /\ Due' = [e \in Dests |-> Due'[e]] /\ Due = [e \in Dests |-> Due[e]]
      BY Mapping, MappingPrime
    <2>4. Due' = [Due EXCEPT ![d] = @ \ {c}]
      BY <2>2, <2>3
    <2>5. c \in Due[d]
      BY Mapping
    <2> QED BY <2>4, <2>5
  <1>4. out' = [out EXCEPT ![d] = [p \in Points[d] |->
                    IF Channel(p) = c THEN Element(d, p, Latest[d][c]) ELSE @[p]]]
    <2>1. Latest[d][c] = in[d][c]
      BY Mapping
    <2>2. Copied(d, c) = [p \in Points[d] |->
              IF Channel(p) = c THEN Element(d, p, Latest[d][c]) ELSE out[d][p]]
      BY <2>1 DEF Copied, Input
    <2> QED BY <2>2
  <1>5. Promise!Copy(d, c)
    BY <1>1, <1>2, <1>3, <1>4 DEF Promise!Copy
  <1> QED BY <1>5 DEF Promise!Next

LEMMA UnsentNone ==
  ASSUME NEW d, NEW c
  PROVE  /\ (\A m \in Masters : ~Serving(m, d, c)) => Unsent(d, c) = <<>>
         /\ (\A m \in Masters : ~Serving(m, d, c)') => Unsent(d, c)' = <<>>
  BY DEF Unsent

LEMMA UnsentSome ==
  ASSUME NEW d, NEW c, NEW m \in Masters
  PROVE  /\ Serving(m, d, c) =>
              Unsent(d, c) = SubSeq(batch[m], next[m], Len(batch[m]))
         /\ Serving(m, d, c)' =>
              Unsent(d, c)' = SubSeq(batch'[m], next'[m], Len(batch'[m]))
  <1>1. (Serving(m, d, c) => c[1] = m) /\ (Serving(m, d, c)' => c[1] = m)
    BY DEF Serving, Current
  <1> QED BY <1>1 DEF Unsent

LEMMA ArrivedNone ==
  ASSUME TypeOK, NEW d \in Dests, NEW c \in Channels, \A m \in Masters : ~Serving(m, d, c)
  PROVE  Arrived(d, c) = in[d][c]
  <1>1. in[d][c] \in [Index -> Point]
    BY DEF TypeOK
  <1> QED BY <1>1, UnsentNone, FoldNone DEF Arrived

\* A step leaves a channel alone that it does not write to or flag, and whose
\* callback it does not touch.
LEMMA QuietFrame ==
  ASSUME NEW d \in Dests, NEW c \in Channels,
         in'[d][c] = in[d][c],
         c \in flag'[d] <=> c \in flag[d],
         \A m \in Masters :
             /\ Serving(m, d, c)' <=> Serving(m, d, c)
             /\ Serving(m, d, c) => batch'[m] = batch[m] /\ next'[m] = next[m]
  PROVE  Quiet(d, c)
  <1>1. Owed(d, c)' <=> Owed(d, c)
    BY DEF Owed
  <1>2. Unsent(d, c)' = Unsent(d, c)
    <2>1. CASE \A m \in Masters : ~Serving(m, d, c)
      BY <2>1, UnsentNone
    <2>2. CASE \E m \in Masters : Serving(m, d, c)
      BY <2>2, UnsentSome
    <2> QED BY <2>1, <2>2
  <1> QED BY <1>1, <1>2 DEF Quiet, Arrived

LEMMA CallbackElsewhere ==
  ASSUME TypeOK, InTurn, NEW m \in Masters, NEW d \in Dests, Callback(m, d),
         NEW e \in Dests, NEW k \in Channels, ~(e = d /\ k = Current(m))
  PROVE  Quiet(e, k)
  <1>0. m # Free /\ UNCHANGED kind
    BY HolderAssumption DEF Callback, LockDest, StoreItem, RaiseFlag
  <1>1. CASE LockDest(m, d)
    <2>1. UNCHANGED <<in, flag, batch, next>>
      BY <1>1 DEF LockDest
    <2>2. ASSUME NEW n \in Masters PROVE Serving(n, e, k)' <=> Serving(n, e, k)
      <3>1. Holds(n, e)' <=> IF e = d THEN n = m ELSE Holds(n, e)
        BY <1>1 DEF LockDest, Holds, TypeOK
      <3>2. ~Holds(n, d)
        BY <1>1, HolderAssumption DEF LockDest, Available, Holds
      <3> QED BY <1>0, <3>1, <3>2 DEF Serving, Current
    <2> QED BY <2>1, <2>2, QuietFrame
  <1>2. CASE StoreItem(m, d)
    <2>1. UNCHANGED <<flag, batch, holder>> /\ Holds(m, d)
      BY <1>2 DEF StoreItem
    <2>2. in'[e][k] = in[e][k]
      BY <1>2 DEF StoreItem, TypeOK
    <2>3. ASSUME NEW n \in Masters
          PROVE  /\ Serving(n, e, k)' <=> Serving(n, e, k)
                 /\ Serving(n, e, k) => next'[n] = next[n]
      <3>1. Serving(n, e, k)' <=> Serving(n, e, k)
        BY <1>0, <2>1 DEF Serving, Holds, Current
      <3>2. CASE n = m
        BY <2>1, <3>1, <3>2 DEF Serving, InTurn
      <3>3. CASE n # m
        BY <1>2, <3>1, <3>3 DEF StoreItem, TypeOK
      <3> QED BY <3>2, <3>3
    <2> QED BY <2>1, <2>2, <2>3, QuietFrame
  <1>3. CASE RaiseFlag(m, d)
    <2>1. UNCHANGED in /\ Holds(m, d)
      BY <1>3 DEF RaiseFlag
    <2>2. k \in flag'[e] <=> k \in flag[e]
      BY <1>3 DEF RaiseFlag, TypeOK
    <2>3. ASSUME NEW n \in Masters
          PROVE  /\ Serving(n, e, k)' <=> Serving(n, e, k)
                 /\ Serving(n, e, k) => batch'[n] = batch[n] /\ next'[n] = next[n]
      <3>1. Holds(n, e)' <=> Holds(n, e) /\ e # d
        BY <1>3, HolderAssumption DEF RaiseFlag, Holds, TypeOK
      <3>2. CASE n = m
        <4>1. ~Serving(n, e, k)
          BY <2>1, <3>2 DEF Serving, InTurn
        <4>2. ~Serving(n, e, k)'
          BY <1>0, <2>1, <3>1, <3>2, <4>1 DEF Serving, Current
        <4> QED BY <4>1, <4>2
      <3>3. CASE n # m
        <4>1. batch'[n] = batch[n] /\ next'[n] = next[n]
          BY <1>3, <3>3 DEF RaiseFlag, TypeOK
        <4>2. Holds(n, e) => e # d
          BY <2>1, <3>3 DEF Holds
        <4> QED BY <1>0, <3>1, <4>1, <4>2 DEF Serving, Current
      <3> QED BY <3>2, <3>3
    <2> QED BY <2>1, <2>2, <2>3, QuietFrame
  <1> QED BY <1>1, <1>2, <1>3 DEF Callback

LEMMA MapsLock ==
  ASSUME TypeOK, TypeOK', InTurn, NEW m \in Masters, NEW d \in Dests, LockDest(m, d)
  PROVE  Promise!Next
  <1>1. PICK c \in Channels : c = Current(m)
    BY DEF Current, Channels, TypeOK
  <1>2. /\ UNCHANGED <<out, phase, in, kind, batch, next>>
        /\ batch[m] \in Batches /\ next[m] = 1 /\ d \in todo[m]
    BY DEF LockDest, InTurn, destVars
  <1>3. ASSUME NEW e \in Dests, NEW k \in Channels, ~(e = d /\ k = c) PROVE Quiet(e, k)
    BY <1>1, <1>3, CallbackElsewhere DEF Callback
  <1>4. \A e \in Dests : Starting(e)' <=> Starting(e)
    BY <1>2 DEF Starting
  <1>5. \A e \in Dests \ {d} : QuietAt(e)
    BY <1>3, <1>4 DEF QuietAt
  <1>6. CASE Starting(d)
    BY <1>2, <1>5, <1>6, ConfigureStep
  <1>7. CASE ~Starting(d)
    <2>1. \A n \in Masters : ~Serving(n, d, c)
      BY HolderAssumption DEF LockDest, Available, Serving, Holds
    <2>2. Serving(m, d, c)'
      BY <1>1, <1>2 DEF LockDest, Serving, Holds, Current, TypeOK
    <2>3. Unsent(d, c)' = batch[m]
      <3>1. batch[m] \in Seq(Item)
        BY DEF TypeOK
      <3>2. SubSeq(batch[m], 1, Len(batch[m])) = batch[m]
        BY <3>1
      <3> QED BY <1>2, <2>2, <3>2, UnsentSome
    <2>4. Arrived(d, c)' = Fold(d, c, in[d][c], batch[m])
      BY <1>2, <2>3 DEF Arrived
    <2>5. Arrived(d, c) = in[d][c]
      BY <1>1, <2>1, ArrivedNone
    <2>6. Owed(d, c)'
      BY <2>2 DEF Owed
    <2> QED BY <1>1, <1>2, <1>3, <1>4, <1>5, <1>7, <2>4, <2>5, <2>6, RespondStep
  <1> QED BY <1>6, <1>7

LEMMA MapsStore ==
  ASSUME TypeOK, TypeOK', InTurn, NEW m \in Masters, NEW d \in Dests, StoreItem(m, d)
  PROVE  Promise!Next \/ UNCHANGED Promise!vars
  <1>0. PICK c \in Channels : c = Current(m)
    BY DEF Current, Channels, TypeOK
  <1>1. in[d][c] \in [Index -> Point] /\ batch[m] \in Seq(Item)
        /\ next[m] \in 1..Len(batch[m])
    BY DEF TypeOK, StoreItem
  <1>2. UNCHANGED <<out, phase, kind, batch, flag, holder>>
    BY DEF StoreItem, destVars
  <1>3. ASSUME NEW e \in Dests, NEW k \in Channels, ~(e = d /\ k = c) PROVE Quiet(e, k)
    BY <1>0, <1>3, CallbackElsewhere DEF Callback
  <1>4. \A e \in Dests : Starting(e)' <=> Starting(e)
    BY <1>2 DEF Starting
  <1>5. \A e \in Dests \ {d} : QuietAt(e)
    BY <1>3, <1>4 DEF QuietAt
  <1>6. CASE phase[d] = "created"
    BY <1>2, <1>5, <1>6, ConfigureStep DEF Starting
  <1>7. CASE phase[d] # "created"
    <2>1. Serving(m, d, c) /\ Serving(m, d, c)'
      BY <1>0, <1>2 DEF StoreItem, Serving, Holds, Current
    <2>2. Unsent(d, c) = SubSeq(batch[m], next[m], Len(batch[m]))
          /\ Unsent(d, c)' = SubSeq(batch[m], next[m] + 1, Len(batch[m]))
      <3>1. next'[m] = next[m] + 1
        BY DEF StoreItem, TypeOK
      <3> QED BY <1>2, <2>1, <3>1, UnsentSome
    <2>3. in'[d][c] = Stored(d, c, in[d][c], batch[m][next[m]])
      BY <1>0, <1>1, <1>7 DEF StoreItem, TypeOK
    <2>4. Arrived(d, c)' = Arrived(d, c)
      <3> DEFINE rest == SubSeq(batch[m], next[m] + 1, Len(batch[m]))
      <3>1. Arrived(d, c) = Fold(d, c, Stored(d, c, in[d][c], batch[m][next[m]]), rest)
        <4>1. Fold(d, c, in[d][c], SubSeq(batch[m], next[m], Len(batch[m])))
                = Fold(d, c, Stored(d, c, in[d][c], batch[m][next[m]]), rest)
          BY <1>1, FoldFirst
        <4> QED BY <2>2, <4>1 DEF Arrived
      <3>2. Arrived(d, c)' = Fold(d, c, in'[d][c], rest)
        BY <2>2 DEF Arrived
      <3> QED BY <2>3, <3>1, <3>2
    <2>5. Quiet(d, c)
      BY <2>1, <2>4 DEF Quiet, Owed
    <2>6. QuietAt(d)
      BY <1>3, <1>4, <2>5 DEF QuietAt
    <2> QED BY <1>2, <1>5, <2>6, StutterStep
  <1> QED BY <1>6, <1>7

LEMMA MapsRaise ==
  ASSUME TypeOK, TypeOK', InTurn, NEW m \in Masters, NEW d \in Dests, RaiseFlag(m, d)
  PROVE  UNCHANGED Promise!vars
  <1>0. PICK c \in Channels : c = Current(m)
    BY DEF Current, Channels, TypeOK
  <1>1. batch[m] \in Seq(Item) /\ next[m] \in Nat /\ next[m] > Len(batch[m])
    BY DEF TypeOK, RaiseFlag
  <1>2. UNCHANGED <<out, phase, kind, in>>
    BY DEF RaiseFlag, destVars
  <1>3. ASSUME NEW e \in Dests, NEW k \in Channels, ~(e = d /\ k = c) PROVE Quiet(e, k)
    BY <1>0, <1>3, CallbackElsewhere DEF Callback
  <1>4. \A e \in Dests : Starting(e)' <=> Starting(e)
    BY <1>2 DEF Starting
  <1>5. Serving(m, d, c)
    BY <1>0 DEF RaiseFlag, Serving
  <1>6. \A n \in Masters : ~Serving(n, d, c)'
    BY HolderAssumption DEF RaiseFlag, Serving, Holds, TypeOK
  <1>7. c \in flag'[d]
    BY <1>0 DEF RaiseFlag, TypeOK
  <1>8. Unsent(d, c) = <<>> /\ Unsent(d, c)' = <<>>
    <2>1. SubSeq(batch[m], next[m], Len(batch[m])) = <<>>
      BY <1>1
    <2> QED BY <1>5, <1>6, <2>1, UnsentSome, UnsentNone
  <1>9. Quiet(d, c)
    BY <1>2, <1>5, <1>7, <1>8 DEF Quiet, Arrived, Owed
  <1>10. \A e \in Dests : QuietAt(e)
    BY <1>3, <1>4, <1>9 DEF QuietAt
  <1> QED BY <1>2, <1>10, StutterStep

LEMMA MapsReceive ==
  ASSUME TypeOK, TypeOK', NEW m \in Masters, Receive(m)
  PROVE  UNCHANGED Promise!vars
  <1>1. UNCHANGED <<out, phase, in, flag, holder, next>> /\ \A e \in Dests : ~Holds(m, e)
    BY DEF Receive, destVars
  <1>2. \A n \in Masters \ {m} : kind'[n] = kind[n] /\ batch'[n] = batch[n]
    BY DEF Receive, TypeOK
  <1>3. ASSUME NEW e \in Dests, NEW k \in Channels PROVE Quiet(e, k)
    <2>1. \A n \in Masters : /\ Serving(n, e, k)' <=> Serving(n, e, k)
                             /\ Serving(n, e, k) => n # m
      BY <1>1, <1>2 DEF Serving, Holds, Current
    <2> QED BY <1>1, <1>2, <2>1, QuietFrame
  <1>4. \A e \in Dests : QuietAt(e)
    BY <1>1, <1>3 DEF QuietAt, Starting
  <1> QED BY <1>1, <1>4, StutterStep

LEMMA MapsRest ==
  ASSUME TypeOK, TypeOK', UNCHANGED <<out, in, flag, kind, batch, next>>,
         UNCHANGED holder \/ \E d \in Dests : BeginPass(d) \/ EndPass(d),
         \A d \in Dests : Starting(d)' <=> Starting(d)
  PROVE  UNCHANGED Promise!vars
  <1>1. ASSUME NEW e \in Dests, NEW k \in Channels PROVE Quiet(e, k)
    <2>1. \A n \in Masters : Serving(n, e, k)' <=> Serving(n, e, k)
      BY HoldsOther DEF Serving, Current
    <2> QED BY <2>1, QuietFrame
  <1> QED BY <1>1, StutterStep DEF QuietAt

LEMMA MapsStart ==
  ASSUME TypeOK, TypeOK', NEW d \in Dests, ZeroArrays(d) \/ ResetFlags(d)
  PROVE  Promise!Next
  <1>1. UNCHANGED <<out, kind, batch, next, holder>> /\ Starting(d)
    BY DEF ZeroArrays, ResetFlags, destVars, masterVars, Starting
  <1>2. ASSUME NEW e \in Dests \ {d}
        PROVE  in'[e] = in[e] /\ flag'[e] = flag[e] /\ phase'[e] = phase[e]
    BY DEF ZeroArrays, ResetFlags, TypeOK
  <1>3. ASSUME NEW e \in Dests \ {d}, NEW k \in Channels PROVE Quiet(e, k)
    <2>1. \A n \in Masters : Serving(n, e, k)' <=> Serving(n, e, k)
      BY <1>1 DEF Serving, Holds, Current
    <2> QED BY <1>1, <1>2, <2>1, QuietFrame
  <1>4. \A e \in Dests \ {d} : QuietAt(e)
    BY <1>2, <1>3 DEF QuietAt, Starting
  <1> QED BY <1>1, <1>4, ConfigureStep

LEMMA MapsVisit ==
  ASSUME TypeOK, TypeOK', NEW d \in Dests, NEW c \in ChannelsOf(d), VisitFlagged(d, c)
  PROVE  Promise!Next
  <1>1. /\ UNCHANGED <<kind, batch, next, holder, phase, in>>
        /\ phase[d] = "pass" /\ c \in flag[d] /\ c \in Channels
        /\ out' = [out EXCEPT ![d] = Copied(d, c)]
    BY ChannelsOfType DEF VisitFlagged, Turn, masterVars
  <1>2. flag' = [flag EXCEPT ![d] = @ \ {c}]
    BY DEF VisitFlagged
  <1>3. \A n \in Masters, e \in Dests, k \in Channels : Serving(n, e, k)' <=> Serving(n, e, k)
    BY <1>1 DEF Serving, Holds, Current
  <1>4. ASSUME NEW e \in Dests, NEW k \in Channels, ~(e = d /\ k = c) PROVE Quiet(e, k)
    <2>1. k \in flag'[e] <=> k \in flag[e]
      BY <1>2, <1>4 DEF TypeOK
    <2> QED BY <1>1, <1>3, <2>1, QuietFrame
  <1>5. \A e \in Dests : Starting(e)' <=> Starting(e)
    BY <1>1 DEF Starting
  <1>6. \A e \in Dests \ {d} : QuietAt(e)
    BY <1>4, <1>5 DEF QuietAt
  <1>7. \A n \in Masters : ~Serving(n, d, c)
    BY <1>1, HolderAssumption DEF Serving, Holds, TypeOK
  <1>8. Arrived(d, c) = in[d][c]
    BY <1>1, <1>7, ArrivedNone
  <1>9. Arrived(d, c)' = Arrived(d, c)
    <2>1. Unsent(d, c) = <<>> /\ Unsent(d, c)' = <<>>
      BY <1>1, <1>3, <1>7, UnsentNone
    <2> QED BY <1>1, <2>1 DEF Arrived
  <1>10. Owed(d, c) /\ ~Owed(d, c)'
    BY <1>1, <1>2, <1>3, <1>7 DEF Owed, TypeOK
  <1>11. ~Starting(d)
    BY <1>1 DEF Starting
  <1> QED BY <1>1, <1>4, <1>5, <1>6, <1>8, <1>9, <1>10, <1>11, CopyStep

LEMMA MapsNext ==
  ASSUME TypeOK, TypeOK', InTurn, [Next]_vars
  PROVE  Promise!Next \/ UNCHANGED Promise!vars
  <1>1. CASE \E m \in Masters : Receive(m)
    BY <1>1, MapsReceive
  <1>2. CASE \E m \in Masters, d \in Dests : Callback(m, d)
    BY <1>2, MapsLock, MapsStore, MapsRaise DEF Callback
  <1>3. CASE \E d \in Dests : ZeroArrays(d) \/ ResetFlags(d)
    BY <1>3, MapsStart
  <1>4. CASE \E d \in Dests : \E c \in ChannelsOf(d) : VisitFlagged(d, c)
    BY <1>4, MapsVisit
  <1>5. CASE /\ UNCHANGED <<out, in, flag, kind, batch, next>>
             /\ UNCHANGED holder \/ \E d \in Dests : BeginPass(d) \/ EndPass(d)
             /\ \A d \in Dests : Starting(d)' <=> Starting(d)
    BY <1>5, MapsRest
  <1>6. \/ \E m \in Masters : Receive(m)
        \/ \E m \in Masters, d \in Dests : Callback(m, d)
        \/ \E d \in Dests : ZeroArrays(d) \/ ResetFlags(d)
        \/ \E d \in Dests : \E c \in ChannelsOf(d) : VisitFlagged(d, c)
        \/ /\ UNCHANGED <<out, in, flag, kind, batch, next>>
           /\ UNCHANGED holder \/ \E d \in Dests : BeginPass(d) \/ EndPass(d)
           /\ \A d \in Dests : Starting(d)' <=> Starting(d)
    <2>1. CASE UNCHANGED vars \/ Quit \/ \E m \in Masters : UpdateDestinations(m)
      BY <2>1 DEF vars, masterVars, destVars, Quit, UpdateDestinations, Starting
    <2>2. CASE \E d \in Dests : Resize(d) \/ GoRound(d) \/ Stop(d) \/ BeginPass(d) \/ EndPass(d)
      <3>1. PICK d \in Dests : Resize(d) \/ GoRound(d) \/ Stop(d) \/ BeginPass(d) \/ EndPass(d)
        BY <2>2
      <3>2. \A e \in Dests : Starting(e)' <=> Starting(e)
        BY <3>1 DEF Resize, GoRound, Stop, BeginPass, EndPass, Starting, TypeOK
      <3>3. UNCHANGED <<out, in, flag, kind, batch, next>>
            /\ (UNCHANGED holder \/ BeginPass(d) \/ EndPass(d))
        BY <3>1 DEF Resize, GoRound, Stop, BeginPass, EndPass, masterVars, destVars
      <3> QED BY <3>2, <3>3
    <2>3. CASE \E d \in Dests : \E c \in ChannelsOf(d) : VisitUnflagged(d, c)
      BY <2>3 DEF VisitUnflagged, masterVars, Starting
    <2> QED BY <2>1, <2>2, <2>3 DEF Next, Run
  <1> QED BY <1>1, <1>2, <1>3, <1>4, <1>5, <1>6

\* Lock by lock and item by item, the callbacks and passes do what PointMirror
\* does a response and a channel at a time.
THEOREM Mirrors == Spec => RefinesPointMirror
  <1>1. Init => Promise!Init
    <2> SUFFICES ASSUME Init PROVE Promise!Init
      OBVIOUS
    <2>1. Up = [d \in Dests |-> FALSE]
      BY DEF Init, Up
    <2>2. Due = [d \in Dests |-> {}]
      BY HolderAssumption DEF Init, Due, Serving, Holds
    <2> QED BY <2>1, <2>2 DEF Promise!Init
  <1>2. TypeOK /\ TypeOK' /\ InTurn /\ [Next]_vars => [Promise!Next]_Promise!vars
    BY MapsNext
  <1>3. Spec => []InTurn
    BY InTurnInit, InTurnStep, Typing, PTL DEF Spec
  <1> QED BY <1>1, <1>2, <1>3, Typing, PTL DEF Spec, RefinesPointMirror, Promise!Spec
=================================================================================
