------------------------- MODULE CommandRouterProofs -------------------------
(***************************************************************************)
(* What the router promises, for any set of locos, throttle protocols and  *)
(* functions.  The type invariant comes first: what it stores, shows and   *)
(* writes to the socket is well formed - no command ever carries the value *)
(* of another property - and the table stays within MAX_LOCOS.  Then four  *)
(* inductive invariants:                                                   *)
(*   AgreeInv     what is under way between table and ECoS brings them     *)
(*                together (DriveAgrees, FunctionsAgree);                  *)
(*   WishInv      the last command under way is the throttle's last one    *)
(*                (LastDriveWins);                                         *)
(*   DisplayInv   what a throttle shows is the table's, or it is the one   *)
(*                that asked for it (OthersShowDrive, BystandersShowAll);  *)
(*   ViewsInv     a loco that a throttle put into the table is viewed, or  *)
(*                its view is being asked for (ViewsMatchTable).           *)
(***************************************************************************)
EXTENDS CommandRouter, FiniteSetTheorems, TLAPS

TrackedSet == {a \in Addr : Tracked(a)}

-----------------------------------------------------------------------------
(* The operators the actions are built from. *)
LEMMA StateOfType ==
    ASSUME TypeOK, NEW a \in Addr
    PROVE  StateOf(a) \in Locos
<1>1. Placeholder \in Locos
  BY RouterAssumption DEF Placeholder, Locos
<1> QED
  BY <1>1 DEF StateOf, Tracked, TypeOK

(* Room found before a loco is stored keeps the table within its bound. *)
LEMMA StoreWithinBound ==
    ASSUME TypeOK, NEW a \in Addr, NEW st \in Locos, Tracked(a) \/ HasRoom,
           locos' = [locos EXCEPT ![a] = st]
    PROVE  /\ locos' \in [Addr -> Locos \cup {NoLoco}]
           /\ Cardinality(TrackedSet') <= MaxLocos
<1>1. locos' \in [Addr -> Locos \cup {NoLoco}]
  BY DEF TypeOK
<1>2. IsFiniteSet(TrackedSet) /\ Cardinality(TrackedSet) \in Nat
  <2>1. TrackedSet \in SUBSET Addr
    BY DEF TrackedSet
  <2> QED
    BY <2>1, RouterAssumption, FS_Subset, FS_CardinalityType
<1>3. IsFiniteSet(TrackedSet \cup {a})
      /\ Cardinality(TrackedSet \cup {a}) =
            IF a \in TrackedSet THEN Cardinality(TrackedSet)
                                ELSE Cardinality(TrackedSet) + 1
  BY <1>2, FS_AddElement
<1>4. Cardinality(TrackedSet \cup {a}) <= MaxLocos
  BY <1>2, <1>3, RouterAssumption DEF TypeOK, HasRoom, TrackedSet
<1>5. TrackedSet' \in SUBSET (TrackedSet \cup {a})
  BY DEF TrackedSet, Tracked, TypeOK
<1>6. /\ Cardinality(TrackedSet') <= Cardinality(TrackedSet \cup {a})
      /\ Cardinality(TrackedSet') \in Nat
      /\ Cardinality(TrackedSet \cup {a}) \in Nat
  BY <1>3, <1>5, FS_Subset, FS_CardinalityType
<1> QED
  BY <1>1, <1>4, <1>6, RouterAssumption

(* Asking for a view writes one command about that loco. *)
LEMMA RequestType ==
    ASSUME NEW a \in Addr
    PROVE  Request(a) \in Seq(Commands) /\ Subscription(a) \in Seq(Commands)
<1>1. Cmd("request", a, "speed", 0) \in Commands
  BY DEF Cmd, Commands, Keys, KeyValues
<1> QED
  BY <1>1 DEF Request, Subscription

(* Speed and direction go out as two commands with values of their own kind. *)
LEMMA DriveSetsType ==
    ASSUME NEW a \in Addr, NEW st \in Locos
    PROVE  DriveSets(a, st) \in Seq(Commands)
<1>1. st.dir \in Dirs /\ st.speed \in Speeds
  BY DEF Locos
<1>2. Cmd("set", a, "dir", st.dir) \in Commands
  BY <1>1, RouterAssumption DEF Cmd, Commands, Keys, KeyValues, ValuesOf
<1>3. Cmd("set", a, "speed", st.speed) \in Commands
  BY <1>1, RouterAssumption DEF Cmd, Commands, Keys, KeyValues, ValuesOf
<1> QED
  BY <1>2, <1>3 DEF DriveSets

(* A function is set to 0 or 1 on the wire, inverted or not. *)
LEMMA FunctionCmdType ==
    ASSUME NEW a \in Addr, NEW f \in Fns, NEW F
    PROVE  Cmd("set", a, f, Raw(f, F)) \in Commands
<1>1. f # "speed" /\ f # "dir"
  BY RouterAssumption
<1>2. Raw(f, F) \in {0, 1}
  BY DEF Raw
<1> QED
  BY <1>1, <1>2 DEF Cmd, Commands, Keys, KeyValues, ValuesOf

(* A finite set can be listed. *)
LEMMA SetToSeqType ==
    ASSUME NEW S, IsFiniteSet(S)
    PROVE  SetToSeq(S) \in Seq(S)
<1>1. Cardinality(S) \in Nat /\ ExistsBijection(1 .. Cardinality(S), S)
  BY FS_CardinalityType
<1>2. PICK f \in [1 .. Cardinality(S) -> S] :
         \A i, j \in 1 .. Cardinality(S) : f[i] = f[j] => i = j
  BY <1>1 DEF ExistsBijection, Bijection, Injection, IsInjective
<1>3. SetToSeq(S) \in [1 .. Cardinality(S) -> S]
  BY <1>2 DEF SetToSeq, IsInjective
<1> QED
  BY <1>1, <1>3

(* The differences to what was sent last are function commands only. *)
LEMMA FunctionSetsType ==
    ASSUME NEW a \in Addr, NEW F \in SUBSET Fns, lastSent[a] \in SUBSET Fns
    PROVE  FunctionSets(a, F) \in Seq(Commands)
<1> DEFINE D == (F \ lastSent[a]) \cup (lastSent[a] \ F)
           order == SetToSeq(D)
<1>1. D \in SUBSET Fns
  OBVIOUS
<1>2. IsFiniteSet(D)
  BY <1>1, RouterAssumption, FS_Subset
<1>3. order \in Seq(D)
  BY <1>2, SetToSeqType
<1> HIDE DEF order, D
<1>4. /\ Len(order) \in Nat /\ DOMAIN order = 1 .. Len(order)
      /\ \A i \in 1 .. Len(order) : order[i] \in Fns
  BY <1>1, <1>3
<1>5. \A i \in 1 .. Len(order) : Cmd("set", a, order[i], Raw(order[i], F)) \in Commands
  BY <1>4, FunctionCmdType
<1>6. [i \in DOMAIN order |-> Cmd("set", a, order[i], Raw(order[i], F))] \in Seq(Commands)
  BY <1>4, <1>5
<1> QED
  BY <1>6 DEF FunctionSets, order, D

(* Telling throttle protocols about a loco leaves well-formed displays. *)
LEMMA TellType ==
    ASSUME TypeOK, NEW T, NEW a \in Addr, NEW st \in Locos, NEW withFns
    PROVE  Tell(T, a, st, withFns) \in [Throttles -> [Addr -> Locos]]
<1>1. \A old \in Locos : DrivePart(old, st) \in Locos
  BY DEF DrivePart, Locos
<1>2. \A t \in Throttles : shown[t] \in [Addr -> Locos]
  BY DEF TypeOK
<1> QED
  BY <1>1, <1>2 DEF Tell

(* So does what a protocol shows of its own command. *)
LEMMA OwnDisplayType ==
    ASSUME TypeOK, NEW t \in Throttles, NEW a \in Addr, NEW st \in Locos
    PROVE  /\ \A d \in Drives : OwnDrive(t, a, d, st) \in Locos
           /\ \A g \in SUBSET Fns, F \in SUBSET Fns : OwnFunctions(t, a, g, F, st) \in Locos
<1>1. shown[t][a] \in Locos
  BY DEF TypeOK
<1> QED
  BY <1>1 DEF OwnDrive, OwnFunctions, DrivePart, Locos, Drives

(* One entry of one display may be replaced. *)
LEMMA DisplayUpdateType ==
    ASSUME NEW S \in [Throttles -> [Addr -> Locos]], NEW t \in Throttles,
           NEW a \in Addr, NEW st \in Locos
    PROVE  [S EXCEPT ![t][a] = st] \in [Throttles -> [Addr -> Locos]]
  OBVIOUS

(* Telling throttles, and overwriting a query, keeps the records of it sound. *)
LEMMA RecordsType ==
    ASSUME TypeOK, NEW a \in Addr
    PROVE  /\ \A T, withFns : Told(T, a, withFns) \in [Addr -> StaleDisplays]
           /\ \A S \in SUBSET Throttles, W \in SUBSET Throttles :
                 [stale EXCEPT ![a] = [drive |-> S, fns |-> W]] \in [Addr -> StaleDisplays]
           /\ \A t \in Throttles :
                 [stale EXCEPT ![a].drive = @ \cup {t}] \in [Addr -> StaleDisplays]
           /\ \A asks, sends : Overwrite(a, asks, sends) => lost' \in [Addr -> SUBSET Keys]
<1>1. /\ stale \in [Addr -> StaleDisplays] /\ lost \in [Addr -> SUBSET Keys]
      /\ baseline.left \in SUBSET Keys /\ fnSweep.left \in SUBSET Keys
  BY DEF TypeOK, Baselines, FnSweeps, Keys
<1>2. \A T, withFns : Told(T, a, withFns) \in [Addr -> StaleDisplays]
  BY <1>1 DEF Told, StaleDisplays
<1>3. \A S \in SUBSET Throttles, W \in SUBSET Throttles :
         [stale EXCEPT ![a] = [drive |-> S, fns |-> W]] \in [Addr -> StaleDisplays]
  BY <1>1 DEF StaleDisplays
<1>4. \A t \in Throttles : [stale EXCEPT ![a].drive = @ \cup {t}] \in [Addr -> StaleDisplays]
  BY <1>1 DEF StaleDisplays
<1>5. \A asks, sends : Overwrite(a, asks, sends) => lost' \in [Addr -> SUBSET Keys]
  BY <1>1 DEF Overwrite
<1> QED
  BY <1>2, <1>3, <1>4, <1>5

(* An ECoS speed or direction event changes that property alone. *)
LEMMA MergedType ==
    ASSUME NEW old \in Locos, NEW ev \in Events
    PROVE  DriveMerged(old, ev) \in Locos
  BY RouterAssumption DEF DriveMerged, Locos, Events, ValuesOf

-----------------------------------------------------------------------------
(* One lemma per action. *)
LEMMA InitType == Init => TypeOK
<1> SUFFICES ASSUME Init
             PROVE  TypeOK
  OBVIOUS
<1>1. Placeholder \in Locos
  BY RouterAssumption DEF Placeholder, Locos
<1>2. {a \in Addr : Tracked(a)} = {}
  BY DEF Init, Tracked
<1>3. Cardinality({a \in Addr : Tracked(a)}) <= MaxLocos
  <2> DEFINE tracked == {a \in Addr : Tracked(a)}
  <2>1. tracked = {}
    BY <1>2
  <2> HIDE DEF tracked
  <2>2. Cardinality(tracked) = 0
    BY <2>1, FS_EmptySet
  <2>3. Cardinality(tracked) <= MaxLocos
    BY <2>2, RouterAssumption
  <2> QED
    BY <2>3 DEF tracked
<1>4. /\ locos \in [Addr -> Locos \cup {NoLoco}]
      /\ lastSent \in [Addr -> (SUBSET Fns) \cup {NoBaseline}]
      /\ shown \in [Throttles -> [Addr -> Locos]]
      /\ toEcos \in Seq(Commands) /\ fromEcos \in Seq(Events)
      /\ ops \in 0 .. MaxOps
  BY <1>1, RouterAssumption DEF Init
<1>5. /\ echo \in [addr : Addr \cup {NoAddr}, src : Throttles \cup {NoSource},
                   type : {"SPEED", "FUNCTION"}, open : BOOLEAN]
      /\ bits \in [addr : Addr \cup {NoAddr}, on : SUBSET Fns, off : SUBSET Fns, open : BOOLEAN]
      /\ baseline \in Baselines
      /\ fnSweep \in FnSweeps
  BY DEF Init, Baselines, FnSweeps
<1>6. station \in [Addr -> StationLocos]
  BY DEF Init, StationLocos
<1>7. wish \in [Addr -> Wishes]
  BY DEF Init, Wishes
<1>8. /\ lost \in [Addr -> SUBSET Keys] /\ stale \in [Addr -> StaleDisplays]
      /\ revived \subseteq Addr
  BY DEF Init, StaleDisplays
<1> QED
  BY <1>3, <1>4, <1>5, <1>6, <1>7, <1>8 DEF TypeOK

(* A throttle action stays within its bound. *)
LEMMA OperateType ==
    ASSUME TypeOK, Operate
    PROVE  ops' \in 0 .. MaxOps
  BY RouterAssumption DEF Operate, TypeOK

(* A new baseline query starts with the properties there are. *)
LEMMA SubscribeType ==
    ASSUME TypeOK, NEW a \in Addr, Subscribe(a) \/ StartBaseline(a)
    PROVE  baseline' \in Baselines
  BY DEF Subscribe, StartBaseline, TypeOK, Baselines

(* A drive command from a throttle protocol. *)
LEMMA ThrottleDriveType ==
    ASSUME TypeOK, NEW t \in Throttles, NEW a \in Addr, NEW d \in Drives,
           ThrottleDrive(t, a, d)
    PROVE  TypeOK'
<1> DEFINE st == [speed |-> d.speed, dir |-> d.dir, fns |-> StateOf(a).fns]
<1>1. st \in Locos
  BY StateOfType DEF Locos, Drives
<1> HIDE DEF st
<1>2. /\ Operate /\ (Tracked(a) \/ HasRoom)
      /\ locos' = [locos EXCEPT ![a] = st]
      /\ toEcos' = toEcos \o Subscription(a) \o DriveSets(a, st)
      /\ Subscribe(a)
      /\ shown' = [Tell(Throttles \ {t}, a, st, FALSE) EXCEPT
                      ![t][a] = OwnDrive(t, a, d, st)]
      /\ Attribute(a, t, "SPEED")
      /\ wish' = [wish EXCEPT ![a].users = @ \cup {t}, ![a].driver = t,
                              ![a].drive = d, ![a].resent = FALSE]
      /\ Overwrite(a, ~Tracked(a), FALSE)
      /\ stale' = Told(IF t = Z21_LAN THEN Throttles ELSE Throttles \ {t}, a, FALSE)
      /\ UNCHANGED <<bits, lastSent, fnSweep, fromEcos, station, revived>>
  BY DEF ThrottleDrive, st
<1>3. /\ locos' \in [Addr -> Locos \cup {NoLoco}]
      /\ Cardinality({b \in Addr : Tracked(b)})' <= MaxLocos
  BY <1>1, <1>2, StoreWithinBound DEF TrackedSet
<1>4. toEcos' \in Seq(Commands)
  BY <1>1, <1>2, RequestType, DriveSetsType DEF TypeOK
<1>5. shown' \in [Throttles -> [Addr -> Locos]]
  <2> DEFINE told == Tell(Throttles \ {t}, a, st, FALSE)
             own == OwnDrive(t, a, d, st)
  <2>1. told \in [Throttles -> [Addr -> Locos]] /\ own \in Locos
    BY <1>1, TellType, OwnDisplayType
  <2>2. shown' = [told EXCEPT ![t][a] = own]
    BY <1>2
  <2> QED
    BY <2>1, <2>2, DisplayUpdateType
<1>6. echo' \in [addr : Addr \cup {NoAddr}, src : Throttles \cup {NoSource},
                 type : {"SPEED", "FUNCTION"}, open : BOOLEAN]
  BY <1>2 DEF Attribute
<1>7. wish[a] \in Wishes
  BY DEF TypeOK
<1>8. [wish[a] EXCEPT !.users = @ \cup {t}, !.driver = t, !.drive = d,
                      !.resent = FALSE] \in Wishes
  BY <1>7 DEF Wishes
<1>9. wish' = [wish EXCEPT ![a] = [wish[a] EXCEPT !.users = @ \cup {t}, !.driver = t,
                                                  !.drive = d, !.resent = FALSE]]
  BY <1>2 DEF TypeOK
<1>10. wish' \in [Addr -> Wishes]
  BY <1>8, <1>9 DEF TypeOK
<1>11. ops' \in 0 .. MaxOps
  BY <1>2, OperateType
<1>12. baseline' \in Baselines
  BY <1>2, SubscribeType
<1>13. lost' \in [Addr -> SUBSET Keys] /\ stale' \in [Addr -> StaleDisplays]
  BY <1>2, RecordsType
<1> QED
  BY <1>2, <1>3, <1>4, <1>5, <1>6, <1>10, <1>11, <1>12, <1>13 DEF TypeOK

(* The first bitmap starts a sweep, a later one is sent as differences. *)
LEMMA SendFunctionsType ==
    ASSUME TypeOK, NEW a \in Addr, NEW F \in SUBSET Fns, NEW before \in Seq(Commands),
           SendFunctions(a, F, before)
    PROVE  /\ toEcos' \in Seq(Commands)
           /\ fnSweep' \in FnSweeps
<1>1. CASE lastSent[a] = NoBaseline
  BY <1>1 DEF SendFunctions, FnSweeps
<1>2. CASE lastSent[a] # NoBaseline
  <2>1. lastSent[a] \in SUBSET Fns
    BY <1>2 DEF TypeOK
  <2>2. FunctionSets(a, F) \in Seq(Commands)
    BY <2>1, FunctionSetsType
  <2>3. toEcos' = before \o FunctionSets(a, F) /\ fnSweep' = fnSweep
    BY <1>2 DEF SendFunctions
  <2> QED
    BY <2>2, <2>3 DEF TypeOK
<1> QED
  BY <1>1, <1>2

(* The bits noted for echo suppression are functions. *)
LEMMA NotedType ==
    ASSUME TypeOK, NEW a \in Addr, NEW prior \in SUBSET Fns, NEW F \in SUBSET Fns,
           NoteFunctionChange(a, prior, F)
    PROVE  bits' \in [addr : Addr \cup {NoAddr}, on : SUBSET Fns, off : SUBSET Fns,
                      open : BOOLEAN]
  BY DEF NoteFunctionChange, TypeOK

(* A function command from a throttle protocol. *)
LEMMA ThrottleFunctionsType ==
    ASSUME TypeOK, NEW t \in Throttles, NEW a \in Addr, NEW g \in FnGroups, NEW f \in g,
           NEW F \in Bitmaps(t, a, g, f), ThrottleFunctions(t, a, g, f, F)
    PROVE  TypeOK'
<1> DEFINE st == [StateOf(a) EXCEPT !.fns = F]
<1>1. StateOf(a) \in Locos /\ StateOf(a).fns \in SUBSET Fns
  BY StateOfType DEF Locos
<1>2. g \in SUBSET Fns /\ f \in Fns
  BY RouterAssumption
<1>3. F \in SUBSET Fns
  BY <1>1, <1>2 DEF Bitmaps
<1>4. st \in Locos
  BY <1>1, <1>3 DEF Locos
<1> HIDE DEF st
<1>5. /\ Operate /\ (Tracked(a) \/ HasRoom)
      /\ locos' = [locos EXCEPT ![a] = st]
      /\ SendFunctions(a, F, toEcos \o Subscription(a) \o DriveSets(a, st))
      /\ lastSent' = [lastSent EXCEPT ![a] = F]
      /\ Subscribe(a)
      /\ shown' = [Tell(Throttles \ {t}, a, st, TRUE) EXCEPT
                      ![t][a] = OwnFunctions(t, a, g, F, st)]
      /\ Attribute(a, t, "FUNCTION")
      /\ NoteFunctionChange(a, StateOf(a).fns, F)
      /\ wish' = [wish EXCEPT ![a] = Wanted(a, t, f, F)]
      /\ Overwrite(a, ~Tracked(a), lastSent[a] = NoBaseline)
      /\ stale' = Told(IF WholeState(t) THEN Throttles ELSE Throttles \ {t}, a, TRUE)
      /\ UNCHANGED <<fromEcos, station, revived>>
  BY DEF ThrottleFunctions, st
<1>6. /\ locos' \in [Addr -> Locos \cup {NoLoco}]
      /\ Cardinality({b \in Addr : Tracked(b)})' <= MaxLocos
  BY <1>4, <1>5, StoreWithinBound DEF TrackedSet
<1>7. toEcos \o Subscription(a) \o DriveSets(a, st) \in Seq(Commands)
  BY <1>4, RequestType, DriveSetsType DEF TypeOK
<1>8. /\ toEcos' \in Seq(Commands)
      /\ fnSweep' \in FnSweeps
  BY <1>3, <1>5, <1>7, SendFunctionsType
<1>9. shown' \in [Throttles -> [Addr -> Locos]]
  <2> DEFINE told == Tell(Throttles \ {t}, a, st, TRUE)
             own == OwnFunctions(t, a, g, F, st)
  <2>1. told \in [Throttles -> [Addr -> Locos]] /\ own \in Locos
    BY <1>2, <1>3, <1>4, TellType, OwnDisplayType
  <2>2. shown' = [told EXCEPT ![t][a] = own]
    BY <1>5
  <2> QED
    BY <2>1, <2>2, DisplayUpdateType
<1>10. echo' \in [addr : Addr \cup {NoAddr}, src : Throttles \cup {NoSource},
                  type : {"SPEED", "FUNCTION"}, open : BOOLEAN]
  BY <1>5 DEF Attribute
<1>11. bits' \in [addr : Addr \cup {NoAddr}, on : SUBSET Fns, off : SUBSET Fns, open : BOOLEAN]
  BY <1>1, <1>3, <1>5, NotedType
<1>12. lastSent' \in [Addr -> (SUBSET Fns) \cup {NoBaseline}]
  BY <1>3, <1>5 DEF TypeOK
<1>13. wish[a] \in Wishes
  BY DEF TypeOK
<1>14. Wanted(a, t, f, F) \in Wishes
  BY <1>2, <1>13 DEF Wanted, Wishes
<1>15. wish' \in [Addr -> Wishes]
  BY <1>5, <1>14 DEF TypeOK
<1>16. ops' \in 0 .. MaxOps
  BY <1>5, OperateType
<1>17. baseline' \in Baselines
  BY <1>5, SubscribeType
<1>18. lost' \in [Addr -> SUBSET Keys] /\ stale' \in [Addr -> StaleDisplays]
  BY <1>5, RecordsType
<1> QED
  BY <1>5, <1>6, <1>8, <1>9, <1>10, <1>11, <1>12, <1>15, <1>16, <1>17, <1>18 DEF TypeOK

(* A throttle selects a loco, which may start tracking it. *)
LEMMA ThrottleSelectType ==
    ASSUME TypeOK, NEW t \in Throttles, NEW a \in Addr, ThrottleSelect(t, a)
    PROVE  TypeOK'
<1>1. Placeholder \in Locos
  BY RouterAssumption DEF Placeholder, Locos
<1>2. /\ shown' \in [Throttles -> [Addr -> Locos]] /\ ops' \in 0 .. MaxOps
      /\ stale' \in [Addr -> StaleDisplays]
  BY StateOfType, OperateType, RecordsType DEF ThrottleSelect, TypeOK
<1>3. CASE t # Z21_LAN /\ ~Tracked(a) /\ HasRoom
  <2>1. /\ locos' = [locos EXCEPT ![a] = Placeholder] /\ HasRoom
        /\ toEcos' = toEcos \o Request(a) /\ StartBaseline(a)
    BY <1>3 DEF ThrottleSelect
  <2>2. /\ locos' \in [Addr -> Locos \cup {NoLoco}]
        /\ Cardinality({b \in Addr : Tracked(b)})' <= MaxLocos
    BY <1>1, <2>1, StoreWithinBound DEF TrackedSet
  <2>3. toEcos' \in Seq(Commands)
    BY <2>1, RequestType DEF TypeOK
  <2>4. baseline' \in Baselines /\ lost' \in [Addr -> SUBSET Keys]
    BY <1>3, <2>1, SubscribeType, RecordsType DEF ThrottleSelect
  <2> QED
    BY <1>2, <2>2, <2>3, <2>4 DEF ThrottleSelect, TypeOK
<1>4. CASE ~(t # Z21_LAN /\ ~Tracked(a) /\ HasRoom)
  <2>1. UNCHANGED <<locos, toEcos, baseline, lost>>
    BY <1>4 DEF ThrottleSelect
  <2> QED
    BY <1>2, <2>1 DEF ThrottleSelect, TypeOK, Tracked
<1> QED
  BY <1>3, <1>4

(* A command refused by a full table changes the sender's display only. *)
LEMMA TableFullType ==
    ASSUME TypeOK, NEW t \in Throttles, NEW a \in Addr, NEW d \in Drives, TableFull(t, a, d)
    PROVE  TypeOK'
<1>1. shown[t][a] \in Locos
  BY DEF TypeOK
<1>2. DrivePart(shown[t][a], d) \in Locos
  BY <1>1 DEF DrivePart, Locos, Drives
<1>3. shown' = [shown EXCEPT ![t][a] = DrivePart(shown[t][a], d)]
  BY DEF TableFull
<1>4. shown' \in [Throttles -> [Addr -> Locos]]
  BY <1>2, <1>3, DisplayUpdateType DEF TypeOK
<1>5. ops' \in 0 .. MaxOps /\ stale' \in [Addr -> StaleDisplays]
  BY OperateType, RecordsType DEF TableFull
<1> QED
  BY <1>4, <1>5 DEF TableFull, TypeOK, Tracked

(* An event is processed: the table takes the merged state and, when it is *)
(* news, the throttles that did not cause it are told.                     *)
LEMMA StoreAndTellType ==
    ASSUME TypeOK, NEW a \in Addr, NEW st \in Locos, NEW T, NEW withFns, NEW news,
           \/ /\ Tracked(a) \/ HasRoom
              /\ locos' = [locos EXCEPT ![a] = st]
              /\ shown' = IF news THEN Tell(T, a, st, withFns) ELSE shown
              /\ stale' = IF news THEN Told(T, a, withFns) ELSE stale
           \/ UNCHANGED <<locos, shown, stale>>
    PROVE  /\ locos' \in [Addr -> Locos \cup {NoLoco}]
           /\ Cardinality({b \in Addr : Tracked(b)})' <= MaxLocos
           /\ shown' \in [Throttles -> [Addr -> Locos]]
           /\ stale' \in [Addr -> StaleDisplays]
<1>1. CASE UNCHANGED <<locos, shown, stale>>
  BY <1>1 DEF TypeOK, Tracked
<1>2. CASE /\ Tracked(a) \/ HasRoom
           /\ locos' = [locos EXCEPT ![a] = st]
           /\ shown' = IF news THEN Tell(T, a, st, withFns) ELSE shown
           /\ stale' = IF news THEN Told(T, a, withFns) ELSE stale
  <2>1. /\ locos' \in [Addr -> Locos \cup {NoLoco}]
        /\ Cardinality({b \in Addr : Tracked(b)})' <= MaxLocos
    BY <1>2, StoreWithinBound DEF TrackedSet
  <2>2. /\ Tell(T, a, st, withFns) \in [Throttles -> [Addr -> Locos]]
        /\ Told(T, a, withFns) \in [Addr -> StaleDisplays]
    BY TellType, RecordsType
  <2> QED
    BY <1>2, <2>1, <2>2 DEF TypeOK
<1> QED
  BY <1>1, <1>2

(* The next event to read is well formed, and so is the rest. *)
LEMMA HeadEventType ==
    ASSUME TypeOK, fromEcos # <<>>
    PROVE  /\ Head(fromEcos) \in Events /\ Head(fromEcos).addr \in Addr
           /\ Tail(fromEcos) \in Seq(Events)
<1>1. Head(fromEcos) \in Events /\ Tail(fromEcos) \in Seq(Events)
  BY DEF TypeOK
<1> QED
  BY <1>1 DEF Events

(* Only locos there are can come back by an event. *)
LEMMA RevivedType ==
    ASSUME TypeOK, NEW a \in Addr, Revive(a) \/ UNCHANGED revived
    PROVE  revived' \subseteq Addr
<1>1. revived \subseteq Addr
  BY DEF TypeOK
<1> QED
  BY <1>1 DEF Revive

(* A speed or direction event from ECoS. *)
LEMMA EcosDriveType ==
    ASSUME TypeOK, EcosDrive
    PROVE  TypeOK'
<1> DEFINE ev == Head(fromEcos)
           a == ev.addr
           st == DriveMerged(StateOf(a), ev)
<1>1. ev \in Events /\ a \in Addr /\ Tail(fromEcos) \in Seq(Events)
  BY HeadEventType DEF EcosDrive
<1>2. st \in Locos
  BY <1>1, StateOfType, MergedType
<1>3. \/ /\ Tracked(a) \/ HasRoom
         /\ locos' = [locos EXCEPT ![a] = st]
         /\ shown' = IF ~Tracked(a) \/ st # locos[a]
                     THEN Tell(NotEchoTo(a, {}, {}), a, st, FALSE) ELSE shown
         /\ stale' = IF ~Tracked(a) \/ st # locos[a]
                     THEN Told(NotEchoTo(a, {}, {}), a, FALSE) ELSE stale
      \/ UNCHANGED <<locos, shown, stale>>
  BY DEF EcosDrive
<1> HIDE DEF st, a, ev
<1>4. /\ locos' \in [Addr -> Locos \cup {NoLoco}]
      /\ Cardinality({b \in Addr : Tracked(b)})' <= MaxLocos
      /\ shown' \in [Throttles -> [Addr -> Locos]]
      /\ stale' \in [Addr -> StaleDisplays]
  BY <1>1, <1>2, <1>3, StoreAndTellType
<1>5. fromEcos' \in Seq(Events)
  BY <1>1 DEF EcosDrive
<1>6. Revive(a) \/ UNCHANGED revived
  BY DEF EcosDrive, a, ev
<1>7. revived' \subseteq Addr
  BY <1>1, <1>6, RevivedType
<1> QED
  BY <1>4, <1>5, <1>7 DEF EcosDrive, TypeOK

(* A function event from ECoS. *)
LEMMA EcosFunctionType ==
    ASSUME TypeOK, EcosFunction
    PROVE  TypeOK'
<1> DEFINE ev == Head(fromEcos)
           a == ev.addr
           f == ev.key
           Merge(F) == IF Meaning(f, ev.val) THEN F \cup {f} ELSE F \ {f}
           old == StateOf(a)
           st == [old EXCEPT !.fns = Merge(old.fns)]
           changed == (st.fns \ old.fns) \cup (old.fns \ st.fns)
<1>1. ev \in Events /\ a \in Addr /\ f \in Fns /\ Tail(fromEcos) \in Seq(Events)
  BY HeadEventType DEF EcosFunction
<1>2. \A F \in SUBSET Fns : Merge(F) \in SUBSET Fns
  BY <1>1
<1>3. old \in Locos
  BY <1>1, StateOfType
<1>4. \/ /\ Tracked(a) \/ HasRoom
         /\ locos' = [locos EXCEPT ![a] = st]
         /\ shown' = IF ~Tracked(a) \/ changed # {}
                     THEN Tell(NotEchoTo(a, changed, st.fns), a, st, TRUE) ELSE shown
         /\ stale' = IF ~Tracked(a) \/ changed # {}
                     THEN Told(NotEchoTo(a, changed, st.fns), a, TRUE) ELSE stale
      \/ UNCHANGED <<locos, shown, stale>>
  BY DEF EcosFunction
<1>5. \/ lastSent' = lastSent
      \/ lastSent[a] # NoBaseline /\ lastSent' = [lastSent EXCEPT ![a] = Merge(lastSent[a])]
  BY DEF EcosFunction
<1> HIDE DEF Merge
<1>6. st \in Locos
  BY <1>2, <1>3 DEF Locos
<1> HIDE DEF st, changed, old, f, a, ev
<1>7. /\ locos' \in [Addr -> Locos \cup {NoLoco}]
      /\ Cardinality({b \in Addr : Tracked(b)})' <= MaxLocos
      /\ shown' \in [Throttles -> [Addr -> Locos]]
      /\ stale' \in [Addr -> StaleDisplays]
  BY <1>1, <1>4, <1>6, StoreAndTellType
<1>8. lastSent' \in [Addr -> (SUBSET Fns) \cup {NoBaseline}]
  <2>1. CASE lastSent' = lastSent
    BY <2>1 DEF TypeOK
  <2>2. CASE lastSent[a] # NoBaseline /\ lastSent' = [lastSent EXCEPT ![a] = Merge(lastSent[a])]
    <3>1. lastSent[a] \in SUBSET Fns
      BY <1>1, <2>2 DEF TypeOK
    <3>2. Merge(lastSent[a]) \in SUBSET Fns
      BY <1>2, <3>1
    <3> QED
      BY <2>2, <3>2 DEF TypeOK
  <2> QED
    BY <1>5, <2>1, <2>2
<1>9. fromEcos' \in Seq(Events)
  BY <1>1 DEF EcosFunction, ev
<1>10. Revive(a) \/ UNCHANGED revived
  BY DEF EcosFunction, a, ev
<1>11. revived' \subseteq Addr
  BY <1>1, <1>10, RevivedType
<1> QED
  BY <1>7, <1>8, <1>9, <1>11 DEF EcosFunction, TypeOK

(* A paced sweep takes one of the properties that are left. *)
LEMMA NextKeyIsMember ==
    ASSUME NEW left, left # {}
    PROVE  NextKey(left) \in left
  BY DEF NextKey

(* One step of the baseline query and of the function sweep. *)
LEMMA PacedStepType ==
    ASSUME TypeOK, PacedStep
    PROVE  TypeOK'
<1> DEFINE k == NextKey(baseline.left)
           f == NextKey(fnSweep.left)
           get == Cmd("get", baseline.addr, k, 0)
           set == Cmd("set", fnSweep.addr, f, Raw(f, fnSweep.fns))
           gets == IF baseline.left # {} THEN <<get>> ELSE <<>>
           sets == IF fnSweep.left # {} THEN <<set>> ELSE <<>>
<1>1. gets \in Seq(Commands)
  <2> SUFFICES ASSUME baseline.left # {}
               PROVE  get \in Commands
    OBVIOUS
  <2>1. baseline.addr \in Addr /\ baseline.left \in SUBSET Keys
    BY DEF TypeOK, Baselines
  <2>2. k \in Keys
    BY <2>1, NextKeyIsMember
  <2> QED
    BY <2>1, <2>2 DEF Cmd, Commands, KeyValues
<1>2. sets \in Seq(Commands)
  <2> SUFFICES ASSUME fnSweep.left # {}
               PROVE  set \in Commands
    OBVIOUS
  <2>1. fnSweep.addr \in Addr /\ fnSweep.left \in SUBSET Fns
    BY DEF TypeOK, FnSweeps
  <2>2. f \in Fns
    BY <2>1, NextKeyIsMember
  <2> QED
    BY <2>1, <2>2, FunctionCmdType
<1>3. /\ toEcos' = toEcos \o gets \o sets
      /\ baseline' = [baseline EXCEPT !.left = @ \ {k}]
      /\ fnSweep' = [fnSweep EXCEPT !.left = @ \ {f}]
  BY DEF PacedStep
<1> HIDE DEF gets, sets, k, f
<1>4. toEcos' \in Seq(Commands)
  BY <1>1, <1>2, <1>3 DEF TypeOK
<1>5. baseline' \in Baselines /\ fnSweep' \in FnSweeps
  BY <1>3 DEF TypeOK, Baselines, FnSweeps
<1> QED
  BY <1>4, <1>5 DEF PacedStep, TypeOK, Tracked

(* The attribution windows only close. *)
LEMMA WindowClosesType ==
    ASSUME TypeOK, WindowCloses \/ BitsWindowCloses
    PROVE  TypeOK'
<1>1. bits' \in [addr : Addr \cup {NoAddr}, on : SUBSET Fns, off : SUBSET Fns, open : BOOLEAN]
  BY DEF TypeOK, WindowCloses, BitsWindowCloses
<1>2. echo' \in [addr : Addr \cup {NoAddr}, src : Throttles \cup {NoSource},
                 type : {"SPEED", "FUNCTION"}, open : BOOLEAN]
  BY DEF TypeOK, WindowCloses, BitsWindowCloses
<1> QED
  BY ZenonT(40), <1>1, <1>2 DEF WindowCloses, BitsWindowCloses, TypeOK, Tracked

(* Expiry frees a place and releases the view. *)
LEMMA ExpireType ==
    ASSUME TypeOK, NEW a \in Addr, Expire(a)
    PROVE  TypeOK'
<1>1. /\ locos' = [locos EXCEPT ![a] = NoLoco]
      /\ toEcos' = Append(toEcos, Cmd("release", a, "speed", 0))
  BY DEF Expire
<1>2. Cmd("release", a, "speed", 0) \in Commands
  BY DEF Cmd, Commands, Keys, KeyValues
<1>3. toEcos' \in Seq(Commands) /\ locos' \in [Addr -> Locos \cup {NoLoco}]
  BY <1>1, <1>2 DEF TypeOK
<1>4. TrackedSet \in SUBSET Addr /\ TrackedSet' \in SUBSET TrackedSet
  BY <1>1 DEF TrackedSet, Tracked, TypeOK
<1>5. IsFiniteSet(TrackedSet)
  BY <1>4, RouterAssumption, FS_Subset
<1>6. /\ Cardinality(TrackedSet') <= Cardinality(TrackedSet)
      /\ Cardinality(TrackedSet') \in Nat /\ Cardinality(TrackedSet) \in Nat
  BY <1>4, <1>5, FS_Subset, FS_CardinalityType
<1>7. Cardinality({b \in Addr : Tracked(b)})' <= MaxLocos
  BY <1>6, RouterAssumption DEF TrackedSet, TypeOK
<1>8. stale' \in [Addr -> StaleDisplays] /\ revived' \subseteq Addr
  BY RecordsType DEF Expire, TypeOK
<1> QED
  BY <1>3, <1>7, <1>8 DEF Expire, TypeOK

(* The station, whatever property is set to a value of that property. *)
LEMMA WithType ==
    ASSUME TypeOK, NEW a \in Addr, NEW k \in Keys, NEW v \in ValuesOf(k)
    PROVE  With(a, k, v) \in [Addr -> StationLocos]
<1>1. station[a] \in StationLocos
  BY DEF TypeOK
<1> DEFINE s == station[a]
<1>2. s.speed \in Speeds /\ s.dir \in Dirs /\ s.fns \in SUBSET Fns /\ s.viewed \in BOOLEAN
  BY <1>1 DEF StationLocos
<1>3. /\ (IF k = "speed" THEN v ELSE s.speed) \in Speeds
      /\ (IF k = "dir" THEN v ELSE s.dir) \in Dirs
      /\ WithFunction(s.fns, k, v) \in SUBSET Fns
  BY <1>2 DEF ValuesOf, WithFunction
<1>4. [speed |-> IF k = "speed" THEN v ELSE s.speed,
       dir |-> IF k = "dir" THEN v ELSE s.dir,
       fns |-> WithFunction(s.fns, k, v), viewed |-> s.viewed] \in StationLocos
  BY <1>2, <1>3 DEF StationLocos
<1> QED
  BY <1>4 DEF With, TypeOK

(* ECoS reports a property with a value of its kind. *)
LEMMA ReportType ==
    ASSUME TypeOK, NEW a \in Addr, NEW k \in Keys, NEW v \in ValuesOf(k), Report(a, k, v)
    PROVE  fromEcos' \in Seq(Events)
<1>1. v \in KeyValues
  BY RouterAssumption DEF ValuesOf, KeyValues
<1>2. Event(a, k, v) \in Events
  BY <1>1 DEF Event, Events
<1> QED
  BY <1>2 DEF Report, TypeOK

(* ECoS has a value of its kind for every property. *)
LEMMA GetType ==
    ASSUME TypeOK, NEW a \in Addr, NEW k \in Keys
    PROVE  Get(a, k) \in ValuesOf(k)
<1>1. station[a] \in StationLocos
  BY DEF TypeOK
<1> QED
  BY <1>1 DEF Get, ValuesOf, StationLocos

(* ECoS processes the next command. *)
LEMMA StationStepType ==
    ASSUME TypeOK, StationStep
    PROVE  TypeOK'
<1> DEFINE c == Head(toEcos)
<1>1. c \in Commands /\ Tail(toEcos) \in Seq(Commands)
  BY DEF StationStep, TypeOK
<1>2. c.addr \in Addr /\ c.key \in Keys /\ (c.op = "set" => c.val \in ValuesOf(c.key))
  BY <1>1 DEF Commands
<1>3. \/ /\ station' = [station EXCEPT ![c.addr].viewed = (c.op = "request")]
         /\ UNCHANGED fromEcos
      \/ Report(c.addr, c.key, Get(c.addr, c.key)) /\ UNCHANGED station
      \/ /\ c.op = "set" /\ station' = With(c.addr, c.key, c.val)
         /\ Report(c.addr, c.key, c.val) \/ UNCHANGED fromEcos
  BY DEF StationStep
<1>4. toEcos' \in Seq(Commands)
  BY <1>1 DEF StationStep
<1> HIDE DEF c
<1>5. CASE /\ station' = [station EXCEPT ![c.addr].viewed = (c.op = "request")]
           /\ UNCHANGED fromEcos
  <2>1. station[c.addr] \in StationLocos
    BY <1>2 DEF TypeOK
  <2>2. [station[c.addr] EXCEPT !.viewed = (c.op = "request")] \in StationLocos
    BY <2>1 DEF StationLocos
  <2>3. station' \in [Addr -> StationLocos]
    BY <1>5, <2>2 DEF TypeOK
  <2> QED
    BY <1>4, <1>5, <2>3 DEF StationStep, TypeOK, Tracked
<1>6. CASE Report(c.addr, c.key, Get(c.addr, c.key)) /\ UNCHANGED station
  <2>1. fromEcos' \in Seq(Events)
    BY <1>2, <1>6, GetType, ReportType
  <2> QED
    BY <1>4, <1>6, <2>1 DEF StationStep, TypeOK, Tracked
<1>7. CASE /\ c.op = "set" /\ station' = With(c.addr, c.key, c.val)
           /\ Report(c.addr, c.key, c.val) \/ UNCHANGED fromEcos
  <2>1. station' \in [Addr -> StationLocos]
    BY <1>2, <1>7, WithType
  <2>2. fromEcos' \in Seq(Events)
    BY <1>2, <1>7, ReportType DEF TypeOK
  <2> QED
    BY <1>4, <2>1, <2>2 DEF StationStep, TypeOK, Tracked
<1> QED
  BY <1>3, <1>5, <1>6, <1>7

(* The operator changes one property at the ECoS. *)
LEMMA OperatorType ==
    ASSUME TypeOK, NEW a \in Addr, NEW k \in Keys, NEW v \in ValuesOf(k), Operator(a, k, v)
    PROVE  TypeOK'
<1>1. station' \in [Addr -> StationLocos] /\ ops' \in 0 .. MaxOps
  BY WithType, OperateType DEF Operator
<1>2. fromEcos' \in Seq(Events)
  BY ReportType DEF Operator, TypeOK
<1>3. wish[a] \in Wishes
  BY DEF TypeOK
<1>4. [wish[a] EXCEPT !.drive = IF k \in Fns THEN @ ELSE NoLoco,
                      !.on = @ \ {k}, !.off = @ \ {k}] \in Wishes
  BY <1>3 DEF Wishes
<1>5. wish' = [wish EXCEPT ![a] = [wish[a] EXCEPT
                  !.drive = IF k \in Fns THEN @ ELSE NoLoco,
                  !.on = @ \ {k}, !.off = @ \ {k}]]
  BY DEF Operator, TypeOK
<1>6. wish' \in [Addr -> Wishes]
  BY <1>4, <1>5 DEF TypeOK
<1> QED
  BY <1>1, <1>2, <1>6 DEF Operator, TypeOK, Tracked

-----------------------------------------------------------------------------
(* Every step keeps the state well formed. *)
LEMMA NextType == TypeOK /\ [Next]_vars => TypeOK'
<1> SUFFICES ASSUME TypeOK, [Next]_vars
             PROVE  TypeOK'
  OBVIOUS
<1>1. CASE \E t \in Throttles, a \in Addr, d \in Drives : ThrottleDrive(t, a, d)
  BY <1>1, ThrottleDriveType
<1>2. CASE \E t \in Throttles, a \in Addr, g \in FnGroups : \E f \in g :
              \E F \in Bitmaps(t, a, g, f) : ThrottleFunctions(t, a, g, f, F)
  BY <1>2, ThrottleFunctionsType
<1>3. CASE \E t \in Throttles, a \in Addr : ThrottleSelect(t, a)
  BY <1>3, ThrottleSelectType
<1>4. CASE \E t \in Throttles, a \in Addr, d \in Drives : TableFull(t, a, d)
  BY <1>4, TableFullType
<1>5. CASE EcosDrive
  BY <1>5, EcosDriveType
<1>6. CASE EcosFunction
  BY <1>6, EcosFunctionType
<1>7. CASE PacedStep
  BY <1>7, PacedStepType
<1>8. CASE WindowCloses \/ BitsWindowCloses
  BY <1>8, WindowClosesType
<1>9. CASE \E a \in IdleAddr : Expire(a)
  BY <1>9, ExpireType, RouterAssumption
<1>10. CASE StationStep
  BY <1>10, StationStepType
<1>11. CASE \E a \in OperatorAddr, k \in Keys : \E v \in ValuesOf(k) : Operator(a, k, v)
  BY <1>11, OperatorType, RouterAssumption
<1>12. CASE UNCHANGED vars
  BY <1>12 DEF vars, TypeOK, Tracked
<1> QED
  BY <1>1, <1>2, <1>3, <1>4, <1>5, <1>6, <1>7, <1>8, <1>9, <1>10, <1>11, <1>12 DEF Next

(* Everything the router and the connection hold is well formed, and the   *)
(* table stays within MAX_LOCOS whatever throttles, events and time do.    *)
THEOREM TypeCorrect == Spec => []TypeOK
<1>1. Init => TypeOK
  BY InitType
<1>2. TypeOK /\ [Next]_vars => TypeOK'
  BY NextType
<1> QED
  BY <1>1, <1>2, PTL DEF Spec

-----------------------------------------------------------------------------
(***************************************************************************)
(* Agreement between table and ECoS.  Per loco: what is on its way to ECoS *)
(* and back, whether ECoS will have a view of it, what it has still to be  *)
(* asked or told; and, for every property that is not to be asked any      *)
(* more, that the table follows.                                           *)
(***************************************************************************)
IsCmd(c, op, a) == c.op = op /\ c.addr = a
IsSet(c, a, k) == c.op = "set" /\ c.addr = a /\ c.key = k
IsGet(c, a, k) == c.op = "get" /\ c.addr = a /\ c.key = k
IsAbout(e, a, k) == e.addr = a /\ e.key = k

HasRequest(a) == \E i \in DOMAIN toEcos : IsCmd(toEcos[i], "request", a)
HasGet(a, k) == \E i \in DOMAIN toEcos : IsGet(toEcos[i], a, k)
HasSet(a, k) == \E i \in DOMAIN toEcos : IsSet(toEcos[i], a, k)
HasEvent(a, k) == \E i \in DOMAIN fromEcos : IsAbout(fromEcos[i], a, k)

\* Once ECoS has processed what is on its way to it, it has a view of a.
ReleasesUndone(a) ==
    \A i \in DOMAIN toEcos : IsCmd(toEcos[i], "release", a)
        => \E j \in DOMAIN toEcos : j > i /\ IsCmd(toEcos[j], "request", a)
WillView(a) == ReleasesUndone(a) /\ (station[a].viewed \/ HasRequest(a))

\* ECoS has still to be asked for the property, or to be told of a change.
ToBeAsked(a, k) == baseline.addr = a /\ k \in baseline.left
Asked(a, k) == ToBeAsked(a, k) \/ HasGet(a, k)
ToBeSent(a, k) ==
    k \in fnSweep.left /\ fnSweep.addr = a /\ Raw(k, fnSweep.fns) # Get(a, k)
ChangeSent(a, k) ==
    \E i \in DOMAIN toEcos : IsSet(toEcos[i], a, k) /\ toEcos[i].val # Get(a, k)
WillChange(a, k) == ChangeSent(a, k) \/ ToBeSent(a, k)

\* The last event about a property has the value ECoS has; without one the
\* table has it, unless a change is on its way that will be reported.
LastEventTrue(a, k) ==
    \A i \in DOMAIN fromEcos :
        (IsAbout(fromEcos[i], a, k) /\ fromEcos[i].val # Get(a, k))
            => \E j \in DOMAIN fromEcos : j > i /\ IsAbout(fromEcos[j], a, k)
TableTrue(a, k) == HasEvent(a, k) \/ Value(a, k) = Get(a, k) \/ WillChange(a, k)
\* Differences are sent to what ECoS was told last: that is the table's.
SentIsStored(a, k) ==
    (k \in Fns /\ lastSent[a] # NoBaseline /\ ~HasEvent(a, k))
        => (k \in lastSent[a] <=> k \in locos[a].fns)
Followed(a, k) == LastEventTrue(a, k) /\ TableTrue(a, k) /\ SentIsStored(a, k)

\* Every property is asked for after the request of the view.
QuerySound(a, k) ==
    \A i \in DOMAIN toEcos : IsCmd(toEcos[i], "request", a)
        => \/ ToBeAsked(a, k)
           \/ \E j \in DOMAIN toEcos : j > i /\ IsGet(toEcos[j], a, k)
ViewSound(a) == WillView(a) => Tracked(a)
PropertySound(a, k) ==
    /\ QuerySound(a, k)
    /\ WillView(a) /\ ~Asked(a, k) => Followed(a, k)
Agrees(a) == ViewSound(a) /\ \A k \in Keys \ lost[a] : PropertySound(a, k)
AgreeInv == TypeOK /\ \A a \in Addr : Agrees(a)

-----------------------------------------------------------------------------
(* What is written to the socket stands behind all that is there. *)
LEMMA Written ==
    ASSUME toEcos \in Seq(Commands), NEW s \in Seq(Commands), toEcos' = toEcos \o s
    PROVE  /\ \A i \in DOMAIN toEcos : i \in DOMAIN toEcos' /\ toEcos'[i] = toEcos[i]
           /\ \A i \in DOMAIN toEcos' :
                 i \in DOMAIN toEcos \/ \E j \in DOMAIN s : toEcos'[i] = s[j]
           /\ \A j \in DOMAIN s : \E i \in DOMAIN toEcos' :
                 toEcos'[i] = s[j] /\ \A h \in DOMAIN toEcos : i > h
<1> DEFINE q == toEcos
           r == q \o s
<1>1. /\ Len(q) \in Nat /\ Len(s) \in Nat /\ Len(r) = Len(q) + Len(s)
      /\ DOMAIN q = 1 .. Len(q) /\ DOMAIN s = 1 .. Len(s) /\ DOMAIN r = 1 .. Len(r)
      /\ \A i \in 1 .. Len(q) : r[i] = q[i]
      /\ \A i \in 1 .. Len(r) : i > Len(q) => r[i] = s[i - Len(q)]
      /\ \A j \in 1 .. Len(s) : r[Len(q) + j] = s[j]
  OBVIOUS
<1> HIDE DEF q, r
<1>2. ASSUME NEW i \in DOMAIN r, i \notin DOMAIN q
      PROVE  \E j \in DOMAIN s : r[i] = s[j]
  <2>1. i - Len(q) \in DOMAIN s /\ r[i] = s[i - Len(q)]
    BY <1>1, <1>2
  <2> QED
    BY <2>1
<1>3. ASSUME NEW j \in DOMAIN s
      PROVE  \E i \in DOMAIN r : r[i] = s[j] /\ \A h \in DOMAIN q : i > h
  <2>1. /\ Len(q) + j \in DOMAIN r /\ r[Len(q) + j] = s[j]
        /\ \A h \in DOMAIN q : Len(q) + j > h
    BY <1>1
  <2> QED
    BY <2>1
<1>4. \A i \in DOMAIN q : i \in DOMAIN r /\ r[i] = q[i]
  BY <1>1
<1> QED
  BY <1>2, <1>3, <1>4 DEF q, r

(* What ECoS reports stands behind what it reported before. *)
LEMMA Reported ==
    ASSUME fromEcos \in Seq(Events), NEW e, fromEcos' = Append(fromEcos, e)
    PROVE  \E n \in Nat :
              /\ n \in DOMAIN fromEcos' /\ fromEcos'[n] = e /\ n \notin DOMAIN fromEcos
              /\ \A i \in DOMAIN fromEcos :
                    n > i /\ i \in DOMAIN fromEcos' /\ fromEcos'[i] = fromEcos[i]
              /\ \A i \in DOMAIN fromEcos' : i = n \/ i \in DOMAIN fromEcos
<1> DEFINE q == fromEcos
           n == Len(q) + 1
<1>1. /\ n \in Nat /\ n \in DOMAIN Append(q, e) /\ Append(q, e)[n] = e /\ n \notin DOMAIN q
      /\ \A i \in DOMAIN q :
            n > i /\ i \in DOMAIN Append(q, e) /\ Append(q, e)[i] = q[i]
      /\ \A i \in DOMAIN Append(q, e) : i = n \/ i \in DOMAIN q
  OBVIOUS
<1> QED
  BY <1>1

(* Processing the first of a sequence shifts the rest. *)
LEMMA Processed ==
    ASSUME toEcos \in Seq(Commands), toEcos # <<>>, toEcos' = Tail(toEcos)
    PROVE  /\ 1 \in DOMAIN toEcos /\ toEcos[1] = Head(toEcos)
           /\ \A i \in DOMAIN toEcos' :
                 i \in Nat /\ i + 1 \in DOMAIN toEcos /\ toEcos'[i] = toEcos[i + 1]
           /\ \A i \in DOMAIN toEcos : i \in Nat
                 /\ (i # 1 => i - 1 \in DOMAIN toEcos' /\ toEcos'[i - 1] = toEcos[i])
  OBVIOUS

(* Reading takes the first event off the wire. *)
LEMMA Consumed ==
    ASSUME fromEcos \in Seq(Events), fromEcos # <<>>, fromEcos' = Tail(fromEcos)
    PROVE  /\ 1 \in DOMAIN fromEcos /\ fromEcos[1] = Head(fromEcos)
           /\ \A i \in DOMAIN fromEcos' :
                 i \in Nat /\ i + 1 \in DOMAIN fromEcos /\ fromEcos'[i] = fromEcos[i + 1]
           /\ \A i \in DOMAIN fromEcos : i \in Nat
                 /\ (i # 1 => i - 1 \in DOMAIN fromEcos' /\ fromEcos'[i - 1] = fromEcos[i])
  OBVIOUS

(* Writing commands that neither request nor release a loco leaves its view. *)
LEMMA ViewKept ==
    ASSUME NEW b \in Addr, toEcos \in Seq(Commands), NEW s \in Seq(Commands),
           toEcos' = toEcos \o s,
           \A j \in DOMAIN s : ~IsCmd(s[j], "request", b) /\ ~IsCmd(s[j], "release", b),
           station'[b].viewed = station[b].viewed
    PROVE  /\ WillView(b)' <=> WillView(b)
           /\ \A i \in DOMAIN toEcos' : IsCmd(toEcos'[i], "request", b)
                 => i \in DOMAIN toEcos /\ IsCmd(toEcos[i], "request", b)
<1>1. /\ \A i \in DOMAIN toEcos : i \in DOMAIN toEcos' /\ toEcos'[i] = toEcos[i]
      /\ \A i \in DOMAIN toEcos' : i \in DOMAIN toEcos \/ \E j \in DOMAIN s : toEcos'[i] = s[j]
  BY Written
<1>2. \A i \in DOMAIN toEcos' :
         (IsCmd(toEcos'[i], "request", b) \/ IsCmd(toEcos'[i], "release", b))
            => i \in DOMAIN toEcos /\ toEcos'[i] = toEcos[i]
  BY <1>1
<1>3. HasRequest(b)' <=> HasRequest(b)
  BY <1>1, <1>2 DEF HasRequest
<1>4. ReleasesUndone(b)' <=> ReleasesUndone(b)
  BY <1>1, <1>2 DEF ReleasesUndone
<1> QED
  BY <1>2, <1>3, <1>4 DEF WillView

(* While ECoS stays as it is and nothing arrives from it, a property stays  *)
(* sound if what was to be asked is asked or still to be asked, and the    *)
(* table goes on following where it did.                                   *)
LEMMA PropertyKept ==
    ASSUME NEW b \in Addr, NEW k \in Keys, PropertySound(b, k),
           toEcos \in Seq(Commands), NEW s \in Seq(Commands), toEcos' = toEcos \o s,
           \A j \in DOMAIN s : ~IsCmd(s[j], "request", b) /\ ~IsCmd(s[j], "release", b),
           UNCHANGED station,
           ToBeAsked(b, k) => ToBeAsked(b, k)' \/ \E j \in DOMAIN s : IsGet(s[j], b, k),
           WillView(b) /\ ~Asked(b, k) /\ Followed(b, k) => Followed(b, k)'
    PROVE  PropertySound(b, k)'
<1>1. /\ \A i \in DOMAIN toEcos : i \in DOMAIN toEcos' /\ toEcos'[i] = toEcos[i]
      /\ \A j \in DOMAIN s : \E i \in DOMAIN toEcos' :
            toEcos'[i] = s[j] /\ \A h \in DOMAIN toEcos : i > h
  BY Written
<1>2. /\ WillView(b)' <=> WillView(b)
      /\ \A i \in DOMAIN toEcos' : IsCmd(toEcos'[i], "request", b)
            => i \in DOMAIN toEcos /\ IsCmd(toEcos[i], "request", b)
  BY ViewKept
<1>3. HasGet(b, k) => HasGet(b, k)'
  BY <1>1 DEF HasGet
<1>4. Asked(b, k) => Asked(b, k)'
  BY <1>1, <1>3 DEF Asked, HasGet
<1>5. QuerySound(b, k)'
  <2> SUFFICES ASSUME NEW i \in DOMAIN toEcos', IsCmd(toEcos'[i], "request", b),
                      ~ToBeAsked(b, k)'
               PROVE  \E j \in DOMAIN toEcos' : j > i /\ IsGet(toEcos'[j], b, k)
    BY DEF QuerySound
  <2>1. i \in DOMAIN toEcos /\ IsCmd(toEcos[i], "request", b)
    BY <1>2
  <2>2. CASE ToBeAsked(b, k)
    <3>1. PICK j \in DOMAIN s : IsGet(s[j], b, k)
      BY <2>2
    <3> QED
      BY <1>1, <2>1, <3>1
  <2>3. CASE ~ToBeAsked(b, k)
    <3>1. PICK j \in DOMAIN toEcos : j > i /\ IsGet(toEcos[j], b, k)
      BY <2>1, <2>3 DEF PropertySound, QuerySound
    <3> QED
      BY <1>1, <3>1
  <2> QED
    BY <2>2, <2>3
<1> QED
  BY <1>2, <1>4, <1>5 DEF PropertySound

(* A change that was to be sent is sent or still to be sent. *)
LEMMA WillChangeKept ==
    ASSUME NEW b, NEW k,
           toEcos \in Seq(Commands), NEW s \in Seq(Commands), toEcos' = toEcos \o s,
           UNCHANGED station,
           ToBeSent(b, k) =>
              ToBeSent(b, k)' \/ \E j \in DOMAIN s : IsSet(s[j], b, k) /\ s[j].val # Get(b, k)
    PROVE  WillChange(b, k) => WillChange(b, k)'
<1>1. /\ \A i \in DOMAIN toEcos : i \in DOMAIN toEcos' /\ toEcos'[i] = toEcos[i]
      /\ \A j \in DOMAIN s : \E i \in DOMAIN toEcos' : toEcos'[i] = s[j]
  BY Written
<1>2. Get(b, k)' = Get(b, k)
  BY DEF Get
<1>3. ChangeSent(b, k) => ChangeSent(b, k)'
  BY <1>1, <1>2 DEF ChangeSent
<1>4. (\E j \in DOMAIN s : IsSet(s[j], b, k) /\ s[j].val # Get(b, k)) => ChangeSent(b, k)'
  BY <1>1, <1>2 DEF ChangeSent
<1> QED
  BY <1>3, <1>4 DEF WillChange

(* Nothing about the loco changes in the table, at ECoS or on the way from *)
(* there: its property is followed as before.                              *)
LEMMA FollowedKept ==
    ASSUME NEW b, NEW k, Followed(b, k),
           UNCHANGED <<station, fromEcos>>,
           locos'[b] = locos[b], lastSent'[b] = lastSent[b],
           WillChange(b, k) => WillChange(b, k)'
    PROVE  Followed(b, k)'
<1>1. Get(b, k)' = Get(b, k)
  BY DEF Get
<1>2. Value(b, k)' = Value(b, k)
  BY DEF Value, Raw
<1>3. HasEvent(b, k)' <=> HasEvent(b, k)
  BY DEF HasEvent
<1>4. LastEventTrue(b, k)'
  BY <1>1 DEF Followed, LastEventTrue
<1>5. TableTrue(b, k)'
  BY <1>1, <1>2, <1>3 DEF Followed, TableTrue
<1>6. SentIsStored(b, k)'
  BY <1>3 DEF Followed, SentIsStored
<1> QED
  BY <1>4, <1>5, <1>6 DEF Followed

(* A loco that an action is not about stays in agreement.                  *)
LEMMA OthersAgree ==
    ASSUME NEW b \in Addr, Agrees(b),
           toEcos \in Seq(Commands), NEW s \in Seq(Commands), toEcos' = toEcos \o s,
           \A j \in DOMAIN s : ~IsCmd(s[j], "request", b) /\ ~IsCmd(s[j], "release", b),
           UNCHANGED <<station, fromEcos>>,
           locos'[b] = locos[b], lastSent'[b] = lastSent[b], lost[b] \subseteq lost'[b],
           \A k \in Keys \ lost'[b] :
              /\ ToBeAsked(b, k) =>
                    ToBeAsked(b, k)' \/ \E j \in DOMAIN s : IsGet(s[j], b, k)
              /\ ToBeSent(b, k) =>
                    \/ ToBeSent(b, k)'
                    \/ \E j \in DOMAIN s : IsSet(s[j], b, k) /\ s[j].val # Get(b, k)
    PROVE  Agrees(b)'
<1>1. WillView(b)' <=> WillView(b)
  BY ViewKept
<1>2. ViewSound(b)'
  BY <1>1 DEF Agrees, ViewSound, Tracked
<1>3. ASSUME NEW k \in Keys \ lost'[b]
      PROVE  PropertySound(b, k)'
  <2>1. PropertySound(b, k)
    BY <1>3 DEF Agrees
  <2>2. WillChange(b, k) => WillChange(b, k)'
    BY <1>3, WillChangeKept
  <2>3. Followed(b, k) => Followed(b, k)'
    BY <2>2, FollowedKept
  <2> QED
    BY <1>3, <2>1, <2>3, PropertyKept
<1> QED
  BY <1>2, <1>3 DEF Agrees, Keys

(* A loco whose view has just been requested is asked for everything.      *)
LEMMA RequestedAgrees ==
    ASSUME NEW a \in Addr, Tracked(a)', baseline' = [addr |-> a, left |-> Keys]
    PROVE  Agrees(a)'
<1>1. \A k \in Keys : ToBeAsked(a, k)' /\ Asked(a, k)'
  BY DEF ToBeAsked, Asked
<1>2. \A k \in Keys : PropertySound(a, k)'
  BY <1>1 DEF PropertySound, QuerySound
<1> QED
  BY <1>2 DEF Agrees, ViewSound, Keys

(* A tracked loco that receives a command stays in agreement if the table  *)
(* goes on following where it did.                                         *)
LEMMA CommandedAgrees ==
    ASSUME NEW a \in Addr, Agrees(a), Tracked(a)',
           toEcos \in Seq(Commands), NEW s \in Seq(Commands), toEcos' = toEcos \o s,
           \A j \in DOMAIN s : s[j].op = "set",
           UNCHANGED <<station, baseline>>, lost[a] \subseteq lost'[a],
           \A k \in Keys : WillView(a) /\ ~Asked(a, k) /\ Followed(a, k) => Followed(a, k)'
    PROVE  Agrees(a)'
<1>1. \A j \in DOMAIN s : ~IsCmd(s[j], "request", a) /\ ~IsCmd(s[j], "release", a)
  BY DEF IsCmd
<1>2. ASSUME NEW k \in Keys \ lost'[a]
      PROVE  PropertySound(a, k)'
  <2>1. PropertySound(a, k)
    BY <1>2 DEF Agrees
  <2>2. ToBeAsked(a, k) => ToBeAsked(a, k)'
    BY DEF ToBeAsked
  <2> QED
    BY <1>1, <1>2, <2>1, <2>2, PropertyKept
<1> QED
  BY <1>2 DEF Agrees, ViewSound, Keys

-----------------------------------------------------------------------------
(* What the commands of one message are about. *)
DriveValue(d, k) == IF k = "speed" THEN d.speed ELSE d.dir

(* Everything written is there after both parts, and nothing else is. *)
LEMMA Joined ==
    ASSUME NEW x \in Seq(Commands), NEW y \in Seq(Commands)
    PROVE  /\ x \o y \in Seq(Commands) /\ x \o <<>> = x /\ <<>> \o y = y
           /\ \A j \in DOMAIN (x \o y) : \/ \E i \in DOMAIN x : (x \o y)[j] = x[i]
                                         \/ \E i \in DOMAIN y : (x \o y)[j] = y[i]
           /\ \A i \in DOMAIN x : \E j \in DOMAIN (x \o y) : (x \o y)[j] = x[i]
           /\ \A i \in DOMAIN y : \E j \in DOMAIN (x \o y) : (x \o y)[j] = y[i]
<1> DEFINE r == x \o y
<1>1. /\ Len(x) \in Nat /\ Len(y) \in Nat /\ Len(r) = Len(x) + Len(y) /\ r \in Seq(Commands)
      /\ DOMAIN x = 1 .. Len(x) /\ DOMAIN y = 1 .. Len(y) /\ DOMAIN r = 1 .. Len(r)
      /\ \A i \in 1 .. Len(x) : r[i] = x[i]
      /\ \A i \in 1 .. Len(r) : i > Len(x) => r[i] = y[i - Len(x)]
      /\ \A j \in 1 .. Len(y) : r[Len(x) + j] = y[j]
  OBVIOUS
<1>3. x \o <<>> = x /\ <<>> \o y = y
  OBVIOUS
<1> HIDE DEF r
<1>4. ASSUME NEW j \in DOMAIN r
      PROVE  (\E i \in DOMAIN x : r[j] = x[i]) \/ (\E i \in DOMAIN y : r[j] = y[i])
  <2>1. CASE j \in DOMAIN x
    BY <1>1, <2>1
  <2>2. CASE j \notin DOMAIN x
    <3>1. j - Len(x) \in DOMAIN y /\ r[j] = y[j - Len(x)]
      BY <1>1, <2>2
    <3> QED
      BY <3>1
  <2> QED
    BY <2>1, <2>2
<1>5. \A i \in DOMAIN x : \E j \in DOMAIN r : r[j] = x[i]
  BY <1>1
<1>6. ASSUME NEW i \in DOMAIN y
      PROVE  \E j \in DOMAIN r : r[j] = y[i]
  <2>1. Len(x) + i \in DOMAIN r /\ r[Len(x) + i] = y[i]
    BY <1>1
  <2> QED
    BY <2>1
<1>7. r \in Seq(Commands)
  BY <1>1
<1> QED
  BY <1>3, <1>4, <1>5, <1>6, <1>7 DEF r

(* Writing twice is writing both at once. *)
LEMMA JoinedTwice ==
    ASSUME NEW q \in Seq(Commands), NEW x \in Seq(Commands), NEW y \in Seq(Commands)
    PROVE  (q \o x) \o y = q \o (x \o y)
  OBVIOUS

(* A subscription is about its loco, and empty for a tracked one. *)
LEMMA SubscriptionContents ==
    ASSUME NEW a \in Addr
    PROVE  /\ \A j \in DOMAIN Subscription(a) : Subscription(a)[j].addr = a
           /\ \A j \in DOMAIN Request(a) : Request(a)[j].addr = a
           /\ Tracked(a) => Subscription(a) = <<>>
  BY DEF Subscription, Request, Cmd

(* A drive command is one set of the speed and one of the direction. *)
LEMMA DriveContents ==
    ASSUME NEW a \in Addr, NEW d
    PROVE  /\ \A j \in DOMAIN DriveSets(a, d) :
                 \E k \in {"speed", "dir"} :
                    DriveSets(a, d)[j] = Cmd("set", a, k, DriveValue(d, k))
           /\ \A k \in {"speed", "dir"} : \E j \in DOMAIN DriveSets(a, d) :
                 DriveSets(a, d)[j] = Cmd("set", a, k, DriveValue(d, k))
<1> DEFINE s == DriveSets(a, d)
<1>1. /\ DOMAIN s = 1 .. 2
      /\ s[1] = Cmd("set", a, "dir", d.dir) /\ s[2] = Cmd("set", a, "speed", d.speed)
  BY DEF DriveSets
<1>2. DriveValue(d, "dir") = d.dir /\ DriveValue(d, "speed") = d.speed
  BY DEF DriveValue
<1>3. \A j \in DOMAIN s : j = 1 \/ j = 2
  BY <1>1
<1>4. 1 \in DOMAIN s /\ 2 \in DOMAIN s
  BY <1>1
<1> HIDE DEF s
<1> QED
  BY <1>1, <1>2, <1>3, <1>4 DEF s

(* All of a finite set is in its listing. *)
LEMMA SetToSeqCovers ==
    ASSUME NEW S, IsFiniteSet(S)
    PROVE  \A x \in S : \E i \in DOMAIN SetToSeq(S) : SetToSeq(S)[i] = x
<1> DEFINE h == SetToSeq(S)
<1>1. Cardinality(S) \in Nat /\ ExistsBijection(1 .. Cardinality(S), S)
  BY FS_CardinalityType
<1>2. PICK f \in [1 .. Cardinality(S) -> S] :
         \A i, j \in 1 .. Cardinality(S) : f[i] = f[j] => i = j
  BY <1>1 DEF ExistsBijection, Bijection, Injection, IsInjective
<1>3. h \in [1 .. Cardinality(S) -> S]
  BY <1>2 DEF SetToSeq, IsInjective
<1>4. IsInjective(h)
  <2>1. IsInjective(f)
    BY <1>2 DEF IsInjective
  <2> QED
    BY <2>1 DEF SetToSeq
<1>5. Cardinality(1 .. Cardinality(S)) = Cardinality(S)
  BY <1>1, FS_Interval
<1> HIDE DEF h
<1>6. h \in Injection(1 .. Cardinality(S), S)
  BY <1>3, <1>4 DEF Injection
<1>7. h \in Surjection(1 .. Cardinality(S), S)
  BY <1>5, <1>6, FS_Injection
<1> QED
  BY <1>3, <1>7 DEF Surjection, h

(* A bitmap is sent as one set for each function that changed, and no other. *)
LEMMA FunctionContents ==
    ASSUME NEW a \in Addr, NEW F \in SUBSET Fns, lastSent[a] \in SUBSET Fns
    PROVE  /\ \A j \in DOMAIN FunctionSets(a, F) :
                 \E f \in Fns : FunctionSets(a, F)[j] = Cmd("set", a, f, Raw(f, F))
           /\ \A f \in Fns : (f \in F) # (f \in lastSent[a]) =>
                 \E j \in DOMAIN FunctionSets(a, F) :
                    FunctionSets(a, F)[j] = Cmd("set", a, f, Raw(f, F))
<1> DEFINE D == (F \ lastSent[a]) \cup (lastSent[a] \ F)
           order == SetToSeq(D)
<1>1. D \in SUBSET Fns
  OBVIOUS
<1>2. IsFiniteSet(D)
  BY <1>1, RouterAssumption, FS_Subset
<1>3. order \in Seq(D) /\ \A f \in D : \E i \in DOMAIN order : order[i] = f
  BY <1>2, SetToSeqType, SetToSeqCovers
<1>4. FunctionSets(a, F) = [i \in DOMAIN order |-> Cmd("set", a, order[i], Raw(order[i], F))]
  BY DEF FunctionSets
<1>5. \A f \in Fns : (f \in F) # (f \in lastSent[a]) => f \in D
  OBVIOUS
<1> HIDE DEF order, D
<1>6. \A i \in DOMAIN order : order[i] \in Fns
  BY <1>1, <1>3
<1> QED
  BY <1>3, <1>4, <1>5, <1>6

(* A query or a first bitmap that is overwritten is recorded as lost. *)
LEMMA OverwrittenIsLost ==
    ASSUME NEW a \in Addr, NEW b \in Addr, a # b, UNCHANGED station,
           UNCHANGED baseline \/ (baseline.addr = b => baseline.left \subseteq lost'[b]),
           UNCHANGED fnSweep \/ (fnSweep.addr = b => fnSweep.left \subseteq lost'[b])
    PROVE  /\ \A k \in Keys \ lost'[b] : /\ ToBeAsked(b, k) => ToBeAsked(b, k)'
                                         /\ ToBeSent(b, k) => ToBeSent(b, k)'
<1>1. \A k \in Keys : Get(b, k)' = Get(b, k)
  BY DEF Get
<1> QED
  BY <1>1 DEF ToBeAsked, ToBeSent, Raw

(* A throttle drives a loco: its table entry, its commands and nothing else. *)
LEMMA DriveAgreed ==
    ASSUME AgreeInv, NEW t \in Throttles, NEW a \in Addr, NEW d \in Drives,
           ThrottleDrive(t, a, d)
    PROVE  \A b \in Addr : Agrees(b)'
<1> DEFINE st == [speed |-> d.speed, dir |-> d.dir, fns |-> StateOf(a).fns]
           s == Subscription(a) \o DriveSets(a, st)
<1>1. /\ TypeOK /\ toEcos \in Seq(Commands) /\ \A b \in Addr : Agrees(b)
      /\ locos \in [Addr -> Locos \cup {NoLoco}]
  BY DEF AgreeInv, TypeOK
<1>2. st \in Locos
  BY <1>1, StateOfType DEF Locos, Drives
<1>3. Subscription(a) \in Seq(Commands) /\ DriveSets(a, st) \in Seq(Commands)
  BY <1>2, RequestType, DriveSetsType
<1>4. /\ locos' = [locos EXCEPT ![a] = st]
      /\ toEcos' = toEcos \o Subscription(a) \o DriveSets(a, st)
      /\ Subscribe(a) /\ Overwrite(a, ~Tracked(a), FALSE)
      /\ UNCHANGED <<bits, lastSent, fnSweep, fromEcos, station>>
  BY DEF ThrottleDrive
<1>5. s \in Seq(Commands) /\ toEcos' = toEcos \o s
  <2>1. s \in Seq(Commands)
    BY <1>3, Joined
  <2>2. (toEcos \o Subscription(a)) \o DriveSets(a, st) = toEcos \o s
    BY <1>1, <1>3, JoinedTwice
  <2> QED
    BY <1>4, <2>1, <2>2
<1>6. \A j \in DOMAIN s : s[j].addr = a
  <2>1. \A j \in DOMAIN DriveSets(a, st) : DriveSets(a, st)[j].addr = a
    BY DriveContents DEF Cmd
  <2> QED
    BY <1>3, <2>1, SubscriptionContents, Joined
<1>7. Tracked(a) => s = DriveSets(a, st)
  BY <1>3, SubscriptionContents, Joined
<1>8. locos'[a] = st /\ \A b \in Addr : b # a => locos'[b] = locos[b]
  BY <1>1, <1>4
<1>9. Tracked(a)'
  <2>1. st # NoLoco
    BY <1>2, RouterAssumption
  <2> QED
    BY <1>8, <2>1 DEF Tracked
<1> HIDE DEF s
<1>10. ASSUME NEW b \in Addr, b # a
       PROVE  Agrees(b)'
  <2>1. Agrees(b) /\ locos'[b] = locos[b] /\ lastSent'[b] = lastSent[b]
    BY <1>1, <1>4, <1>8, <1>10
  <2>2. ~Tracked(a) \/ UNCHANGED baseline
    BY <1>4 DEF Subscribe
  <2>3. /\ lost[b] \subseteq lost'[b]
        /\ \A k \in Keys \ lost'[b] : /\ ToBeAsked(b, k) => ToBeAsked(b, k)'
                                      /\ ToBeSent(b, k) => ToBeSent(b, k)'
    <3>1. /\ lost[b] \subseteq lost'[b]
          /\ ~Tracked(a) /\ baseline.addr = b => baseline.left \subseteq lost'[b]
      BY <1>4, <1>10 DEF Overwrite
    <3>2. UNCHANGED baseline \/ (baseline.addr = b => baseline.left \subseteq lost'[b])
      BY <2>2, <3>1
    <3>3. UNCHANGED station /\ UNCHANGED fnSweep /\ a # b
      BY <1>4, <1>10
    <3>4. \A k \in Keys \ lost'[b] : /\ ToBeAsked(b, k) => ToBeAsked(b, k)'
                                     /\ ToBeSent(b, k) => ToBeSent(b, k)'
      BY <3>2, <3>3, OverwrittenIsLost
    <3> QED
      BY <3>1, <3>4
  <2>4. \A j \in DOMAIN s : ~IsCmd(s[j], "request", b) /\ ~IsCmd(s[j], "release", b)
    BY <1>6, <1>10 DEF IsCmd
  <2> QED
    BY <1>1, <1>4, <1>5, <2>1, <2>3, <2>4, OthersAgree
<1>11. CASE ~Tracked(a)
  <2>1. baseline' = [addr |-> a, left |-> Keys]
    BY <1>4, <1>11 DEF Subscribe, StartBaseline
  <2> QED
    BY <1>9, <1>10, <2>1, RequestedAgrees
<1>12. CASE Tracked(a)
  <2>1. UNCHANGED <<station, baseline, fnSweep, fromEcos>> /\ lost[a] \subseteq lost'[a]
        /\ lastSent'[a] = lastSent[a]
    BY <1>1, <1>4, <1>12 DEF Subscribe, Overwrite
  <2>2. \A j \in DOMAIN s : s[j].op = "set"
    BY <1>7, <1>12, DriveContents DEF Cmd
  <2>3. st.fns = locos[a].fns
    BY <1>12 DEF StateOf
  <2>4. ASSUME NEW k \in Keys, Followed(a, k)
        PROVE  Followed(a, k)'
    <3>1. WillChange(a, k) => WillChange(a, k)'
      <4>1. ToBeSent(a, k) => ToBeSent(a, k)'
        BY <2>1 DEF ToBeSent, Get, Raw
      <4> QED
        BY <1>1, <1>5, <2>1, <4>1, WillChangeKept
    <3>2. Get(a, k)' = Get(a, k) /\ (HasEvent(a, k)' <=> HasEvent(a, k))
      BY <2>1 DEF Get, HasEvent
    <3>3. LastEventTrue(a, k)'
      BY <2>1, <2>4, <3>2 DEF Followed, LastEventTrue
    <3>4. SentIsStored(a, k)'
      BY <1>8, <2>1, <2>3, <2>4, <3>2 DEF Followed, SentIsStored
    <3>5. CASE k \in {"speed", "dir"}
      <4>1. Value(a, k)' = DriveValue(st, k)
        BY <1>8, <3>5 DEF Value, DriveValue
      <4>2. PICK j \in DOMAIN s : s[j] = Cmd("set", a, k, DriveValue(st, k))
        BY <1>7, <1>12, <3>5, DriveContents
      <4>3. \E i \in DOMAIN toEcos' : toEcos'[i] = s[j]
        BY <1>1, <1>5, Written
      <4>4. Value(a, k)' = Get(a, k)' \/ ChangeSent(a, k)'
        BY <3>2, <4>1, <4>2, <4>3 DEF ChangeSent, IsSet, Cmd
      <4> QED
        BY <3>3, <3>4, <4>4 DEF Followed, TableTrue, WillChange
    <3>6. CASE k \notin {"speed", "dir"}
      <4>1. Value(a, k)' = Value(a, k)
        BY <1>8, <2>3, <3>6 DEF Value, Raw
      <4> QED
        BY <2>4, <3>1, <3>2, <3>3, <3>4, <4>1 DEF Followed, TableTrue
    <3> QED
      BY <3>5, <3>6
  <2>5. Agrees(a)'
    BY <1>1, <1>5, <1>9, <2>1, <2>2, <2>4, CommandedAgrees
  <2> QED
    BY <1>10, <2>5
<1> QED
  BY <1>11, <1>12

(* Commands about a loco that request its view if it is new, and set its   *)
(* speed and its direction, once.                                          *)
WritesDrive(s, a, st) ==
    /\ \A j \in DOMAIN s : s[j].addr = a /\ s[j].op # "release"
    /\ ~Tracked(a) => \E j \in DOMAIN s : s[j].op = "request"
    /\ \A k \in {"speed", "dir"} :
          /\ \E j \in DOMAIN s : s[j] = Cmd("set", a, k, DriveValue(st, k))
          /\ \A j \in DOMAIN s : IsSet(s[j], a, k) => s[j].val = DriveValue(st, k)
(* Nothing but set() for a loco in the table, and every function that      *)
(* differs from what was sent.                                             *)
WritesFunctions(s, a, F) ==
    /\ Tracked(a) => \A j \in DOMAIN s : s[j].op = "set"
    /\ lastSent[a] # NoBaseline =>
          \A f \in Fns : (f \in F) # (f \in lastSent[a]) =>
             \E j \in DOMAIN s : s[j] = Cmd("set", a, f, Raw(f, F))

(* What a drive command writes: speed and direction, once.                 *)
LEMMA DriveWritten ==
    ASSUME NEW a \in Addr, NEW st \in Locos
    PROVE  \E x \in Seq(Commands) :
              /\ x = Subscription(a) \o DriveSets(a, st)
              /\ Tracked(a) => x = DriveSets(a, st)
              /\ WritesDrive(x, a, st)
<1> DEFINE sub == Subscription(a)
           ds == DriveSets(a, st)
           x == sub \o ds
<1>1. sub \in Seq(Commands) /\ ds \in Seq(Commands)
  BY RequestType, DriveSetsType
<1>2. /\ \A j \in DOMAIN sub : sub[j].addr = a /\ sub[j].op = "request"
      /\ Tracked(a) => sub = <<>>
      /\ ~Tracked(a) => \E j \in DOMAIN sub : sub[j].op = "request"
  BY DEF Subscription, Request, Cmd
<1>3. /\ \A j \in DOMAIN ds : \E k \in {"speed", "dir"} :
            ds[j] = Cmd("set", a, k, DriveValue(st, k))
      /\ \A k \in {"speed", "dir"} : \E j \in DOMAIN ds :
            ds[j] = Cmd("set", a, k, DriveValue(st, k))
  BY DriveContents
<1> HIDE DEF sub, ds
<1>4. /\ x \in Seq(Commands)
      /\ \A j \in DOMAIN x : \/ \E i \in DOMAIN sub : x[j] = sub[i]
                             \/ \E i \in DOMAIN ds : x[j] = ds[i]
      /\ \A i \in DOMAIN sub : \E j \in DOMAIN x : x[j] = sub[i]
      /\ \A i \in DOMAIN ds : \E j \in DOMAIN x : x[j] = ds[i]
  BY <1>1, Joined
<1>5. Tracked(a) => x = ds
  BY <1>1, <1>2, Joined
<1> HIDE DEF x
<1>6. \A j \in DOMAIN ds : /\ ds[j].addr = a /\ ds[j].op = "set"
                           /\ \A k : IsSet(ds[j], a, k) => ds[j].val = DriveValue(st, k)
  BY <1>3 DEF Cmd, IsSet
<1>7. \A j \in DOMAIN x : /\ x[j].addr = a /\ x[j].op # "release"
                          /\ \A k : IsSet(x[j], a, k) => x[j].val = DriveValue(st, k)
  BY <1>2, <1>4, <1>6 DEF IsSet
<1>8. \A k \in {"speed", "dir"} : \E j \in DOMAIN x : x[j] = Cmd("set", a, k, DriveValue(st, k))
  BY <1>3, <1>4
<1>10. ~Tracked(a) => \E j \in DOMAIN x : x[j].op = "request"
  BY <1>2, <1>4
<1>9. WritesDrive(x, a, st)
  BY <1>7, <1>8, <1>10 DEF WritesDrive
<1> QED
  BY <1>4, <1>5, <1>9 DEF x, sub, ds

(* What a function command writes: about its loco, nothing but set() for a  *)
(* loco in the table, and every function that differs from what was sent.  *)
LEMMA FunctionsWritten ==
    ASSUME TypeOK, NEW a \in Addr, NEW F \in SUBSET Fns, NEW st \in Locos,
           SendFunctions(a, F, toEcos \o Subscription(a) \o DriveSets(a, st))
    PROVE  \E s \in Seq(Commands) :
              toEcos' = toEcos \o s /\ WritesDrive(s, a, st) /\ WritesFunctions(s, a, F)
<1>1. toEcos \in Seq(Commands)
  BY DEF TypeOK
<1>2. /\ Subscription(a) \in Seq(Commands) /\ DriveSets(a, st) \in Seq(Commands)
      /\ \A j \in DOMAIN DriveSets(a, st) : DriveSets(a, st)[j].op = "set"
  BY RequestType, DriveSetsType, DriveContents DEF Cmd
<1>3. PICK x \in Seq(Commands) :
         /\ x = Subscription(a) \o DriveSets(a, st)
         /\ Tracked(a) => x = DriveSets(a, st)
         /\ WritesDrive(x, a, st)
  BY DriveWritten
<1>4. SendFunctions(a, F, toEcos \o x)
  <2>1. toEcos \o Subscription(a) \o DriveSets(a, st) = toEcos \o x
    BY <1>1, <1>2, <1>3, JoinedTwice
  <2> QED
    BY <2>1
<1>5. Tracked(a) => \A j \in DOMAIN x : x[j].op = "set"
  BY <1>2, <1>3
<1>6. CASE lastSent[a] = NoBaseline
  <2>1. toEcos' = toEcos \o x
    BY <1>4, <1>6 DEF SendFunctions
  <2>2. WritesFunctions(x, a, F)
    BY <1>5, <1>6 DEF WritesFunctions
  <2> QED
    BY <1>3, <2>1, <2>2
<1>7. CASE lastSent[a] # NoBaseline
  <2> DEFINE fs == FunctionSets(a, F)
  <2>1. lastSent[a] \in SUBSET Fns
    BY <1>7 DEF TypeOK
  <2>2. fs \in Seq(Commands)
    BY <2>1, FunctionSetsType
  <2>3. /\ \A j \in DOMAIN fs : fs[j].addr = a /\ fs[j].op = "set" /\ fs[j].key \in Fns
        /\ \A f \in Fns : (f \in F) # (f \in lastSent[a]) =>
              \E j \in DOMAIN fs : fs[j] = Cmd("set", a, f, Raw(f, F))
    BY <2>1, FunctionContents DEF Cmd
  <2>4. toEcos' = (toEcos \o x) \o fs
    BY <1>4, <1>7 DEF SendFunctions
  <2> HIDE DEF fs
  <2> DEFINE s == x \o fs
  <2>5. /\ s \in Seq(Commands)
        /\ \A j \in DOMAIN s : \/ \E i \in DOMAIN x : s[j] = x[i]
                               \/ \E i \in DOMAIN fs : s[j] = fs[i]
        /\ \A i \in DOMAIN x : \E j \in DOMAIN s : s[j] = x[i]
        /\ \A i \in DOMAIN fs : \E j \in DOMAIN s : s[j] = fs[i]
    BY <2>2, Joined
  <2>6. toEcos' = toEcos \o s
    <3>1. (toEcos \o x) \o fs = toEcos \o (x \o fs)
      BY <1>1, <2>2, JoinedTwice
    <3> QED
      BY <2>4, <3>1
  <2> HIDE DEF s
  <2>7. \A j \in DOMAIN s : s[j].addr = a /\ s[j].op # "release"
    <3>1. \A j \in DOMAIN x : x[j].addr = a /\ x[j].op # "release"
      BY <1>3 DEF WritesDrive
    <3>2. \A j \in DOMAIN fs : fs[j].addr = a /\ fs[j].op # "release"
      BY <2>3
    <3> QED
      BY <2>5, <3>1, <3>2
  <2>13. ~Tracked(a) => \E j \in DOMAIN s : s[j].op = "request"
    BY <1>3, <2>5 DEF WritesDrive
  <2>8. Tracked(a) => \A j \in DOMAIN s : s[j].op = "set"
    BY <1>5, <2>3, <2>5
  <2>9. \A f \in Fns : (f \in F) # (f \in lastSent[a]) =>
           \E j \in DOMAIN s : s[j] = Cmd("set", a, f, Raw(f, F))
    BY <2>3, <2>5
  <2>10. ASSUME NEW k \in {"speed", "dir"}
         PROVE  /\ \E j \in DOMAIN s : s[j] = Cmd("set", a, k, DriveValue(st, k))
                /\ \A j \in DOMAIN s : IsSet(s[j], a, k) => s[j].val = DriveValue(st, k)
    <3>1. \A j \in DOMAIN fs : ~IsSet(fs[j], a, k)
      BY <2>3, RouterAssumption DEF IsSet
    <3>2. /\ \E j \in DOMAIN x : x[j] = Cmd("set", a, k, DriveValue(st, k))
          /\ \A j \in DOMAIN x : IsSet(x[j], a, k) => x[j].val = DriveValue(st, k)
      BY <1>3 DEF WritesDrive
    <3> QED
      BY <2>5, <3>1, <3>2 DEF IsSet
  <2>11. WritesDrive(s, a, st)
    BY <2>7, <2>10, <2>13 DEF WritesDrive
  <2>12. WritesFunctions(s, a, F)
    BY <1>7, <2>8, <2>9 DEF WritesFunctions
  <2> QED
    BY <2>5, <2>6, <2>11, <2>12
<1> QED
  BY <1>6, <1>7

(* A throttle switches a function.                                         *)
LEMMA FunctionsAgreed ==
    ASSUME AgreeInv, NEW t \in Throttles, NEW a \in Addr, NEW g \in FnGroups, NEW f \in g,
           NEW F \in Bitmaps(t, a, g, f), ThrottleFunctions(t, a, g, f, F)
    PROVE  \A b \in Addr : Agrees(b)'
<1> DEFINE st == [StateOf(a) EXCEPT !.fns = F]
<1>1. /\ TypeOK /\ toEcos \in Seq(Commands) /\ \A b \in Addr : Agrees(b)
      /\ locos \in [Addr -> Locos \cup {NoLoco}]
      /\ lastSent \in [Addr -> (SUBSET Fns) \cup {NoBaseline}]
      /\ fnSweep.left \in SUBSET Fns
  BY DEF AgreeInv, TypeOK, FnSweeps
<1>2. StateOf(a) \in Locos
  BY <1>1, StateOfType
<1>3. F \in SUBSET Fns
  <2>1. g \in SUBSET Fns /\ f \in Fns /\ StateOf(a).fns \in SUBSET Fns
    BY <1>2, RouterAssumption DEF Locos
  <2> QED
    BY <2>1 DEF Bitmaps
<1>4. /\ st \in Locos /\ st.fns = F
      /\ st.speed = StateOf(a).speed /\ st.dir = StateOf(a).dir
  BY <1>2, <1>3 DEF Locos
<1>5. /\ locos' = [locos EXCEPT ![a] = st]
      /\ SendFunctions(a, F, toEcos \o Subscription(a) \o DriveSets(a, st))
      /\ lastSent' = [lastSent EXCEPT ![a] = F]
      /\ Subscribe(a) /\ Overwrite(a, ~Tracked(a), lastSent[a] = NoBaseline)
      /\ UNCHANGED <<fromEcos, station>>
  BY DEF ThrottleFunctions
<1> HIDE DEF st
<1>6. PICK s \in Seq(Commands) :
         /\ toEcos' = toEcos \o s
         /\ \A j \in DOMAIN s : s[j].addr = a
         /\ Tracked(a) => \A j \in DOMAIN s : s[j].op = "set"
         /\ lastSent[a] # NoBaseline =>
               \A h \in Fns : (h \in F) # (h \in lastSent[a]) =>
                  \E j \in DOMAIN s : s[j] = Cmd("set", a, h, Raw(h, F))
  <2>1. PICK s \in Seq(Commands) :
           toEcos' = toEcos \o s /\ WritesDrive(s, a, st) /\ WritesFunctions(s, a, F)
    BY <1>1, <1>3, <1>4, <1>5, FunctionsWritten
  <2>2. \A j \in DOMAIN s : s[j].addr = a
    BY <2>1 DEF WritesDrive
  <2> QED
    BY <2>1, <2>2 DEF WritesFunctions
<1>7. locos'[a] = st /\ \A b \in Addr : b # a => locos'[b] = locos[b]
  BY <1>1, <1>5
<1>8. Tracked(a)'
  BY <1>4, <1>7, RouterAssumption DEF Tracked
<1>9. IF lastSent[a] = NoBaseline THEN fnSweep' = [addr |-> a, fns |-> F, left |-> Fns]
      ELSE fnSweep' = fnSweep
  BY <1>5 DEF SendFunctions
<1>10. ASSUME NEW b \in Addr, b # a
       PROVE  Agrees(b)'
  <2>1. Agrees(b) /\ locos'[b] = locos[b] /\ lastSent'[b] = lastSent[b]
    BY <1>1, <1>5, <1>7, <1>10
  <2>2. /\ lost[b] \subseteq lost'[b]
        /\ ~Tracked(a) /\ baseline.addr = b => baseline.left \subseteq lost'[b]
        /\ lastSent[a] = NoBaseline /\ fnSweep.addr = b => fnSweep.left \subseteq lost'[b]
    BY <1>5, <1>10 DEF Overwrite
  <2>3. UNCHANGED baseline \/ (baseline.addr = b => baseline.left \subseteq lost'[b])
    BY <1>5, <2>2 DEF Subscribe
  <2>4. UNCHANGED fnSweep \/ (fnSweep.addr = b => fnSweep.left \subseteq lost'[b])
    BY <1>9, <2>2
  <2>5. UNCHANGED station /\ a # b
    BY <1>5, <1>10
  <2>6. \A k \in Keys \ lost'[b] : /\ ToBeAsked(b, k) => ToBeAsked(b, k)'
                                   /\ ToBeSent(b, k) => ToBeSent(b, k)'
    BY <2>3, <2>4, <2>5, OverwrittenIsLost
  <2>7. \A j \in DOMAIN s : ~IsCmd(s[j], "request", b) /\ ~IsCmd(s[j], "release", b)
    BY <1>6, <1>10 DEF IsCmd
  <2> QED
    BY <1>1, <1>5, <1>6, <2>1, <2>2, <2>6, <2>7, OthersAgree
<1>11. CASE ~Tracked(a)
  <2>1. baseline' = [addr |-> a, left |-> Keys]
    BY <1>5, <1>11 DEF Subscribe, StartBaseline
  <2> QED
    BY <1>8, <1>10, <2>1, RequestedAgrees
<1>12. CASE Tracked(a)
  <2>1. UNCHANGED <<station, baseline, fromEcos>> /\ lost[a] \subseteq lost'[a]
        /\ lastSent'[a] = F
    BY <1>1, <1>5, <1>12 DEF Subscribe, Overwrite
  <2>2. st.speed = locos[a].speed /\ st.dir = locos[a].dir
    BY <1>4, <1>12 DEF StateOf
  <2>3. ASSUME NEW k \in Keys, Followed(a, k)
        PROVE  Followed(a, k)'
    <3>1. Get(a, k)' = Get(a, k) /\ (HasEvent(a, k)' <=> HasEvent(a, k))
      BY <2>1 DEF Get, HasEvent
    <3>2. LastEventTrue(a, k)'
      BY <2>1, <2>3, <3>1 DEF Followed, LastEventTrue
    <3>3. SentIsStored(a, k)'
      BY <1>4, <1>7, <2>1 DEF SentIsStored
    <3>4. (k \notin Fns \/ lastSent[a] # NoBaseline)
             => (WillChange(a, k) => WillChange(a, k)')
      <4>1. (k \notin Fns \/ lastSent[a] # NoBaseline) => (ToBeSent(a, k) => ToBeSent(a, k)')
        BY <1>1, <1>9, <3>1 DEF ToBeSent, Raw
      <4> QED
        BY <1>1, <1>5, <1>6, <4>1, WillChangeKept
    <3>5. CASE k \in {"speed", "dir"}
      <4>1. Value(a, k)' = Value(a, k) /\ k \notin Fns
        BY <1>7, <2>2, <3>5, RouterAssumption DEF Value
      <4> QED
        BY <2>3, <3>1, <3>2, <3>3, <3>4, <4>1 DEF Followed, TableTrue
    <3>6. CASE k \notin {"speed", "dir"}
      <4>1. k \in Fns /\ Value(a, k)' = Raw(k, F) /\ Value(a, k) = Raw(k, locos[a].fns)
        BY <1>4, <1>7, <3>6 DEF Value, Raw, Keys
      <4>2. CASE lastSent[a] = NoBaseline
        <5>1. Value(a, k)' = Get(a, k)' \/ ToBeSent(a, k)'
          BY <1>9, <4>1, <4>2 DEF ToBeSent, Raw
        <5> QED
          BY <3>2, <3>3, <5>1 DEF Followed, TableTrue, WillChange
      <4>3. CASE lastSent[a] # NoBaseline /\ (k \in F) # (k \in lastSent[a])
        <5>1. PICK j \in DOMAIN s : s[j] = Cmd("set", a, k, Raw(k, F))
          BY <1>6, <4>1, <4>3
        <5>2. \E i \in DOMAIN toEcos' : toEcos'[i] = s[j]
          BY <1>1, <1>6, Written
        <5>3. Value(a, k)' = Get(a, k)' \/ ChangeSent(a, k)'
          BY <3>1, <4>1, <5>1, <5>2 DEF ChangeSent, IsSet, Cmd
        <5> QED
          BY <3>2, <3>3, <5>3 DEF Followed, TableTrue, WillChange
      <4>4. CASE lastSent[a] # NoBaseline /\ (k \in F) = (k \in lastSent[a])
        <5>1. HasEvent(a, k) \/ (k \in F <=> k \in locos[a].fns)
          BY <2>3, <4>1, <4>4 DEF Followed, SentIsStored
        <5>2. HasEvent(a, k) \/ Value(a, k)' = Value(a, k)
          BY <4>1, <5>1 DEF Raw
        <5> QED
          BY <2>3, <3>1, <3>2, <3>3, <3>4, <4>4, <5>2 DEF Followed, TableTrue
      <4> QED
        BY <4>2, <4>3, <4>4
    <3> QED
      BY <3>5, <3>6
  <2>4. Agrees(a)'
    BY <1>1, <1>6, <1>8, <1>12, <2>1, <2>3, CommandedAgrees
  <2> QED
    BY <1>10, <2>4
<1> QED
  BY <1>11, <1>12

(* What does not touch any of it keeps everything in agreement.            *)
LEMMA NothingChanged ==
    ASSUME \A b \in Addr : Agrees(b),
           UNCHANGED <<locos, lastSent, baseline, fnSweep, toEcos, fromEcos, station, lost>>
    PROVE  \A b \in Addr : Agrees(b)'
<1> USE DEF Agrees, ViewSound, PropertySound, QuerySound, WillView, ReleasesUndone,
            HasRequest, Asked, ToBeAsked, HasGet, Followed, LastEventTrue, TableTrue,
            SentIsStored, HasEvent, WillChange, ChangeSent, ToBeSent, Value, Get, Tracked, Raw
<1>1. \A b \in Addr, k \in Keys : Followed(b, k)' <=> Followed(b, k)
  OBVIOUS
<1>2. \A b \in Addr, k \in Keys : PropertySound(b, k)' <=> PropertySound(b, k)
  OBVIOUS
<1>3. \A b \in Addr : ViewSound(b)' <=> ViewSound(b)
  OBVIOUS
<1> QED
  BY <1>2, <1>3

(* A selection starts tracking its loco or changes nothing of this.        *)
LEMMA SelectAgreed ==
    ASSUME AgreeInv, NEW t \in Throttles, NEW a \in Addr, ThrottleSelect(t, a)
    PROVE  \A b \in Addr : Agrees(b)'
<1>1. /\ TypeOK /\ toEcos \in Seq(Commands) /\ \A b \in Addr : Agrees(b)
      /\ locos \in [Addr -> Locos \cup {NoLoco}]
  BY DEF AgreeInv, TypeOK
<1>2. UNCHANGED <<lastSent, fnSweep, fromEcos, station>>
  BY DEF ThrottleSelect
<1>3. CASE t # Z21_LAN /\ ~Tracked(a) /\ HasRoom
  <2>1. /\ locos' = [locos EXCEPT ![a] = Placeholder]
        /\ toEcos' = toEcos \o Request(a)
        /\ StartBaseline(a) /\ Overwrite(a, TRUE, FALSE)
    BY <1>3 DEF ThrottleSelect
  <2>2. Placeholder # NoLoco
    BY RouterAssumption DEF Placeholder, Locos
  <2>3. locos'[a] = Placeholder /\ \A b \in Addr : b # a => locos'[b] = locos[b]
    BY <1>1, <2>1
  <2>4. Agrees(a)'
    BY <2>1, <2>2, <2>3, RequestedAgrees DEF Tracked, StartBaseline
  <2>5. ASSUME NEW b \in Addr, b # a
        PROVE  Agrees(b)'
    <3>1. Agrees(b) /\ locos'[b] = locos[b] /\ lastSent'[b] = lastSent[b]
      BY <1>1, <1>2, <2>3, <2>5
    <3>2. /\ lost[b] \subseteq lost'[b]
          /\ baseline.addr = b => baseline.left \subseteq lost'[b]
      BY <2>1, <2>5 DEF Overwrite
    <3>3. UNCHANGED station /\ UNCHANGED fnSweep /\ a # b
      BY <1>2, <2>5
    <3>4. \A k \in Keys \ lost'[b] : /\ ToBeAsked(b, k) => ToBeAsked(b, k)'
                                     /\ ToBeSent(b, k) => ToBeSent(b, k)'
      BY <3>2, <3>3, OverwrittenIsLost
    <3>5. \A j \in DOMAIN Request(a) :
             ~IsCmd(Request(a)[j], "request", b) /\ ~IsCmd(Request(a)[j], "release", b)
      BY <2>5, SubscriptionContents DEF IsCmd
    <3>6. Request(a) \in Seq(Commands)
      BY RequestType
    <3> QED
      BY <1>1, <1>2, <2>1, <3>1, <3>2, <3>4, <3>5, <3>6, OthersAgree
  <2> QED
    BY <2>4, <2>5
<1>4. CASE ~(t # Z21_LAN /\ ~Tracked(a) /\ HasRoom)
  <2>1. UNCHANGED <<locos, toEcos, baseline, lost>>
    BY <1>4 DEF ThrottleSelect
  <2> QED
    BY <1>1, <1>2, <2>1, NothingChanged
<1> QED
  BY <1>3, <1>4

(* The next property of the query is asked for, the next one of the first  *)
(* bitmap sent.                                                            *)
LEMMA PacedAgreed ==
    ASSUME AgreeInv, PacedStep
    PROVE  \A b \in Addr : Agrees(b)'
<1> DEFINE k == NextKey(baseline.left)
           f == NextKey(fnSweep.left)
           get == Cmd("get", baseline.addr, k, 0)
           set == Cmd("set", fnSweep.addr, f, Raw(f, fnSweep.fns))
           gets == IF baseline.left # {} THEN <<get>> ELSE <<>>
           sets == IF fnSweep.left # {} THEN <<set>> ELSE <<>>
           s == gets \o sets
<1>1. /\ TypeOK /\ toEcos \in Seq(Commands) /\ \A b \in Addr : Agrees(b)
      /\ baseline \in Baselines /\ fnSweep \in FnSweeps
  BY DEF AgreeInv, TypeOK
<1>2. gets \in Seq(Commands)
  <2> SUFFICES ASSUME baseline.left # {}
               PROVE  get \in Commands
    OBVIOUS
  <2>1. baseline.addr \in Addr /\ baseline.left \in SUBSET Keys
    BY <1>1 DEF Baselines
  <2>2. k \in Keys
    BY <2>1, NextKeyIsMember
  <2> QED
    BY <2>1, <2>2 DEF Cmd, Commands, KeyValues
<1>3. sets \in Seq(Commands)
  <2> SUFFICES ASSUME fnSweep.left # {}
               PROVE  set \in Commands
    OBVIOUS
  <2>1. fnSweep.addr \in Addr /\ fnSweep.left \in SUBSET Fns
    BY <1>1 DEF FnSweeps
  <2>2. f \in Fns
    BY <2>1, NextKeyIsMember
  <2> QED
    BY <2>1, <2>2, FunctionCmdType
<1>4. /\ toEcos' = toEcos \o gets \o sets
      /\ baseline' = [baseline EXCEPT !.left = @ \ {k}]
      /\ fnSweep' = [fnSweep EXCEPT !.left = @ \ {f}]
      /\ UNCHANGED <<locos, lastSent, fromEcos, station, lost>>
  BY DEF PacedStep
<1>5. /\ \A j \in DOMAIN gets : gets[j] = get
      /\ \A j \in DOMAIN sets : sets[j] = set
      /\ baseline.left # {} => \E j \in DOMAIN gets : gets[j] = get
      /\ fnSweep.left # {} => \E j \in DOMAIN sets : sets[j] = set
  OBVIOUS
<1>6. /\ get.op = "get" /\ get.addr = baseline.addr /\ get.key = k
      /\ set.op = "set" /\ set.addr = fnSweep.addr /\ set.key = f
      /\ set.val = Raw(f, fnSweep.fns)
  BY DEF Cmd
<1> HIDE DEF gets, sets, get, set, k, f
<1>7. s \in Seq(Commands) /\ toEcos' = toEcos \o s
  <2>1. gets \o sets \in Seq(Commands)
    BY <1>2, <1>3, Joined
  <2>2. (toEcos \o gets) \o sets = toEcos \o (gets \o sets)
    BY <1>1, <1>2, <1>3, JoinedTwice
  <2> QED
    BY <1>4, <2>1, <2>2
<1>8. /\ \A j \in DOMAIN s : s[j] = get \/ s[j] = set
      /\ baseline.left # {} => \E j \in DOMAIN s : s[j] = get
      /\ fnSweep.left # {} => \E j \in DOMAIN s : s[j] = set
  <2>1. /\ \A j \in DOMAIN s : \/ \E i \in DOMAIN gets : s[j] = gets[i]
                               \/ \E i \in DOMAIN sets : s[j] = sets[i]
        /\ \A i \in DOMAIN gets : \E j \in DOMAIN s : s[j] = gets[i]
        /\ \A i \in DOMAIN sets : \E j \in DOMAIN s : s[j] = sets[i]
    BY <1>2, <1>3, Joined
  <2> HIDE DEF s
  <2> QED
    BY <1>5, <2>1
<1> HIDE DEF s
<1>9. ASSUME NEW b \in Addr
      PROVE  Agrees(b)'
  <2>1. \A j \in DOMAIN s : ~IsCmd(s[j], "request", b) /\ ~IsCmd(s[j], "release", b)
    BY <1>6, <1>8 DEF IsCmd
  <2>2. ASSUME NEW h \in Keys, ToBeAsked(b, h)
        PROVE  ToBeAsked(b, h)' \/ \E j \in DOMAIN s : IsGet(s[j], b, h)
    <3>1. baseline'.addr = baseline.addr /\ baseline'.left = baseline.left \ {k}
      BY <1>1, <1>4 DEF Baselines
    <3> QED
      BY <1>6, <1>8, <2>2, <3>1 DEF ToBeAsked, IsGet
  <2>3. ASSUME NEW h \in Keys, ToBeSent(b, h)
        PROVE  \/ ToBeSent(b, h)'
               \/ \E j \in DOMAIN s : IsSet(s[j], b, h) /\ s[j].val # Get(b, h)
    <3>1. /\ fnSweep'.addr = fnSweep.addr /\ fnSweep'.fns = fnSweep.fns
          /\ fnSweep'.left = fnSweep.left \ {f}
      BY <1>1, <1>4 DEF FnSweeps
    <3>2. Get(b, h)' = Get(b, h)
      BY <1>4 DEF Get
    <3> QED
      BY <1>6, <1>8, <2>3, <3>1, <3>2 DEF ToBeSent, IsSet, Raw
  <2>4. /\ Agrees(b) /\ locos'[b] = locos[b] /\ lastSent'[b] = lastSent[b]
        /\ lost[b] \subseteq lost'[b] /\ UNCHANGED <<station, fromEcos>>
    BY <1>1, <1>4
  <2> QED
    BY <1>1, <1>7, <2>1, <2>2, <2>3, <2>4, OthersAgree
<1> QED
  BY <1>9

(* An expired loco will not be viewed; nothing of it is under way.         *)
LEMMA ExpireAgreed ==
    ASSUME AgreeInv, NEW a \in Addr, Expire(a)
    PROVE  \A b \in Addr : Agrees(b)'
<1> DEFINE c == Cmd("release", a, "speed", 0)
           s == <<c>>
<1>1. /\ TypeOK /\ toEcos \in Seq(Commands) /\ \A b \in Addr : Agrees(b)
      /\ locos \in [Addr -> Locos \cup {NoLoco}]
  BY DEF AgreeInv, TypeOK
<1>2. c \in Commands
  BY DEF Cmd, Commands, Keys, KeyValues
<1>3. c.op = "release" /\ c.addr = a
  BY DEF Cmd
<1>4. /\ locos' = [locos EXCEPT ![a] = NoLoco] /\ toEcos' = Append(toEcos, c)
      /\ UNCHANGED <<lastSent, baseline, fnSweep, fromEcos, station, lost>>
      /\ \A i \in DOMAIN toEcos : toEcos[i].addr # a
  BY DEF Expire
<1> HIDE DEF c
<1>5. /\ s \in Seq(Commands) /\ toEcos' = toEcos \o s
      /\ \A j \in DOMAIN s : s[j] = c
      /\ \E j \in DOMAIN s : s[j] = c
  BY <1>1, <1>2, <1>4
<1> HIDE DEF s
<1>6. ASSUME NEW b \in Addr, b # a
      PROVE  Agrees(b)'
  <2>1. \A j \in DOMAIN s : ~IsCmd(s[j], "request", b) /\ ~IsCmd(s[j], "release", b)
    BY <1>3, <1>5, <1>6 DEF IsCmd
  <2>2. /\ Agrees(b) /\ locos'[b] = locos[b] /\ lastSent'[b] = lastSent[b]
        /\ lost[b] \subseteq lost'[b] /\ UNCHANGED <<station, fromEcos>>
    BY <1>1, <1>4, <1>6
  <2>3. \A k \in Keys : /\ ToBeAsked(b, k) => ToBeAsked(b, k)'
                        /\ ToBeSent(b, k) => ToBeSent(b, k)'
    BY <1>4 DEF ToBeAsked, ToBeSent, Get, Raw
  <2> QED
    BY <1>1, <1>5, <2>1, <2>2, <2>3, OthersAgree
<1>7. Agrees(a)'
  <2>1. /\ \A i \in DOMAIN toEcos : i \in DOMAIN toEcos' /\ toEcos'[i] = toEcos[i]
        /\ \A i \in DOMAIN toEcos' :
              i \in DOMAIN toEcos \/ \E j \in DOMAIN s : toEcos'[i] = s[j]
        /\ \A j \in DOMAIN s : \E i \in DOMAIN toEcos' : toEcos'[i] = s[j]
    BY <1>1, <1>5, Written
  <2>2. \A i \in DOMAIN toEcos' : ~IsCmd(toEcos'[i], "request", a)
    BY <1>3, <1>4, <1>5, <2>1 DEF IsCmd
  <2>3. \E i \in DOMAIN toEcos' : IsCmd(toEcos'[i], "release", a)
    BY <1>3, <1>5, <2>1 DEF IsCmd
  <2>4. ~WillView(a)'
    BY <2>2, <2>3 DEF WillView, ReleasesUndone
  <2>5. \A k \in Keys : QuerySound(a, k)'
    BY <2>2 DEF QuerySound
  <2> QED
    BY <2>4, <2>5 DEF Agrees, ViewSound, PropertySound
<1> QED
  BY <1>6, <1>7

(* An event is taken off the stream, the property it is about has its      *)
(* value in the table and the others are as before.                        *)
LEMMA EventTaken ==
    ASSUME \A b \in Addr : Agrees(b), fromEcos \in Seq(Events), fromEcos # <<>>,
           fromEcos' = Tail(fromEcos), NEW a \in Addr, NEW f \in Keys, NEW v,
           Head(fromEcos) = [addr |-> a, key |-> f, val |-> v],
           UNCHANGED <<baseline, fnSweep, toEcos, station, lost>>,
           \A b \in Addr : b # a => locos'[b] = locos[b] /\ lastSent'[b] = lastSent[b],
           Tracked(a) =>
              /\ Tracked(a)' /\ Value(a, f)' = v
              /\ \A k \in Keys : k # f => Value(a, k)' = Value(a, k)
              /\ lastSent'[a] # NoBaseline => lastSent[a] # NoBaseline
              /\ \A k \in Fns : k # f => /\ k \in lastSent'[a] <=> k \in lastSent[a]
                                         /\ k \in locos'[a].fns <=> k \in locos[a].fns
              /\ f \in Fns /\ lastSent'[a] # NoBaseline =>
                    (f \in lastSent'[a] <=> f \in locos'[a].fns)
    PROVE  \A b \in Addr : Agrees(b)'
<1>1. /\ 1 \in DOMAIN fromEcos /\ fromEcos[1] = Head(fromEcos)
      /\ \A i \in DOMAIN fromEcos' :
            i \in Nat /\ i + 1 \in DOMAIN fromEcos /\ fromEcos'[i] = fromEcos[i + 1]
      /\ \A i \in DOMAIN fromEcos : i \in Nat
            /\ (i # 1 => i - 1 \in DOMAIN fromEcos' /\ fromEcos'[i - 1] = fromEcos[i])
  BY Consumed
<1>2. SUFFICES ASSUME NEW b \in Addr
               PROVE  Agrees(b)'
  OBVIOUS
<1>3. /\ WillView(b)' <=> WillView(b)
      /\ \A k \in Keys : /\ QuerySound(b, k)' <=> QuerySound(b, k)
                         /\ Asked(b, k)' <=> Asked(b, k)
                         /\ WillChange(b, k)' <=> WillChange(b, k)
                         /\ Get(b, k)' = Get(b, k)
  <2>1. \A k \in Keys : Get(b, k)' = Get(b, k)
    BY DEF Get
  <2>2. WillView(b)' <=> WillView(b)
    BY DEF WillView, ReleasesUndone, HasRequest
  <2>3. \A k \in Keys : QuerySound(b, k)' <=> QuerySound(b, k)
    BY DEF QuerySound, ToBeAsked
  <2>4. \A k \in Keys : Asked(b, k)' <=> Asked(b, k)
    BY DEF Asked, ToBeAsked, HasGet
  <2>5. \A k \in Keys : WillChange(b, k)' <=> WillChange(b, k)
    BY <2>1 DEF WillChange, ChangeSent, ToBeSent, Raw
  <2> QED
    BY <2>1, <2>2, <2>3, <2>4, <2>5
<1>4. ViewSound(b) /\ \A k \in Keys \ lost[b] : PropertySound(b, k)
  BY DEF Agrees
<1>5. ViewSound(b)'
  BY <1>3, <1>4 DEF ViewSound, Tracked
<1>6. ASSUME NEW k \in Keys, WillView(b), Followed(b, k)
      PROVE  Followed(b, k)'
  <2>1. Tracked(b)
    BY <1>4, <1>6 DEF ViewSound
  <2>2. LastEventTrue(b, k)'
    <3> SUFFICES ASSUME NEW i \in DOMAIN fromEcos',
                        IsAbout(fromEcos'[i], b, k), fromEcos'[i].val # Get(b, k)'
                 PROVE  \E j \in DOMAIN fromEcos' : j > i /\ IsAbout(fromEcos'[j], b, k)
      BY DEF LastEventTrue
    <3>1. /\ i \in Nat /\ i + 1 \in DOMAIN fromEcos
          /\ IsAbout(fromEcos[i + 1], b, k) /\ fromEcos[i + 1].val # Get(b, k)
      BY <1>1, <1>3
    <3>2. PICK j \in DOMAIN fromEcos : j > i + 1 /\ IsAbout(fromEcos[j], b, k)
      BY <1>6, <3>1 DEF Followed, LastEventTrue
    <3>3. j - 1 \in DOMAIN fromEcos' /\ fromEcos'[j - 1] = fromEcos[j] /\ j - 1 > i
      BY <1>1, <3>1, <3>2
    <3> QED
      BY <3>2, <3>3
  <2>3. CASE a = b /\ k = f
    <3>1. HasEvent(b, k)' \/ v = Get(b, k)
      <4> SUFFICES ASSUME v # Get(b, k)
                   PROVE  HasEvent(b, k)'
        OBVIOUS
      <4>1. IsAbout(fromEcos[1], b, k) /\ fromEcos[1].val # Get(b, k)
        BY <1>1, <2>3 DEF IsAbout
      <4>2. PICK j \in DOMAIN fromEcos : j > 1 /\ IsAbout(fromEcos[j], b, k)
        BY <1>1, <1>6, <4>1 DEF Followed, LastEventTrue
      <4>3. j - 1 \in DOMAIN fromEcos' /\ fromEcos'[j - 1] = fromEcos[j]
        BY <1>1, <4>2
      <4> QED
        BY <4>2, <4>3 DEF HasEvent
    <3>2. TableTrue(b, k)'
      BY <1>3, <2>1, <2>3, <3>1 DEF TableTrue
    <3>3. SentIsStored(b, k)'
      BY <2>1, <2>3 DEF SentIsStored
    <3> QED
      BY <2>2, <3>2, <3>3 DEF Followed
  <2>4. CASE ~(a = b /\ k = f)
    <3>1. ~IsAbout(fromEcos[1], b, k)
      BY <1>1, <2>4 DEF IsAbout
    <3>2. HasEvent(b, k) => HasEvent(b, k)'
      BY <1>1, <3>1 DEF HasEvent
    <3>3. Value(b, k)' = Value(b, k)
      BY <2>1, <2>4 DEF Value, Raw
    <3>4. TableTrue(b, k)'
      BY <1>3, <1>6, <3>2, <3>3 DEF Followed, TableTrue
    <3>5. SentIsStored(b, k)'
      BY <1>6, <2>1, <2>4, <3>2 DEF Followed, SentIsStored
    <3> QED
      BY <2>2, <3>4, <3>5 DEF Followed
  <2> QED
    BY <2>3, <2>4
<1>7. \A k \in Keys \ lost'[b] : PropertySound(b, k)'
  BY <1>3, <1>4, <1>6 DEF PropertySound
<1> QED
  BY <1>5, <1>7 DEF Agrees, Keys

(* A speed or direction event.                                             *)
LEMMA EcosDriveAgreed ==
    ASSUME AgreeInv, EcosDrive
    PROVE  \A b \in Addr : Agrees(b)'
<1>1. /\ TypeOK /\ fromEcos \in Seq(Events) /\ \A b \in Addr : Agrees(b)
      /\ locos \in [Addr -> Locos \cup {NoLoco}]
  BY DEF AgreeInv, TypeOK
<1>2. PICK a \in Addr, f \in {"speed", "dir"}, v \in KeyValues :
         Head(fromEcos) = [addr |-> a, key |-> f, val |-> v] /\ Head(fromEcos) \in Events
  <2>1. Head(fromEcos) \in Events /\ Head(fromEcos).key \in {"speed", "dir"}
    BY <1>1, HeadEventType DEF EcosDrive
  <2> QED
    BY <2>1 DEF Events
<1> DEFINE st == DriveMerged(StateOf(a), Head(fromEcos))
<1>3. f \in Keys /\ f \notin Fns
  BY RouterAssumption DEF Keys
<1>4. st \in Locos
  BY <1>1, <1>2, StateOfType, MergedType
<1>5. /\ fromEcos # <<>> /\ fromEcos' = Tail(fromEcos)
      /\ UNCHANGED <<lastSent, baseline, fnSweep, toEcos, station, lost>>
      /\ locos' = [locos EXCEPT ![a] = st] \/ (~Tracked(a) /\ UNCHANGED locos)
  <2> DEFINE e == Head(fromEcos)
             su == DriveMerged(StateOf(e.addr), e)
  <2>1. /\ fromEcos # <<>> /\ fromEcos' = Tail(fromEcos)
        /\ UNCHANGED <<lastSent, baseline, fnSweep, toEcos, station, lost>>
        /\ locos' = [locos EXCEPT ![e.addr] = su] \/ (~Tracked(e.addr) /\ UNCHANGED locos)
    BY DEF EcosDrive
  <2>2. e.addr = a /\ su = st
    BY <1>2
  <2> HIDE DEF e, su, st
  <2> QED
    BY <2>1, <2>2
<1>6. Tracked(a) => /\ st.fns = locos[a].fns
                    /\ st.speed = (IF f = "speed" THEN v ELSE locos[a].speed)
                    /\ st.dir = (IF f = "dir" THEN v ELSE locos[a].dir)
  BY <1>1, <1>2 DEF StateOf, DriveMerged, Tracked, Locos
<1> HIDE DEF st
<1>7. \A b \in Addr : b # a => locos'[b] = locos[b] /\ lastSent'[b] = lastSent[b]
  BY <1>1, <1>2, <1>5
<1>8. ASSUME Tracked(a)
      PROVE  /\ Tracked(a)' /\ Value(a, f)' = v
             /\ \A k \in Keys : k # f => Value(a, k)' = Value(a, k)
             /\ lastSent'[a] = lastSent[a] /\ locos'[a].fns = locos[a].fns
  <2>1. locos'[a] = st
    BY <1>1, <1>2, <1>5, <1>8
  <2>2. Tracked(a)'
    BY <1>4, <2>1, RouterAssumption DEF Tracked
  <2>3. Value(a, f)' = v
    BY <1>2, <1>6, <1>8, <2>1 DEF Value
  <2>4. \A k \in Keys : k # f => Value(a, k)' = Value(a, k)
    BY <1>2, <1>6, <1>8, <2>1 DEF Value, Raw
  <2> QED
    BY <1>5, <1>6, <1>8, <2>1, <2>2, <2>3, <2>4
<1> QED
  BY <1>1, <1>2, <1>3, <1>5, <1>7, <1>8, EventTaken

(* A function bit on the wire means the same in both directions.           *)
LEMMA MeaningOfRaw ==
    ASSUME NEW f, NEW F, NEW v \in {0, 1}, f \in F <=> Meaning(f, v)
    PROVE  Raw(f, F) = v
<1>1. CASE v = 1
  BY <1>1 DEF Raw, Meaning
<1>2. CASE v = 0
  BY <1>2 DEF Raw, Meaning
<1> QED
  BY <1>1, <1>2

(* A function event.                                                       *)
LEMMA EcosFunctionAgreed ==
    ASSUME AgreeInv, EcosFunction
    PROVE  \A b \in Addr : Agrees(b)'
<1>1. /\ TypeOK /\ fromEcos \in Seq(Events) /\ \A b \in Addr : Agrees(b)
      /\ locos \in [Addr -> Locos \cup {NoLoco}]
      /\ lastSent \in [Addr -> (SUBSET Fns) \cup {NoBaseline}]
  BY DEF AgreeInv, TypeOK
<1>2. PICK a \in Addr, f \in Fns, v \in {0, 1} :
         Head(fromEcos) = [addr |-> a, key |-> f, val |-> v]
  <2>1. Head(fromEcos) \in Events /\ Head(fromEcos).key \in Fns
    BY <1>1, HeadEventType DEF EcosFunction
  <2> QED
    BY <2>1, RouterAssumption DEF Events, ValuesOf
<1> DEFINE Merge(F) == IF Meaning(f, v) THEN F \cup {f} ELSE F \ {f}
           st == [StateOf(a) EXCEPT !.fns = Merge(StateOf(a).fns)]
<1>3. f \in Keys /\ f \notin {"speed", "dir"}
  BY RouterAssumption DEF Keys
<1>4. StateOf(a) \in Locos
  BY <1>1, StateOfType
<1>5. /\ fromEcos # <<>> /\ fromEcos' = Tail(fromEcos)
      /\ UNCHANGED <<baseline, fnSweep, toEcos, station, lost>>
      /\ locos' = [locos EXCEPT ![a] = st] \/ (~Tracked(a) /\ UNCHANGED locos)
      /\ \/ lastSent[a] = NoBaseline /\ lastSent' = lastSent
         \/ lastSent[a] # NoBaseline /\ lastSent' = [lastSent EXCEPT ![a] = Merge(lastSent[a])]
  <2> DEFINE e == Head(fromEcos)
             MergeE(F) == IF Meaning(e.key, e.val) THEN F \cup {e.key} ELSE F \ {e.key}
             su == [StateOf(e.addr) EXCEPT !.fns = MergeE(StateOf(e.addr).fns)]
             sent == MergeE(lastSent[e.addr])
  <2>1. /\ fromEcos # <<>> /\ fromEcos' = Tail(fromEcos)
        /\ UNCHANGED <<baseline, fnSweep, toEcos, station, lost>>
        /\ \/ locos' = [locos EXCEPT ![e.addr] = su]
           \/ ~Tracked(e.addr) /\ UNCHANGED locos
        /\ \/ lastSent[e.addr] = NoBaseline /\ lastSent' = lastSent
           \/ lastSent[e.addr] # NoBaseline /\ lastSent' = [lastSent EXCEPT ![e.addr] = sent]
    BY DEF EcosFunction
  <2>2. e.addr = a /\ e.key = f /\ e.val = v
    BY <1>2
  <2>3. su = st /\ sent = Merge(lastSent[a])
    BY <2>2
  <2> HIDE DEF e, MergeE, su, st, sent, Merge
  <2> QED
    BY <2>1, <2>2, <2>3
<1>6. \A F : /\ f \in Merge(F) <=> Meaning(f, v)
             /\ \A k : k # f => (k \in Merge(F) <=> k \in F)
  OBVIOUS
<1>7. \A F \in SUBSET Fns : Merge(F) \in SUBSET Fns
  OBVIOUS
<1> HIDE DEF Merge
<1>8. /\ st \in Locos /\ st.fns = Merge(StateOf(a).fns)
      /\ st.speed = StateOf(a).speed /\ st.dir = StateOf(a).dir
  BY <1>4, <1>7 DEF Locos
<1>9. Tracked(a) => StateOf(a) = locos[a]
  BY DEF StateOf
<1> HIDE DEF st
<1>11. \A b \in Addr : b # a => locos'[b] = locos[b] /\ lastSent'[b] = lastSent[b]
  BY <1>1, <1>5
<1>12. ASSUME Tracked(a)
       PROVE  /\ Tracked(a)' /\ Value(a, f)' = v
              /\ \A k \in Keys : k # f => Value(a, k)' = Value(a, k)
              /\ lastSent'[a] # NoBaseline => lastSent[a] # NoBaseline
              /\ \A k \in Fns : k # f => /\ k \in lastSent'[a] <=> k \in lastSent[a]
                                         /\ k \in locos'[a].fns <=> k \in locos[a].fns
              /\ lastSent'[a] # NoBaseline =>
                    (f \in lastSent'[a] <=> f \in locos'[a].fns)
  <2>1. locos'[a] = st /\ st.fns = Merge(locos[a].fns)
        /\ st.speed = locos[a].speed /\ st.dir = locos[a].dir
    BY <1>1, <1>5, <1>8, <1>9, <1>12
  <2>2. Tracked(a)'
    BY <1>8, <2>1, RouterAssumption DEF Tracked
  <2>3. /\ f \in locos'[a].fns <=> Meaning(f, v)
        /\ \A k : k # f => (k \in locos'[a].fns <=> k \in locos[a].fns)
    BY <1>6, <2>1
  <2>4. Value(a, f)' = v
    <3>1. Raw(f, locos'[a].fns) = v
      BY <2>3, MeaningOfRaw
    <3> QED
      BY <1>3, <3>1 DEF Value, Raw
  <2>5. \A k \in Keys : k # f => Value(a, k)' = Value(a, k)
    BY <2>1, <2>3 DEF Value, Raw
  <2>6. lastSent'[a] = lastSent[a] \/ lastSent'[a] = Merge(lastSent[a])
    BY <1>1, <1>5
  <2>7. \A k : k # f => (k \in lastSent'[a] <=> k \in lastSent[a])
    BY <1>6, <2>6
  <2>8. lastSent'[a] # NoBaseline =>
           lastSent[a] # NoBaseline /\ (f \in lastSent'[a] <=> f \in locos'[a].fns)
    BY <1>1, <1>5, <1>6, <2>3
  <2> QED
    BY <2>2, <2>4, <2>3, <2>5, <2>7, <2>8
<1> QED
  BY <1>1, <1>2, <1>3, <1>5, <1>11, <1>12, EventTaken

(* A property that has been set has its new value, the others theirs.      *)
LEMMA GetWith ==
    ASSUME TypeOK, NEW a \in Addr, NEW k \in Keys, NEW v \in ValuesOf(k),
           station' = With(a, k, v)
    PROVE  /\ Get(a, k)' = v
           /\ \A b \in Addr, h \in Keys : b # a \/ h # k => Get(b, h)' = Get(b, h)
           /\ \A b \in Addr : station'[b].viewed = station[b].viewed
<1>1. station \in [Addr -> StationLocos]
  BY DEF TypeOK
<1>2. \A b \in Addr : b # a => station'[b] = station[b]
  BY <1>1 DEF With
<1>3. /\ station'[a].speed = IF k = "speed" THEN v ELSE station[a].speed
      /\ station'[a].dir = IF k = "dir" THEN v ELSE station[a].dir
      /\ station'[a].fns = WithFunction(station[a].fns, k, v)
      /\ station'[a].viewed = station[a].viewed
  BY <1>1 DEF With
<1>4. k \in Fns => k # "speed" /\ k # "dir" /\ v \in {0, 1}
  BY RouterAssumption DEF ValuesOf
<1>5. /\ k \in Fns => (k \in WithFunction(station[a].fns, k, v) <=> v = 1)
      /\ \A h : h # k => (h \in WithFunction(station[a].fns, k, v) <=> h \in station[a].fns)
  BY DEF WithFunction
<1>6. Get(a, k)' = v
  <2>1. CASE k = "speed" \/ k = "dir"
    BY <1>3, <2>1 DEF Get
  <2>2. CASE k \in Fns
    BY <1>3, <1>4, <1>5, <2>2 DEF Get
  <2> QED
    BY <2>1, <2>2 DEF Keys
<1>7. ASSUME NEW h \in Keys, h # k
      PROVE  Get(a, h)' = Get(a, h)
  <2>1. h \in station'[a].fns <=> h \in station[a].fns
    BY <1>3, <1>5, <1>7
  <2> QED
    BY <1>3, <1>7, <2>1 DEF Get
<1>8. \A b \in Addr, h \in Keys : b # a => Get(b, h)' = Get(b, h)
  BY <1>2 DEF Get
<1> QED
  BY <1>2, <1>3, <1>6, <1>7, <1>8

(* ECoS reports something else, or nothing: a property goes on being       *)
(* followed.                                                               *)
LEMMA FollowedElsewhere ==
    ASSUME NEW b, NEW k, NEW e, Followed(b, k), fromEcos \in Seq(Events),
           UNCHANGED <<locos, lastSent>>, Get(b, k)' = Get(b, k),
           \/ UNCHANGED fromEcos
           \/ fromEcos' = Append(fromEcos, e) /\ ~IsAbout(e, b, k),
           WillChange(b, k) => WillChange(b, k)'
    PROVE  Followed(b, k)'
<1>1. /\ \A i \in DOMAIN fromEcos : i \in DOMAIN fromEcos' /\ fromEcos'[i] = fromEcos[i]
      /\ \A i \in DOMAIN fromEcos' : IsAbout(fromEcos'[i], b, k)
            => i \in DOMAIN fromEcos /\ fromEcos'[i] = fromEcos[i]
  <2>1. CASE UNCHANGED fromEcos
    BY <2>1
  <2>2. CASE fromEcos' = Append(fromEcos, e) /\ ~IsAbout(e, b, k)
    <3>1. PICK n \in Nat :
              /\ n \in DOMAIN fromEcos' /\ fromEcos'[n] = e /\ n \notin DOMAIN fromEcos
              /\ \A i \in DOMAIN fromEcos :
                    n > i /\ i \in DOMAIN fromEcos' /\ fromEcos'[i] = fromEcos[i]
              /\ \A i \in DOMAIN fromEcos' : i = n \/ i \in DOMAIN fromEcos
      BY <2>2, Reported
    <3> QED
      BY <2>2, <3>1
  <2> QED
    BY <2>1, <2>2
<1>2. HasEvent(b, k)' <=> HasEvent(b, k)
  BY <1>1 DEF HasEvent
<1>3. LastEventTrue(b, k)'
  BY <1>1 DEF Followed, LastEventTrue
<1>4. Value(b, k)' = Value(b, k)
  BY DEF Value, Raw
<1>5. TableTrue(b, k)'
  BY <1>2, <1>4 DEF Followed, TableTrue
<1>6. SentIsStored(b, k)'
  BY <1>2 DEF Followed, SentIsStored
<1> QED
  BY <1>3, <1>5, <1>6 DEF Followed

(* ECoS reports the value it has: the property is followed.                *)
LEMMA FollowedReported ==
    ASSUME NEW b, NEW k, NEW e, fromEcos \in Seq(Events),
           fromEcos' = Append(fromEcos, e), IsAbout(e, b, k), e.val = Get(b, k)'
    PROVE  Followed(b, k)'
<1>1. PICK n \in Nat :
          /\ n \in DOMAIN fromEcos' /\ fromEcos'[n] = e /\ n \notin DOMAIN fromEcos
          /\ \A i \in DOMAIN fromEcos :
                n > i /\ i \in DOMAIN fromEcos' /\ fromEcos'[i] = fromEcos[i]
          /\ \A i \in DOMAIN fromEcos' : i = n \/ i \in DOMAIN fromEcos
  BY Reported
<1>2. HasEvent(b, k)'
  BY <1>1 DEF HasEvent
<1>3. LastEventTrue(b, k)'
  BY <1>1 DEF LastEventTrue
<1> QED
  BY <1>2, <1>3 DEF Followed, TableTrue, SentIsStored

(* What ECoS does not report yet it will be asked for.                     *)
LEMMA UnviewedIsAsked ==
    ASSUME NEW b, NEW k, PropertySound(b, k), WillView(b), ~station[b].viewed
    PROVE  Asked(b, k)
<1>1. PICK i \in DOMAIN toEcos : IsCmd(toEcos[i], "request", b)
  BY DEF WillView, HasRequest
<1>2. ToBeAsked(b, k) \/ \E j \in DOMAIN toEcos : j > i /\ IsGet(toEcos[j], b, k)
  BY <1>1 DEF PropertySound, QuerySound
<1> QED
  BY <1>2 DEF Asked, HasGet

(* ECoS processes a command: what it will view stays the same.             *)
LEMMA ViewProcessed ==
    ASSUME toEcos \in Seq(Commands), toEcos # <<>>, toEcos' = Tail(toEcos),
           NEW b \in Addr,
           station'[b].viewed = IF IsCmd(Head(toEcos), "request", b) THEN TRUE
                                ELSE IF IsCmd(Head(toEcos), "release", b) THEN FALSE
                                ELSE station[b].viewed
    PROVE  WillView(b)' <=> WillView(b)
<1> DEFINE c == Head(toEcos)
<1>1. /\ 1 \in DOMAIN toEcos /\ toEcos[1] = c
      /\ \A i \in DOMAIN toEcos' :
            i \in Nat /\ i + 1 \in DOMAIN toEcos /\ toEcos'[i] = toEcos[i + 1]
      /\ \A i \in DOMAIN toEcos : i \in Nat
            /\ (i # 1 => i - 1 \in DOMAIN toEcos' /\ toEcos'[i - 1] = toEcos[i])
  BY Processed
<1>2. ~(IsCmd(c, "request", b) /\ IsCmd(c, "release", b))
  BY DEF IsCmd
<1> HIDE DEF c
<1>3. /\ HasRequest(b)' => HasRequest(b)
      /\ IsCmd(c, "request", b) => HasRequest(b)
      /\ HasRequest(b) => IsCmd(c, "request", b) \/ HasRequest(b)'
  BY <1>1 DEF HasRequest
<1>4. ReleasesUndone(b) => ReleasesUndone(b)'
  <2> SUFFICES ASSUME ReleasesUndone(b), NEW i \in DOMAIN toEcos',
                      IsCmd(toEcos'[i], "release", b)
               PROVE  \E j \in DOMAIN toEcos' : j > i /\ IsCmd(toEcos'[j], "request", b)
    BY DEF ReleasesUndone
  <2>1. i \in Nat /\ i + 1 \in DOMAIN toEcos /\ IsCmd(toEcos[i + 1], "release", b)
    BY <1>1
  <2>2. PICK j \in DOMAIN toEcos : j > i + 1 /\ IsCmd(toEcos[j], "request", b)
    BY <2>1 DEF ReleasesUndone
  <2>3. j - 1 \in DOMAIN toEcos' /\ toEcos'[j - 1] = toEcos[j] /\ j - 1 > i
    BY <1>1, <2>1, <2>2
  <2> QED
    BY <2>2, <2>3
<1>5. ReleasesUndone(b)' /\ (IsCmd(c, "release", b) => HasRequest(b)') => ReleasesUndone(b)
  <2> SUFFICES ASSUME ReleasesUndone(b)', IsCmd(c, "release", b) => HasRequest(b)',
                      NEW i \in DOMAIN toEcos, IsCmd(toEcos[i], "release", b)
               PROVE  \E j \in DOMAIN toEcos : j > i /\ IsCmd(toEcos[j], "request", b)
    BY DEF ReleasesUndone
  <2>1. PICK j \in DOMAIN toEcos' : IsCmd(toEcos'[j], "request", b) /\ j + 1 > i
    <3>1. CASE i = 1
      <4>1. PICK j \in DOMAIN toEcos' : IsCmd(toEcos'[j], "request", b)
        BY <1>1, <3>1 DEF HasRequest
      <4>2. j \in Nat /\ j + 1 \in DOMAIN toEcos /\ toEcos'[j] = toEcos[j + 1]
        BY <1>1
      <4>3. j + 1 # 1
        BY <1>1, <1>2, <3>1, <4>1, <4>2
      <4> QED
        BY <3>1, <4>1, <4>2, <4>3
    <3>2. CASE i # 1
      <4>1. /\ i \in Nat /\ i - 1 \in DOMAIN toEcos'
            /\ IsCmd(toEcos'[i - 1], "release", b)
        BY <1>1, <3>2
      <4>2. PICK j \in DOMAIN toEcos' : j > i - 1 /\ IsCmd(toEcos'[j], "request", b)
        BY <4>1 DEF ReleasesUndone
      <4>3. j \in Nat
        BY <1>1
      <4> QED
        BY <4>1, <4>2, <4>3
    <3> QED
      BY <3>1, <3>2
  <2> QED
    BY <1>1, <2>1
<1>6. ReleasesUndone(b) /\ IsCmd(c, "release", b) => HasRequest(b)'
  <2> SUFFICES ASSUME ReleasesUndone(b), IsCmd(c, "release", b)
               PROVE  HasRequest(b)'
    OBVIOUS
  <2>1. PICK j \in DOMAIN toEcos : j > 1 /\ IsCmd(toEcos[j], "request", b)
    BY <1>1 DEF ReleasesUndone
  <2>2. j - 1 \in DOMAIN toEcos' /\ toEcos'[j - 1] = toEcos[j]
    BY <1>1, <2>1
  <2> QED
    BY <2>1, <2>2 DEF HasRequest
<1>7. station'[b].viewed = IF IsCmd(c, "request", b) THEN TRUE
                           ELSE IF IsCmd(c, "release", b) THEN FALSE
                           ELSE station[b].viewed
  BY DEF c
<1> QED
  BY <1>2, <1>3, <1>4, <1>5, <1>6, <1>7 DEF WillView

(* The next command to be processed leaves the queue: queries stay behind   *)
(* the requests they belong to, and what is not about a property keeps its *)
(* place among what is asked and sent.                                     *)
LEMMA QueueProcessed ==
    ASSUME toEcos \in Seq(Commands), toEcos # <<>>, toEcos' = Tail(toEcos),
           UNCHANGED <<baseline, fnSweep>>, NEW b, NEW k
    PROVE  /\ QuerySound(b, k) => QuerySound(b, k)'
           /\ Asked(b, k) => Asked(b, k)' \/ IsGet(Head(toEcos), b, k)
           /\ (Get(b, k)' = Get(b, k) /\ WillChange(b, k)) =>
                 (WillChange(b, k)' \/ (IsSet(Head(toEcos), b, k) /\ Head(toEcos).val # Get(b, k)))
<1> DEFINE c == Head(toEcos)
<1>1. /\ 1 \in DOMAIN toEcos /\ toEcos[1] = c
      /\ \A i \in DOMAIN toEcos' :
            i \in Nat /\ i + 1 \in DOMAIN toEcos /\ toEcos'[i] = toEcos[i + 1]
      /\ \A i \in DOMAIN toEcos : i \in Nat
            /\ (i # 1 => i - 1 \in DOMAIN toEcos' /\ toEcos'[i - 1] = toEcos[i])
  BY Processed
<1> HIDE DEF c
<1>2. ASSUME QuerySound(b, k)
      PROVE  QuerySound(b, k)'
  <2> SUFFICES ASSUME NEW i \in DOMAIN toEcos', IsCmd(toEcos'[i], "request", b),
                      ~ToBeAsked(b, k)'
               PROVE  \E j \in DOMAIN toEcos' : j > i /\ IsGet(toEcos'[j], b, k)
    BY DEF QuerySound
  <2>1. i \in Nat /\ i + 1 \in DOMAIN toEcos /\ IsCmd(toEcos[i + 1], "request", b)
    BY <1>1
  <2>2. PICK j \in DOMAIN toEcos : j > i + 1 /\ IsGet(toEcos[j], b, k)
    BY <1>2, <2>1 DEF QuerySound, ToBeAsked
  <2>3. j - 1 \in DOMAIN toEcos' /\ toEcos'[j - 1] = toEcos[j] /\ j - 1 > i
    BY <1>1, <2>1, <2>2
  <2> QED
    BY <2>2, <2>3
<1>3. Asked(b, k) => Asked(b, k)' \/ IsGet(c, b, k)
  BY <1>1 DEF Asked, ToBeAsked, HasGet
<1>4. ASSUME Get(b, k)' = Get(b, k), WillChange(b, k)
      PROVE  WillChange(b, k)' \/ (IsSet(c, b, k) /\ c.val # Get(b, k))
  <2>1. ToBeSent(b, k) => ToBeSent(b, k)'
    BY <1>4 DEF ToBeSent, Raw
  <2>2. ASSUME ChangeSent(b, k), ~(IsSet(c, b, k) /\ c.val # Get(b, k))
        PROVE  ChangeSent(b, k)'
    <3>1. PICK i \in DOMAIN toEcos : IsSet(toEcos[i], b, k) /\ toEcos[i].val # Get(b, k)
      BY <2>2 DEF ChangeSent
    <3>2. i - 1 \in DOMAIN toEcos' /\ toEcos'[i - 1] = toEcos[i]
      BY <1>1, <2>2, <3>1
    <3> QED
      BY <1>4, <3>1, <3>2 DEF ChangeSent
  <2> QED
    BY <1>4, <2>1, <2>2 DEF WillChange
<1> QED
  BY <1>2, <1>3, <1>4 DEF c

(* What ECoS does with a command.                                          *)
StationDoes(c, a, k, v) ==
    /\ c.addr = a /\ c.key = k /\ c.val = v
    /\ c.op = "set" => v \in ValuesOf(k)
    /\ \/ /\ c.op \in {"request", "release"}
          /\ station' = [station EXCEPT ![a].viewed = (c.op = "request")]
          /\ UNCHANGED fromEcos
       \/ /\ c.op = "get"
          /\ fromEcos' = Append(fromEcos, Event(a, k, Get(a, k)))
          /\ UNCHANGED station
       \/ /\ c.op = "set"
          /\ station' = With(a, k, v)
          /\ \/ station[a].viewed /\ fromEcos' = Append(fromEcos, Event(a, k, v))
             \/ /\ ~station[a].viewed \/ station' = station
                /\ UNCHANGED fromEcos

(* What ECoS does with its next command, by the property it is about. *)
LEMMA StationProcesses ==
    ASSUME toEcos \in Seq(Commands), StationStep
    PROVE  \E a \in Addr, k \in Keys, v \in KeyValues : StationDoes(Head(toEcos), a, k, v)
<1> DEFINE c == Head(toEcos)
<1>1. PICK a \in Addr, k \in Keys, v \in KeyValues :
         /\ c.addr = a /\ c.key = k /\ c.val = v
         /\ c.op = "set" => v \in ValuesOf(k)
  <2>1. c \in Commands
    BY DEF StationStep
  <2> QED
    BY <2>1 DEF Commands
<1>2. StationDoes(c, c.addr, c.key, c.val)
  <2>1. \/ /\ c.op \in {"request", "release"}
           /\ station' = [station EXCEPT ![c.addr].viewed = (c.op = "request")]
           /\ UNCHANGED fromEcos
        \/ /\ c.op = "get"
           /\ fromEcos' = Append(fromEcos, Event(c.addr, c.key, Get(c.addr, c.key)))
           /\ UNCHANGED station
        \/ /\ c.op = "set"
           /\ station' = With(c.addr, c.key, c.val)
           /\ \/ station[c.addr].viewed
                    /\ fromEcos' = Append(fromEcos, Event(c.addr, c.key, c.val))
              \/ /\ ~station[c.addr].viewed \/ station' = station
                 /\ UNCHANGED fromEcos
    BY DEF StationStep, Report
  <2>2. c.op = "set" => c.val \in ValuesOf(c.key)
    BY <1>1
  <2> HIDE DEF c
  <2> QED
    BY <2>1, <2>2 DEF StationDoes
<1> HIDE DEF c
<1>3. StationDoes(c, a, k, v)
  BY <1>1, <1>2
<1> QED
  BY <1>3 DEF c

(* Only a request and a release change the view of a loco.                 *)
LEMMA ViewedAfter ==
    ASSUME TypeOK, StationStep, NEW b \in Addr
    PROVE  station'[b].viewed = IF IsCmd(Head(toEcos), "request", b) THEN TRUE
                                ELSE IF IsCmd(Head(toEcos), "release", b) THEN FALSE
                                ELSE station[b].viewed
<1>1. toEcos \in Seq(Commands) /\ station \in [Addr -> StationLocos]
  BY DEF TypeOK
<1>6. PICK c : c = Head(toEcos)
  OBVIOUS
<1>7. SUFFICES station'[b].viewed = IF IsCmd(c, "request", b) THEN TRUE
                                     ELSE IF IsCmd(c, "release", b) THEN FALSE
                                     ELSE station[b].viewed
  BY <1>6
<1>2. PICK a \in Addr, k \in Keys, v \in KeyValues : StationDoes(c, a, k, v)
  BY <1>1, <1>6, StationProcesses
<1>3. CASE c.op \in {"request", "release"}
  <2>1. c.addr = a /\ station' = [station EXCEPT ![a].viewed = (c.op = "request")]
    BY <1>2, <1>3 DEF StationDoes
  <2>2. b # a => station'[b] = station[b]
    BY <1>1, <2>1
  <2>3. station'[a].viewed = (c.op = "request")
    BY <1>1, <2>1 DEF StationLocos
  <2>4. CASE b # a
    <3>1. ~IsCmd(c, "request", b) /\ ~IsCmd(c, "release", b)
      BY <2>1, <2>4 DEF IsCmd
    <3> QED
      BY <2>2, <2>4, <3>1
  <2>5. CASE b = a /\ c.op = "request"
    BY <2>1, <2>3, <2>5 DEF IsCmd
  <2>6. CASE b = a /\ c.op = "release"
    <3>1. ~IsCmd(c, "request", b) /\ IsCmd(c, "release", b)
      BY <2>1, <2>6 DEF IsCmd
    <3>2. station'[b].viewed = FALSE
      BY <2>3, <2>6
    <3> QED
      BY <3>1, <3>2
  <2> QED
    BY <1>3, <2>4, <2>5, <2>6
<1>4. CASE c.op = "get"
  BY <1>2, <1>4 DEF StationDoes, IsCmd
<1>5. CASE c.op = "set"
  <2>1. v \in ValuesOf(k) /\ station' = With(a, k, v)
    BY <1>2, <1>5 DEF StationDoes
  <2>2. station'[b].viewed = station[b].viewed
    BY <1>1, <2>1, GetWith
  <2> QED
    BY <1>5, <2>2 DEF IsCmd
<1> QED
  BY <1>2, <1>3, <1>4, <1>5 DEF StationDoes

(* ECoS processes a command.                                               *)
LEMMA StationStepAgreed ==
    ASSUME AgreeInv, StationStep
    PROVE  \A b \in Addr : Agrees(b)'
<1> DEFINE c == Head(toEcos)
<1>1. /\ TypeOK /\ toEcos \in Seq(Commands) /\ fromEcos \in Seq(Events)
      /\ station \in [Addr -> StationLocos] /\ \A b \in Addr : Agrees(b)
  BY DEF AgreeInv, TypeOK
<1>2. /\ toEcos # <<>> /\ toEcos' = Tail(toEcos)
      /\ UNCHANGED <<locos, lastSent, baseline, fnSweep, lost>>
  BY DEF StationStep
<1>10. PICK a \in Addr, k \in Keys, v \in KeyValues : StationDoes(c, a, k, v)
  BY <1>1, StationProcesses
<1>3. c.addr = a /\ c.key = k /\ c.val = v /\ (c.op = "set" => v \in ValuesOf(k))
  BY <1>10 DEF StationDoes
<1>4. \/ /\ c.op \in {"request", "release"}
         /\ station' = [station EXCEPT ![a].viewed = (c.op = "request")]
         /\ UNCHANGED fromEcos
      \/ /\ c.op = "get"
         /\ fromEcos' = Append(fromEcos, Event(a, k, Get(a, k)))
         /\ UNCHANGED station
      \/ /\ c.op = "set"
         /\ station' = With(a, k, v)
         /\ \/ station[a].viewed /\ fromEcos' = Append(fromEcos, Event(a, k, v))
            \/ /\ ~station[a].viewed \/ station' = station
               /\ UNCHANGED fromEcos
  BY <1>10 DEF StationDoes
<1>5. SUFFICES ASSUME NEW b \in Addr
               PROVE  Agrees(b)'
  OBVIOUS
<1>6. station'[b].viewed = IF IsCmd(c, "request", b) THEN TRUE
                           ELSE IF IsCmd(c, "release", b) THEN FALSE
                           ELSE station[b].viewed
  BY <1>1, ViewedAfter
<1>7. WillView(b)' <=> WillView(b)
  BY <1>1, <1>2, <1>6, ViewProcessed
<1>8. ASSUME NEW h \in Keys, PropertySound(b, h), WillView(b), ~Asked(b, h)'
      PROVE  Followed(b, h)'
  <2>1. /\ Asked(b, h) => IsGet(c, b, h)
        /\ (Get(b, h)' = Get(b, h) /\ WillChange(b, h)) =>
              (WillChange(b, h)' \/ (IsSet(c, b, h) /\ c.val # Get(b, h)))
    BY <1>1, <1>2, <1>8, QueueProcessed
  <2>2. ~Asked(b, h) => Followed(b, h)
    BY <1>8 DEF PropertySound
  <2>3. CASE c.op \in {"request", "release"}
    <3>1. Get(b, h)' = Get(b, h)
      BY <1>1, <1>4, <2>3 DEF Get, StationLocos
    <3>2. ~IsGet(c, b, h) /\ ~IsSet(c, b, h)
      BY <2>3 DEF IsGet, IsSet
    <3>3. UNCHANGED fromEcos
      BY <1>4, <2>3
    <3> HIDE DEF c
    <3> QED
      BY <1>1, <1>2, <2>1, <2>2, <3>1, <3>2, <3>3, FollowedElsewhere
  <2>4. CASE c.op = "get"
    <3> DEFINE e == Event(a, k, Get(a, k))
    <3>1. /\ fromEcos' = Append(fromEcos, e) /\ UNCHANGED station
          /\ e.addr = a /\ e.key = k /\ e.val = Get(a, k)
      BY <1>4, <2>4 DEF Event
    <3>2. Get(b, h)' = Get(b, h)
      BY <3>1 DEF Get
    <3>3. ~IsSet(c, b, h) /\ (IsGet(c, b, h) <=> b = a /\ h = k)
      BY <1>3, <2>4 DEF IsGet, IsSet
    <3> HIDE DEF c, e
    <3>4. CASE b = a /\ h = k
      <4>1. IsAbout(e, b, h) /\ e.val = Get(b, h)'
        BY <3>1, <3>2, <3>4 DEF IsAbout
      <4> QED
        BY <1>1, <3>1, <4>1, FollowedReported
    <3>5. CASE ~(b = a /\ h = k)
      <4>1. ~IsAbout(e, b, h)
        BY <3>1, <3>5 DEF IsAbout
      <4> QED
        BY <1>1, <1>2, <2>1, <2>2, <3>1, <3>2, <3>3, <3>5, <4>1, FollowedElsewhere
    <3> QED
      BY <3>4, <3>5
  <2>5. CASE c.op = "set"
    <3> DEFINE e == Event(a, k, v)
    <3>1. /\ station' = With(a, k, v) /\ v \in ValuesOf(k)
          /\ \/ station[a].viewed /\ fromEcos' = Append(fromEcos, e)
             \/ /\ ~station[a].viewed \/ station' = station
                /\ UNCHANGED fromEcos
      BY <1>3, <1>4, <2>5
    <3>2. e.addr = a /\ e.key = k /\ e.val = v
      BY DEF Event
    <3>3. ~IsGet(c, b, h) /\ (IsSet(c, b, h) <=> b = a /\ h = k)
      BY <1>3, <2>5 DEF IsGet, IsSet
    <3>4. Followed(b, h)
      BY <2>1, <2>2, <3>3
    <3>5. /\ Get(a, k)' = v
          /\ b # a \/ h # k => Get(b, h)' = Get(b, h)
      BY <1>1, <3>1, GetWith
    <3>6. c.val = v
      BY <1>3
    <3> HIDE DEF c, e
    <3>7. CASE b = a /\ h = k
      <4>1. CASE fromEcos' = Append(fromEcos, e)
        <5>1. IsAbout(e, b, h) /\ e.val = Get(b, h)'
          BY <3>2, <3>5, <3>7 DEF IsAbout
        <5> QED
          BY <1>1, <4>1, <5>1, FollowedReported
      <4>2. CASE station' = station /\ UNCHANGED fromEcos
        <5>1. Get(b, h)' = Get(b, h)
          BY <4>2 DEF Get
        <5>2. WillChange(b, h) => WillChange(b, h)'
          BY <2>1, <3>5, <3>6, <3>7, <5>1
        <5> QED
          BY <1>1, <1>2, <3>4, <4>2, <5>1, <5>2, FollowedElsewhere
      <4>3. CASE ~station[a].viewed
        <5>1. Asked(b, h)
          BY <1>8, <3>7, <4>3, UnviewedIsAsked
        <5> QED
          BY <2>1, <3>3, <5>1
      <4> QED
        BY <3>1, <4>1, <4>2, <4>3
    <3>8. CASE ~(b = a /\ h = k)
      <4>1. ~IsAbout(e, b, h)
        BY <3>2, <3>8 DEF IsAbout
      <4>2. Get(b, h)' = Get(b, h) /\ (WillChange(b, h) => WillChange(b, h)')
        BY <2>1, <3>3, <3>5, <3>8
      <4>3. UNCHANGED fromEcos \/ fromEcos' = Append(fromEcos, e)
        BY <3>1
      <4> QED
        BY <1>1, <1>2, <3>4, <4>1, <4>2, <4>3, FollowedElsewhere
    <3> QED
      BY <3>7, <3>8
  <2> QED
    BY <1>4, <2>3, <2>4, <2>5
<1>9. ViewSound(b) /\ \A h \in Keys \ lost[b] : PropertySound(b, h)
  BY <1>1 DEF Agrees
<1>13. \A h \in Keys : QuerySound(b, h) => QuerySound(b, h)'
  BY <1>1, <1>2, QueueProcessed
<1>11. ViewSound(b)'
  BY <1>2, <1>7, <1>9 DEF ViewSound, Tracked
<1>12. \A h \in Keys \ lost'[b] : PropertySound(b, h)'
  BY <1>2, <1>7, <1>8, <1>9, <1>13 DEF PropertySound
<1> QED
  BY <1>11, <1>12 DEF Agrees, Keys

(* The operator changes a property at the ECoS.                            *)
LEMMA OperatorAgreed ==
    ASSUME AgreeInv, NEW a \in Addr, NEW k \in Keys, NEW v \in ValuesOf(k), Operator(a, k, v)
    PROVE  \A b \in Addr : Agrees(b)'
<1> DEFINE e == Event(a, k, v)
<1>1. /\ TypeOK /\ fromEcos \in Seq(Events) /\ \A b \in Addr : Agrees(b)
  BY DEF AgreeInv, TypeOK
<1>2. /\ UNCHANGED <<locos, lastSent, baseline, fnSweep, toEcos, lost>>
      /\ station' = With(a, k, v)
      /\ \/ station[a].viewed /\ fromEcos' = Append(fromEcos, e)
         \/ ~station[a].viewed /\ UNCHANGED fromEcos
  BY DEF Operator, Report
<1>3. e.addr = a /\ e.key = k /\ e.val = v
  BY DEF Event
<1> HIDE DEF e
<1>4. /\ Get(a, k)' = v
      /\ \A b \in Addr, h \in Keys : b # a \/ h # k => Get(b, h)' = Get(b, h)
      /\ \A b \in Addr : station'[b].viewed = station[b].viewed
  BY <1>1, <1>2, GetWith
<1>5. SUFFICES ASSUME NEW b \in Addr
               PROVE  Agrees(b)'
  OBVIOUS
<1>6. WillView(b)' <=> WillView(b)
  BY <1>2, <1>4 DEF WillView, ReleasesUndone, HasRequest
<1>7. \A h \in Keys : /\ QuerySound(b, h)' <=> QuerySound(b, h)
                      /\ Asked(b, h)' <=> Asked(b, h)
  BY <1>2 DEF QuerySound, Asked, ToBeAsked, HasGet
<1>8. ASSUME NEW h \in Keys, PropertySound(b, h), WillView(b), ~Asked(b, h)
      PROVE  Followed(b, h)'
  <2>1. Followed(b, h)
    BY <1>8 DEF PropertySound
  <2>2. CASE b = a /\ h = k
    <3>1. fromEcos' = Append(fromEcos, e)
      BY <1>2, <1>8, <2>2, UnviewedIsAsked
    <3>2. IsAbout(e, b, h) /\ e.val = Get(b, h)'
      BY <1>3, <1>4, <2>2 DEF IsAbout
    <3> QED
      BY <1>1, <3>1, <3>2, FollowedReported
  <2>3. CASE ~(b = a /\ h = k)
    <3>1. ~IsAbout(e, b, h)
      BY <1>3, <2>3 DEF IsAbout
    <3>2. Get(b, h)' = Get(b, h)
      BY <1>4, <2>3
    <3>3. WillChange(b, h) => WillChange(b, h)'
      BY <1>2, <3>2 DEF WillChange, ChangeSent, ToBeSent, Raw
    <3>4. UNCHANGED fromEcos \/ fromEcos' = Append(fromEcos, e)
      BY <1>2
    <3> QED
      BY <1>1, <1>2, <2>1, <3>1, <3>2, <3>3, <3>4, FollowedElsewhere
  <2> QED
    BY <2>2, <2>3
<1>9. ViewSound(b) /\ \A h \in Keys \ lost[b] : PropertySound(b, h)
  BY <1>1 DEF Agrees
<1>10. ViewSound(b)'
  BY <1>2, <1>6, <1>9 DEF ViewSound, Tracked
<1>11. \A h \in Keys \ lost'[b] : PropertySound(b, h)'
  BY <1>2, <1>6, <1>7, <1>8, <1>9 DEF PropertySound
<1> QED
  BY <1>10, <1>11 DEF Agrees, Keys

(* To begin with there is no view, and nothing under way.                  *)
LEMMA InitAgreed == Init => AgreeInv
<1> SUFFICES ASSUME Init
             PROVE  AgreeInv
  OBVIOUS
<1>1. TypeOK
  BY InitType
<1>2. \A a \in Addr : ~station[a].viewed /\ toEcos = <<>>
  BY DEF Init
<1>3. \A a \in Addr : ~WillView(a)
  BY <1>2 DEF WillView, HasRequest
<1>4. \A a \in Addr, k \in Keys : QuerySound(a, k)
  BY <1>2 DEF QuerySound
<1> QED
  BY <1>1, <1>3, <1>4 DEF AgreeInv, Agrees, ViewSound, PropertySound

(* Every step keeps table and ECoS in agreement.                           *)
LEMMA NextAgreed == AgreeInv /\ [Next]_vars => AgreeInv'
<1> SUFFICES ASSUME AgreeInv, [Next]_vars
             PROVE  AgreeInv'
  OBVIOUS
<1>1. TypeOK /\ \A b \in Addr : Agrees(b)
  BY DEF AgreeInv
<1>2. TypeOK'
  BY <1>1, NextType
<1>3. \A b \in Addr : Agrees(b)'
  <2>1. CASE \E t \in Throttles, a \in Addr, d \in Drives : ThrottleDrive(t, a, d)
    BY <2>1, DriveAgreed
  <2>2. CASE \E t \in Throttles, a \in Addr, g \in FnGroups : \E f \in g :
                \E F \in Bitmaps(t, a, g, f) : ThrottleFunctions(t, a, g, f, F)
    BY <2>2, FunctionsAgreed
  <2>3. CASE \E t \in Throttles, a \in Addr : ThrottleSelect(t, a)
    BY <2>3, SelectAgreed
  <2>4. CASE \E t \in Throttles, a \in Addr, d \in Drives : TableFull(t, a, d)
    BY <1>1, <2>4, NothingChanged DEF TableFull
  <2>5. CASE EcosDrive
    BY <2>5, EcosDriveAgreed
  <2>6. CASE EcosFunction
    BY <2>6, EcosFunctionAgreed
  <2>7. CASE PacedStep
    BY <2>7, PacedAgreed
  <2>8. CASE WindowCloses \/ BitsWindowCloses
    BY <1>1, <2>8, NothingChanged DEF WindowCloses, BitsWindowCloses
  <2>9. CASE \E a \in IdleAddr : Expire(a)
    BY <2>9, ExpireAgreed, RouterAssumption
  <2>10. CASE StationStep
    BY <2>10, StationStepAgreed
  <2>11. CASE \E a \in OperatorAddr, k \in Keys : \E v \in ValuesOf(k) : Operator(a, k, v)
    BY <2>11, OperatorAgreed, RouterAssumption
  <2>12. CASE UNCHANGED vars
    BY <1>1, <2>12, NothingChanged DEF vars
  <2> QED
    BY <2>1, <2>2, <2>3, <2>4, <2>5, <2>6, <2>7, <2>8, <2>9, <2>10, <2>11, <2>12 DEF Next
<1> QED
  BY <1>2, <1>3 DEF AgreeInv

(* Table and ECoS are on the way to agreement in every behaviour. *)
LEMMA AgreeInvariant == Spec => []AgreeInv
<1>1. Init => AgreeInv
  BY InitAgreed
<1>2. AgreeInv /\ [Next]_vars => AgreeInv'
  BY NextAgreed
<1> QED
  BY <1>1, <1>2, PTL DEF Spec

(* With nothing under way, every property that was not lost is the same.   *)
LEMMA QuietlyAgrees ==
    ASSUME AgreeInv, Quiescent, NEW a \in Addr, Watched(a), NEW k \in Keys \ lost[a]
    PROVE  Value(a, k) = Get(a, k)
<1>1. /\ toEcos = <<>> /\ fromEcos = <<>> /\ baseline.left = {} /\ fnSweep.left = {}
      /\ station[a].viewed
  BY DEF Quiescent, Watched
<1>2. WillView(a)
  BY <1>1 DEF WillView, ReleasesUndone
<1>3. ~Asked(a, k) /\ ~HasEvent(a, k) /\ ~WillChange(a, k)
  BY <1>1 DEF Asked, ToBeAsked, HasGet, HasEvent, WillChange, ChangeSent, ToBeSent
<1>4. PropertySound(a, k)
  BY DEF AgreeInv, Agrees
<1> QED
  BY <1>2, <1>3, <1>4 DEF PropertySound, Followed, TableTrue

(* Once nothing is under way the table has the speed and direction ECoS    *)
(* has, of every loco it is subscribed to, for any number of locos,        *)
(* throttles and commands, however their events and replies interleave.    *)
THEOREM DriveAlwaysAgrees == Spec => []DriveAgrees
<1>1. AgreeInv => DriveAgrees
  BY QuietlyAgrees DEF DriveAgrees, Keys
<1> QED
  BY <1>1, AgreeInvariant, PTL

(* The same for functions, whichever of them ECoS has inverted.            *)
THEOREM FunctionsAlwaysAgree == Spec => []FunctionsAgree
<1>1. ASSUME NEW a, NEW f \in Fns, Value(a, f) = Get(a, f)
      PROVE  f \in locos[a].fns <=> f \in StationFns(a)
  <2>1. f # "speed" /\ f # "dir"
    BY RouterAssumption
  <2>2. Raw(f, locos[a].fns) = Get(a, f)
    BY <1>1, <2>1 DEF Value
  <2>3. Get(a, f) = 1 <=> (f \in locos[a].fns) # (f \in Inverted)
    BY <2>2 DEF Raw
  <2> QED
    BY <2>3 DEF StationFns, Meaning
<1>2. AgreeInv => FunctionsAgree
  <2> SUFFICES ASSUME AgreeInv, Quiescent, NEW a \in Addr, Watched(a), NEW f \in Fns \ lost[a]
               PROVE  f \in locos[a].fns <=> f \in StationFns(a)
    BY DEF FunctionsAgree
  <2>1. Value(a, f) = Get(a, f)
    BY QuietlyAgrees DEF Keys
  <2> QED
    BY <1>1, <2>1
<1> QED
  BY <1>2, AgreeInvariant, PTL

(* A loco ECoS goes on reporting is in the table: expiry releases it.      *)
THEOREM ForgottenAlwaysReleased == Spec => []ForgottenIsReleased
<1>1. AgreeInv => ForgottenIsReleased
  BY DEF ForgottenIsReleased, Quiescent, AgreeInv, Agrees, ViewSound, WillView, ReleasesUndone
<1> QED
  BY <1>1, AgreeInvariant, PTL

-----------------------------------------------------------------------------
(* The last drive command.  As long as nothing has overruled it, the last  *)
(* set() of speed and of direction under way carries the values it asked   *)
(* for; without one ECoS has them.                                         *)
WishSound(a, k) ==
    (wish[a].drive # NoLoco /\ ~wish[a].resent) =>
        /\ HasSet(a, k) \/ Get(a, k) = DriveValue(wish[a].drive, k)
        /\ \A i \in DOMAIN toEcos :
              (IsSet(toEcos[i], a, k) /\ toEcos[i].val # DriveValue(wish[a].drive, k))
                  => \E j \in DOMAIN toEcos : j > i /\ IsSet(toEcos[j], a, k)
WishesSound == \A a \in Addr : \A k \in {"speed", "dir"} : WishSound(a, k)
WishInv == TypeOK /\ WishesSound

(* What is written is not about the speed and direction of the loco.       *)
LEMMA WishKept ==
    ASSUME NEW b, NEW k, WishSound(b, k),
           toEcos \in Seq(Commands), NEW s \in Seq(Commands), toEcos' = toEcos \o s,
           \A j \in DOMAIN s : ~IsSet(s[j], b, k),
           Get(b, k)' = Get(b, k),
           wish'[b].drive = wish[b].drive, wish'[b].resent = wish[b].resent
    PROVE  WishSound(b, k)'
<1>1. /\ \A i \in DOMAIN toEcos : i \in DOMAIN toEcos' /\ toEcos'[i] = toEcos[i]
      /\ \A i \in DOMAIN toEcos' :
            i \in DOMAIN toEcos \/ \E j \in DOMAIN s : toEcos'[i] = s[j]
  BY Written
<1>2. \A i \in DOMAIN toEcos' : IsSet(toEcos'[i], b, k)
         => i \in DOMAIN toEcos /\ toEcos'[i] = toEcos[i]
  BY <1>1
<1>3. HasSet(b, k)' <=> HasSet(b, k)
  BY <1>1, <1>2 DEF HasSet
<1> QED
  BY <1>1, <1>2, <1>3 DEF WishSound

(* Nothing is written at all.                                              *)
LEMMA WishStays ==
    ASSUME NEW b, NEW k, WishSound(b, k), UNCHANGED toEcos, Get(b, k)' = Get(b, k),
           wish'[b].drive = wish[b].drive, wish'[b].resent = wish[b].resent
    PROVE  WishSound(b, k)'
  BY DEF WishSound, HasSet

(* What is written last about speed and direction is what was asked for.   *)
LEMMA WishGranted ==
    ASSUME NEW b, NEW k, toEcos \in Seq(Commands), NEW s \in Seq(Commands),
           toEcos' = toEcos \o s,
           wish'[b].drive # NoLoco /\ ~wish'[b].resent =>
              /\ \E j \in DOMAIN s : IsSet(s[j], b, k)
              /\ \A j \in DOMAIN s :
                    IsSet(s[j], b, k) => s[j].val = DriveValue(wish'[b].drive, k)
    PROVE  WishSound(b, k)'
<1>1. SUFFICES ASSUME wish'[b].drive # NoLoco, ~wish'[b].resent
               PROVE  /\ HasSet(b, k)'
                      /\ \A i \in DOMAIN toEcos' :
                            (IsSet(toEcos'[i], b, k) /\ toEcos'[i].val # DriveValue(wish'[b].drive, k))
                               => \E j \in DOMAIN toEcos' : j > i /\ IsSet(toEcos'[j], b, k)
  BY DEF WishSound
<1>2. PICK n \in DOMAIN s : IsSet(s[n], b, k)
  BY <1>1
<1>3. PICK m \in DOMAIN toEcos' : toEcos'[m] = s[n] /\ \A h \in DOMAIN toEcos : m > h
  BY Written
<1>4. \A i \in DOMAIN toEcos' : i \in DOMAIN toEcos \/ \E j \in DOMAIN s : toEcos'[i] = s[j]
  BY Written
<1>5. HasSet(b, k)'
  BY <1>2, <1>3 DEF HasSet
<1>6. ASSUME NEW i \in DOMAIN toEcos', IsSet(toEcos'[i], b, k),
             toEcos'[i].val # DriveValue(wish'[b].drive, k)
      PROVE  \E j \in DOMAIN toEcos' : j > i /\ IsSet(toEcos'[j], b, k)
  <2>1. i \in DOMAIN toEcos
    BY <1>1, <1>4, <1>6
  <2> QED
    BY <1>2, <1>3, <2>1
<1> QED
  BY <1>5, <1>6

(* A written drive command sets both properties, each to the value asked for. *)
LEMMA DriveIsSet ==
    ASSUME NEW a, NEW s, NEW st, NEW k \in {"speed", "dir"}, WritesDrive(s, a, st)
    PROVE  /\ \E j \in DOMAIN s : IsSet(s[j], a, k)
           /\ \A j \in DOMAIN s : IsSet(s[j], a, k) => s[j].val = DriveValue(st, k)
<1>1. PICK j \in DOMAIN s : s[j] = Cmd("set", a, k, DriveValue(st, k))
  BY DEF WritesDrive
<1>2. IsSet(s[j], a, k)
  BY <1>1 DEF IsSet, Cmd
<1> QED
  BY <1>2 DEF WritesDrive

(* A drive command is a new wish, and is written.                          *)
LEMMA DriveWished ==
    ASSUME WishInv, NEW t \in Throttles, NEW a \in Addr, NEW d \in Drives,
           ThrottleDrive(t, a, d)
    PROVE  WishesSound'
<1> DEFINE st == [speed |-> d.speed, dir |-> d.dir, fns |-> StateOf(a).fns]
<1>1. TypeOK /\ toEcos \in Seq(Commands) /\ WishesSound /\ wish \in [Addr -> Wishes]
  BY DEF WishInv, TypeOK
<1>2. st \in Locos /\ st.speed = d.speed /\ st.dir = d.dir
  BY <1>1, StateOfType DEF Locos, Drives
<1>3. /\ toEcos' = toEcos \o Subscription(a) \o DriveSets(a, st)
      /\ UNCHANGED station
      /\ wish' = [wish EXCEPT ![a].users = @ \cup {t}, ![a].driver = t,
                              ![a].drive = d, ![a].resent = FALSE]
  BY DEF ThrottleDrive
<1>4. /\ wish'[a].drive = d
      /\ \A b \in Addr : b # a => wish'[b] = wish[b]
  BY <1>1, <1>3 DEF Wishes
<1> HIDE DEF st
<1>5. PICK s \in Seq(Commands) :
         /\ s = Subscription(a) \o DriveSets(a, st)
         /\ Tracked(a) => s = DriveSets(a, st)
         /\ WritesDrive(s, a, st)
  BY <1>2, DriveWritten
<1>6. toEcos' = toEcos \o s
  <2>1. Subscription(a) \in Seq(Commands) /\ DriveSets(a, st) \in Seq(Commands)
    BY <1>2, RequestType, DriveSetsType
  <2> QED
    BY <1>1, <1>3, <1>5, <2>1, JoinedTwice
<1>7. ASSUME NEW b \in Addr, NEW k \in {"speed", "dir"}
      PROVE  WishSound(b, k)'
  <2>1. CASE b = a
    <3>1. DriveValue(st, k) = DriveValue(wish'[a].drive, k)
      BY <1>2, <1>4 DEF DriveValue
    <3>2. /\ \E j \in DOMAIN s : IsSet(s[j], a, k)
          /\ \A j \in DOMAIN s : IsSet(s[j], a, k) => s[j].val = DriveValue(st, k)
      <4>1. WritesDrive(s, a, st)
        BY <1>5
      <4> QED
        BY <4>1, DriveIsSet
    <3> QED
      BY <1>1, <1>5, <1>6, <2>1, <3>1, <3>2, WishGranted
  <2>2. CASE b # a
    <3>1. WishSound(b, k) /\ wish'[b] = wish[b]
      BY <1>1, <1>4, <2>2 DEF WishesSound
    <3>2. Get(b, k)' = Get(b, k)
      BY <1>3 DEF Get
    <3>3. \A j \in DOMAIN s : ~IsSet(s[j], b, k)
      BY <1>5, <2>2 DEF WritesDrive, IsSet
    <3> QED
      BY <1>1, <1>6, <3>1, <3>2, <3>3, WishKept
  <2> QED
    BY <2>1, <2>2
<1> QED
  BY <1>7 DEF WishesSound

(* A function command sends the table's drive again.  If that is another    *)
(* one than was asked for, the wish is overruled.                          *)
LEMMA FunctionsWished ==
    ASSUME WishInv, NEW t \in Throttles, NEW a \in Addr, NEW g \in FnGroups, NEW f \in g,
           NEW F \in Bitmaps(t, a, g, f), ThrottleFunctions(t, a, g, f, F)
    PROVE  WishesSound'
<1> DEFINE st == [StateOf(a) EXCEPT !.fns = F]
<1>1. TypeOK /\ toEcos \in Seq(Commands) /\ WishesSound /\ wish \in [Addr -> Wishes]
  BY DEF WishInv, TypeOK
<1>2. StateOf(a) \in Locos
  BY <1>1, StateOfType
<1>3. F \in SUBSET Fns
  <2>1. g \in SUBSET Fns /\ f \in Fns /\ StateOf(a).fns \in SUBSET Fns
    BY <1>2, RouterAssumption DEF Locos
  <2> QED
    BY <2>1 DEF Bitmaps
<1>4. st \in Locos /\ st.speed = StateOf(a).speed /\ st.dir = StateOf(a).dir
  BY <1>2, <1>3 DEF Locos
<1>5. /\ SendFunctions(a, F, toEcos \o Subscription(a) \o DriveSets(a, st))
      /\ UNCHANGED station
      /\ wish' = [wish EXCEPT ![a] = Wanted(a, t, f, F)]
  BY DEF ThrottleFunctions
<1>6. /\ wish'[a].drive = wish[a].drive
      /\ wish'[a].drive # NoLoco /\ ~wish'[a].resent => SameDrive(StateOf(a), wish'[a].drive)
      /\ \A b \in Addr : b # a => wish'[b] = wish[b]
  <2>1. wish'[a] = Wanted(a, t, f, F) /\ \A b \in Addr : b # a => wish'[b] = wish[b]
    BY <1>1, <1>5
  <2>2. wish[a] \in Wishes
    BY <1>1
  <2>3. /\ Wanted(a, t, f, F).drive = wish[a].drive
        /\ Wanted(a, t, f, F).resent =
              (wish[a].resent \/ (wish[a].drive # NoLoco /\ ~SameDrive(StateOf(a), wish[a].drive)))
    BY <2>2 DEF Wanted, Wishes
  <2> QED
    BY <2>1, <2>3
<1> HIDE DEF st
<1>7. PICK s \in Seq(Commands) :
         toEcos' = toEcos \o s /\ WritesDrive(s, a, st) /\ WritesFunctions(s, a, F)
  BY <1>1, <1>3, <1>4, <1>5, FunctionsWritten
<1>8. ASSUME NEW b \in Addr, NEW k \in {"speed", "dir"}
      PROVE  WishSound(b, k)'
  <2>1. CASE b = a
    <3>1. wish'[a].drive # NoLoco /\ ~wish'[a].resent =>
             DriveValue(st, k) = DriveValue(wish'[a].drive, k)
      BY <1>4, <1>6 DEF DriveValue, SameDrive
    <3>2. /\ \E j \in DOMAIN s : IsSet(s[j], a, k)
          /\ \A j \in DOMAIN s : IsSet(s[j], a, k) => s[j].val = DriveValue(st, k)
      BY <1>7, DriveIsSet
    <3> QED
      BY <1>1, <1>7, <2>1, <3>1, <3>2, WishGranted
  <2>2. CASE b # a
    <3>1. WishSound(b, k) /\ wish'[b] = wish[b]
      BY <1>1, <1>6, <2>2 DEF WishesSound
    <3>2. Get(b, k)' = Get(b, k)
      BY <1>5 DEF Get
    <3>3. \A j \in DOMAIN s : ~IsSet(s[j], b, k)
      BY <1>7, <2>2 DEF WritesDrive, IsSet
    <3> QED
      BY <1>1, <1>7, <3>1, <3>2, <3>3, WishKept
  <2> QED
    BY <2>1, <2>2
<1> QED
  BY <1>8 DEF WishesSound

(* A selection may request the view.                                       *)
LEMMA SelectWished ==
    ASSUME WishInv, NEW t \in Throttles, NEW a \in Addr, ThrottleSelect(t, a)
    PROVE  WishesSound'
<1>1. toEcos \in Seq(Commands) /\ UNCHANGED <<station, wish>>
  BY DEF WishInv, TypeOK, ThrottleSelect
<1>2. SUFFICES ASSUME NEW b \in Addr, NEW k \in {"speed", "dir"}
               PROVE  WishSound(b, k)'
  BY DEF WishesSound
<1>3. /\ WishSound(b, k) /\ wish'[b].drive = wish[b].drive
      /\ wish'[b].resent = wish[b].resent /\ Get(b, k)' = Get(b, k)
  BY <1>1 DEF WishInv, WishesSound, Get
<1>4. CASE UNCHANGED toEcos
  BY <1>3, <1>4, WishStays
<1>5. CASE toEcos' = toEcos \o Request(a)
  <2>1. Request(a) \in Seq(Commands)
    BY RequestType
  <2>2. \A j \in DOMAIN Request(a) : ~IsSet(Request(a)[j], b, k)
    BY DEF Request, Cmd, IsSet
  <2> QED
    BY <1>1, <1>3, <1>5, <2>1, <2>2, WishKept
<1> QED
  BY <1>4, <1>5 DEF ThrottleSelect

(* Paced steps ask, and set functions.                                     *)
LEMMA PacedWished ==
    ASSUME WishInv, PacedStep
    PROVE  WishesSound'
<1> DEFINE k == NextKey(baseline.left)
           f == NextKey(fnSweep.left)
           get == Cmd("get", baseline.addr, k, 0)
           set == Cmd("set", fnSweep.addr, f, Raw(f, fnSweep.fns))
           gets == IF baseline.left # {} THEN <<get>> ELSE <<>>
           sets == IF fnSweep.left # {} THEN <<set>> ELSE <<>>
<1>1. /\ toEcos \in Seq(Commands) /\ WishesSound
      /\ baseline \in Baselines /\ fnSweep \in FnSweeps
  BY DEF WishInv, TypeOK
<1>2. gets \in Seq(Commands)
  <2> SUFFICES ASSUME baseline.left # {}
               PROVE  get \in Commands
    OBVIOUS
  <2>1. baseline.addr \in Addr /\ baseline.left \in SUBSET Keys
    BY <1>1 DEF Baselines
  <2>2. k \in Keys
    BY <2>1, NextKeyIsMember
  <2> QED
    BY <2>1, <2>2 DEF Cmd, Commands, KeyValues
<1>3. sets \in Seq(Commands) /\ (fnSweep.left # {} => f \in Fns)
  <2> SUFFICES ASSUME fnSweep.left # {}
               PROVE  set \in Commands /\ f \in Fns
    OBVIOUS
  <2>1. fnSweep.addr \in Addr /\ fnSweep.left \in SUBSET Fns
    BY <1>1 DEF FnSweeps
  <2>2. f \in Fns
    BY <2>1, NextKeyIsMember
  <2> QED
    BY <2>1, <2>2, FunctionCmdType
<1>4. toEcos' = toEcos \o gets \o sets /\ UNCHANGED <<station, wish>>
  BY DEF PacedStep
<1>5. /\ \A j \in DOMAIN gets : gets[j] = get
      /\ \A j \in DOMAIN sets : sets[j] = set /\ fnSweep.left # {}
  OBVIOUS
<1>6. get.op = "get" /\ set.key = f
  BY DEF Cmd
<1> HIDE DEF gets, sets, get, set, k, f
<1> DEFINE s == gets \o sets
<1>7. /\ s \in Seq(Commands)
      /\ \A j \in DOMAIN s : \/ \E i \in DOMAIN gets : s[j] = gets[i]
                             \/ \E i \in DOMAIN sets : s[j] = sets[i]
  BY <1>2, <1>3, Joined
<1>8. toEcos' = toEcos \o s
  <2>1. (toEcos \o gets) \o sets = toEcos \o (gets \o sets)
    BY <1>1, <1>2, <1>3, JoinedTwice
  <2> QED
    BY <1>4, <2>1
<1> HIDE DEF s
<1>9. ASSUME NEW b \in Addr, NEW h \in {"speed", "dir"}
      PROVE  WishSound(b, h)'
  <2>1. \A j \in DOMAIN s : ~IsSet(s[j], b, h)
    BY <1>3, <1>5, <1>6, <1>7, RouterAssumption DEF IsSet
  <2>2. /\ WishSound(b, h) /\ wish'[b].drive = wish[b].drive
        /\ wish'[b].resent = wish[b].resent /\ Get(b, h)' = Get(b, h)
    BY <1>1, <1>4 DEF WishesSound, Get
  <2> QED
    BY <1>1, <1>7, <1>8, <2>1, <2>2, WishKept
<1> QED
  BY <1>9 DEF WishesSound

(* Expiry releases.                                                        *)
LEMMA ExpireWished ==
    ASSUME WishInv, NEW a \in Addr, Expire(a)
    PROVE  WishesSound'
<1> DEFINE c == Cmd("release", a, "speed", 0)
           s == <<c>>
<1>1. /\ toEcos \in Seq(Commands) /\ toEcos' = Append(toEcos, c)
      /\ UNCHANGED <<station, wish>>
  BY DEF WishInv, TypeOK, Expire
<1>2. c \in Commands /\ c.op = "release"
  BY DEF Cmd, Commands, Keys, KeyValues
<1> HIDE DEF c
<1>3. s \in Seq(Commands) /\ toEcos' = toEcos \o s /\ \A j \in DOMAIN s : s[j] = c
  BY <1>1, <1>2
<1> HIDE DEF s
<1>4. ASSUME NEW b \in Addr, NEW k \in {"speed", "dir"}
      PROVE  WishSound(b, k)'
  <2>1. \A j \in DOMAIN s : ~IsSet(s[j], b, k)
    BY <1>2, <1>3 DEF IsSet
  <2>2. /\ WishSound(b, k) /\ wish'[b].drive = wish[b].drive
        /\ wish'[b].resent = wish[b].resent /\ Get(b, k)' = Get(b, k)
    BY <1>1 DEF WishInv, WishesSound, Get
  <2> QED
    BY <1>1, <1>3, <2>1, <2>2, WishKept
<1> QED
  BY <1>4 DEF WishesSound

(* ECoS processes a command.                                               *)
LEMMA StationStepWished ==
    ASSUME WishInv, StationStep
    PROVE  WishesSound'
<1> DEFINE c == Head(toEcos)
<1>1. TypeOK /\ toEcos \in Seq(Commands) /\ station \in [Addr -> StationLocos]
  BY DEF WishInv, TypeOK
<1>2. toEcos # <<>> /\ toEcos' = Tail(toEcos) /\ UNCHANGED wish
  BY DEF StationStep
<1>3. PICK a \in Addr, k \in Keys, v \in KeyValues :
         /\ c.addr = a /\ c.key = k /\ c.val = v
         /\ c.op = "set" => v \in ValuesOf(k)
  <2>1. c \in Commands
    BY <1>1, <1>2
  <2> QED
    BY <2>1 DEF Commands
<1>4. \/ c.op # "set" /\ station' = [station EXCEPT ![a].viewed = (c.op = "request")]
      \/ c.op # "set" /\ UNCHANGED station
      \/ c.op = "set" /\ station' = With(a, k, v)
  <2>1. \/ /\ c.op \in {"request", "release"}
           /\ station' = [station EXCEPT ![c.addr].viewed = (c.op = "request")]
        \/ c.op = "get" /\ UNCHANGED station
        \/ c.op = "set" /\ station' = With(c.addr, c.key, c.val)
    BY DEF StationStep
  <2> HIDE DEF c
  <2> QED
    BY <1>3, <2>1
<1>5. /\ 1 \in DOMAIN toEcos /\ toEcos[1] = c
      /\ \A i \in DOMAIN toEcos' :
            i \in Nat /\ i + 1 \in DOMAIN toEcos /\ toEcos'[i] = toEcos[i + 1]
      /\ \A i \in DOMAIN toEcos : i \in Nat
            /\ (i # 1 => i - 1 \in DOMAIN toEcos' /\ toEcos'[i - 1] = toEcos[i])
  BY <1>1, <1>2, Processed
<1> HIDE DEF c
<1>6. SUFFICES ASSUME NEW b \in Addr, NEW h \in {"speed", "dir"}, WishSound(b, h),
                      wish[b].drive # NoLoco, ~wish[b].resent
               PROVE  WishSound(b, h)'
  <2>1. \A b \in Addr, h \in {"speed", "dir"} : WishSound(b, h)
    BY DEF WishInv, WishesSound
  <2>2. \A b \in Addr, h \in {"speed", "dir"} :
           wish[b].drive = NoLoco \/ wish[b].resent => WishSound(b, h)'
    BY <1>2 DEF WishSound
  <2> QED
    BY <2>1, <2>2 DEF WishesSound
<1> DEFINE w == DriveValue(wish[b].drive, h)
<1>7. DriveValue(wish[b].drive, h)' = w
  BY <1>2 DEF DriveValue
<1>8. ASSUME NEW i \in DOMAIN toEcos', IsSet(toEcos'[i], b, h), toEcos'[i].val # w
      PROVE  \E j \in DOMAIN toEcos' : j > i /\ IsSet(toEcos'[j], b, h)
  <2>1. i \in Nat /\ i + 1 \in DOMAIN toEcos /\ toEcos'[i] = toEcos[i + 1]
    BY <1>5
  <2>2. PICK j \in DOMAIN toEcos : j > i + 1 /\ IsSet(toEcos[j], b, h)
    BY <1>6, <1>8, <2>1 DEF WishSound
  <2>3. j - 1 \in DOMAIN toEcos' /\ toEcos'[j - 1] = toEcos[j] /\ j - 1 > i
    BY <1>5, <2>1, <2>2
  <2> QED
    BY <2>2, <2>3
<1>9. HasSet(b, h)' \/ Get(b, h)' = w
  <2>1. HasSet(b, h) => HasSet(b, h)' \/ IsSet(c, b, h)
    BY <1>5 DEF HasSet
  <2>2. CASE IsSet(c, b, h)
    <3>1. b = a /\ h = k /\ c.op = "set"
      BY <1>3, <2>2 DEF IsSet
    <3>2. Get(b, h)' = v
      BY <1>1, <1>3, <1>4, <3>1, GetWith
    <3>3. v = w \/ \E j \in DOMAIN toEcos : j > 1 /\ IsSet(toEcos[j], b, h)
      BY <1>3, <1>5, <1>6, <2>2 DEF WishSound
    <3>4. (\E j \in DOMAIN toEcos : j > 1 /\ IsSet(toEcos[j], b, h)) => HasSet(b, h)'
      BY <1>5 DEF HasSet
    <3> QED
      BY <3>2, <3>3, <3>4
  <2>3. CASE ~IsSet(c, b, h)
    <3>1. Get(b, h)' = Get(b, h)
      <4>1. CASE c.op # "set"
        BY <1>1, <1>4, <4>1 DEF Get, StationLocos
      <4>2. CASE c.op = "set"
        <5>1. b # a \/ h # k
          BY <1>3, <2>3, <4>2 DEF IsSet
        <5>2. h \in Keys
          BY DEF Keys
        <5> QED
          BY <1>1, <1>3, <1>4, <4>2, <5>1, <5>2, GetWith
      <4> QED
        BY <4>1, <4>2
    <3> QED
      BY <1>6, <2>1, <2>3, <3>1 DEF WishSound
  <2> QED
    BY <2>2, <2>3
<1> HIDE DEF w
<1>10. WishSound(b, h)' <=>
          ((wish'[b].drive # NoLoco /\ ~wish'[b].resent) =>
              /\ HasSet(b, h)' \/ Get(b, h)' = w
              /\ \A i \in DOMAIN toEcos' : (IsSet(toEcos'[i], b, h) /\ toEcos'[i].val # w)
                    => \E j \in DOMAIN toEcos' : j > i /\ IsSet(toEcos'[j], b, h))
  BY <1>7 DEF WishSound
<1> QED
  BY <1>8, <1>9, <1>10

(* The operator overrules a throttle.                                      *)
LEMMA OperatorWished ==
    ASSUME WishInv, NEW a \in Addr, NEW k \in Keys, NEW v \in ValuesOf(k), Operator(a, k, v)
    PROVE  WishesSound'
<1>1. TypeOK /\ wish \in [Addr -> Wishes]
  BY DEF WishInv, TypeOK
<1>2. /\ station' = With(a, k, v) /\ UNCHANGED toEcos
      /\ wish' = [wish EXCEPT ![a].drive = IF k \in Fns THEN @ ELSE NoLoco,
                              ![a].on = @ \ {k}, ![a].off = @ \ {k}]
  BY DEF Operator
<1>3. /\ wish'[a].drive = IF k \in Fns THEN wish[a].drive ELSE NoLoco
      /\ wish'[a].resent = wish[a].resent
      /\ \A b \in Addr : b # a => wish'[b] = wish[b]
  BY <1>1, <1>2 DEF Wishes
<1>4. SUFFICES ASSUME NEW b \in Addr, NEW h \in {"speed", "dir"}
               PROVE  WishSound(b, h)'
  BY DEF WishesSound
<1>5. WishSound(b, h)
  BY DEF WishInv, WishesSound
<1>6. CASE b = a /\ k \notin Fns
  BY <1>3, <1>6 DEF WishSound
<1>7. CASE b # a \/ k \in Fns
  <2>1. h \in Keys /\ (b # a \/ h # k)
    BY <1>7, RouterAssumption DEF Keys
  <2>2. Get(b, h)' = Get(b, h)
    BY <1>1, <1>2, <2>1, GetWith
  <2>3. wish'[b].drive = wish[b].drive /\ wish'[b].resent = wish[b].resent
    BY <1>3, <1>7
  <2> QED
    BY <1>2, <1>5, <2>2, <2>3, WishStays
<1> QED
  BY <1>6, <1>7

(* The last wish is on its way, or has arrived, in every behaviour. *)
LEMMA WishInvariant == Spec => []WishInv
<1>1. Init => WishInv
  <2> SUFFICES ASSUME Init
               PROVE  WishInv
    OBVIOUS
  <2>1. \A a \in Addr : wish[a].drive = NoLoco
    BY DEF Init
  <2> QED
    BY <2>1, InitType DEF WishInv, WishesSound, WishSound
<1>2. WishInv /\ [Next]_vars => WishInv'
  <2> SUFFICES ASSUME WishInv, [Next]_vars
               PROVE  WishInv'
    OBVIOUS
  <2>1. TypeOK'
    BY NextType DEF WishInv
  <2>2. WishesSound'
    <3>1. ASSUME UNCHANGED <<toEcos, station, wish>>
          PROVE  WishesSound'
      BY <3>1 DEF WishInv, WishesSound, WishSound, HasSet, Get
    <3>2. CASE \E t \in Throttles, a \in Addr, d \in Drives : ThrottleDrive(t, a, d)
      BY <3>2, DriveWished
    <3>3. CASE \E t \in Throttles, a \in Addr, g \in FnGroups : \E f \in g :
                  \E F \in Bitmaps(t, a, g, f) : ThrottleFunctions(t, a, g, f, F)
      BY <3>3, FunctionsWished
    <3>4. CASE \E t \in Throttles, a \in Addr : ThrottleSelect(t, a)
      BY <3>4, SelectWished
    <3>5. CASE \E t \in Throttles, a \in Addr, d \in Drives : TableFull(t, a, d)
      BY <3>1, <3>5 DEF TableFull
    <3>6. CASE EcosDrive \/ EcosFunction \/ WindowCloses \/ BitsWindowCloses
      BY <3>1, <3>6 DEF EcosDrive, EcosFunction, WindowCloses, BitsWindowCloses
    <3>7. CASE PacedStep
      BY <3>7, PacedWished
    <3>8. CASE \E a \in IdleAddr : Expire(a)
      BY <3>8, ExpireWished, RouterAssumption
    <3>9. CASE StationStep
      BY <3>9, StationStepWished
    <3>10. CASE \E a \in OperatorAddr, k \in Keys : \E v \in ValuesOf(k) : Operator(a, k, v)
      BY <3>10, OperatorWished, RouterAssumption
    <3>11. CASE UNCHANGED vars
      BY <3>1, <3>11 DEF vars
    <3> QED
      BY <3>2, <3>3, <3>4, <3>5, <3>6, <3>7, <3>8, <3>9, <3>10, <3>11 DEF Next
  <2> QED
    BY <2>1, <2>2 DEF WishInv
<1> QED
  BY <1>1, <1>2, PTL DEF Spec

(* A loco ends up at the speed and in the direction asked for last, unless *)
(* the operator or the drive in a function command overruled it: no echo,  *)
(* reply or expiry is turned back into a command.                          *)
THEOREM LastDriveAlwaysObeyed == Spec => []LastDriveWins
<1>1. WishInv => LastDriveWins
  <2> SUFFICES ASSUME WishInv, Quiescent, NEW a \in Addr,
                      wish[a].drive # NoLoco, ~wish[a].resent
               PROVE  SameDrive(station[a], wish[a].drive)
    BY DEF LastDriveWins
  <2>1. ASSUME NEW k \in {"speed", "dir"}
        PROVE  Get(a, k) = DriveValue(wish[a].drive, k)
    BY <2>1 DEF WishInv, WishesSound, WishSound, HasSet, Quiescent
  <2>2. /\ Get(a, "speed") = station[a].speed /\ Get(a, "dir") = station[a].dir
        /\ DriveValue(wish[a].drive, "speed") = wish[a].drive.speed
        /\ DriveValue(wish[a].drive, "dir") = wish[a].drive.dir
    BY DEF Get, DriveValue
  <2> QED
    BY <2>1, <2>2 DEF SameDrive
<1> QED
  BY <1>1, WishInvariant, PTL

-----------------------------------------------------------------------------
(* What the throttles show.  The attribution window is open for a loco in   *)
(* the table and a throttle that commanded it, the last driver if it was   *)
(* opened by a drive command.  Every throttle but the last driver shows    *)
(* the table's speed and direction, every one that never commanded the     *)
(* loco also its functions, unless what it shows is older than the entry.  *)
EchoSound ==
    echo.open => /\ echo.addr \in Addr /\ Tracked(echo.addr)
                 /\ echo.src \in wish[echo.addr].users
                 /\ echo.type = "SPEED" => wish[echo.addr].driver = echo.src
DriverIsUser(a) == wish[a].driver # NoSource => wish[a].driver \in wish[a].users
DriveShown(a) ==
    \A t \in Throttles \ stale[a].drive :
        wish[a].driver # t => SameDrive(shown[t][a], StateOf(a))
FunctionsShown(a) ==
    \A t \in Throttles \ stale[a].fns :
        t \notin wish[a].users => shown[t][a].fns = StateOf(a).fns
DisplaySound(a) == DriverIsUser(a) /\ DriveShown(a) /\ FunctionsShown(a)
DisplayInv == TypeOK /\ EchoSound /\ \A a \in Addr : DisplaySound(a)

(* What the throttles show, and whose displays are old, once the throttles  *)
(* in T are told the drive state of a loco, or all of its state.           *)
DriveTold(T, a, st) == Tell(T, a, st, FALSE)
StateTold(T, a, st) == Tell(T, a, st, TRUE)
OldAfterDrive(T, a) == Told(T, a, FALSE)
OldAfterState(T, a) == Told(T, a, TRUE)

(* Telling throttles of a loco: what they show then, and which displays     *)
(* are still old.                                                          *)
LEMMA TellDrive ==
    ASSUME TypeOK, NEW T, NEW a \in Addr, NEW st \in Locos, NEW t \in Throttles
    PROVE  /\ \A b \in Addr : b # a => DriveTold(T, a, st)[t][b] = shown[t][b]
           /\ t \notin T => DriveTold(T, a, st)[t][a] = shown[t][a]
           /\ t \in T => SameDrive(DriveTold(T, a, st)[t][a], st)
           /\ t \in T /\ WholeState(t) => DriveTold(T, a, st)[t][a] = st
           /\ ~WholeState(t) => DriveTold(T, a, st)[t][a].fns = shown[t][a].fns
<1> DEFINE s == DriveTold(T, a, st)[t]
<1>1. shown[t] \in [Addr -> Locos] /\ shown[t][a] \in Locos
  BY DEF TypeOK
<1>2. s = IF t \notin T THEN shown[t]
          ELSE [shown[t] EXCEPT ![a] =
                  IF WholeState(t) THEN st ELSE DrivePart(shown[t][a], st)]
  BY DEF Tell, DriveTold, StateTold
<1>3. /\ DrivePart(shown[t][a], st).speed = st.speed
      /\ DrivePart(shown[t][a], st).dir = st.dir
      /\ DrivePart(shown[t][a], st).fns = shown[t][a].fns
  BY <1>1 DEF DrivePart, Locos
<1>4. \A b \in Addr : b # a => s[b] = shown[t][b]
  BY <1>1, <1>2
<1>5. t \notin T => s[a] = shown[t][a]
  BY <1>2
<1>6. t \in T => s[a] = IF WholeState(t) THEN st ELSE DrivePart(shown[t][a], st)
  BY <1>1, <1>2
<1> HIDE DEF s
<1>7. t \in T => SameDrive(s[a], st)
  BY <1>3, <1>6 DEF SameDrive
<1> QED
  BY <1>3, <1>4, <1>5, <1>6, <1>7 DEF s

(* A broadcast of a state reaches the throttles it is for, about its loco only. *)
LEMMA TellAll ==
    ASSUME TypeOK, NEW T, NEW a \in Addr, NEW st \in Locos, NEW t \in Throttles
    PROVE  /\ \A b \in Addr : b # a => StateTold(T, a, st)[t][b] = shown[t][b]
           /\ t \notin T => StateTold(T, a, st)[t][a] = shown[t][a]
           /\ t \in T => StateTold(T, a, st)[t][a] = st
<1>1. shown[t] \in [Addr -> Locos]
  BY DEF TypeOK
<1>2. StateTold(T, a, st)[t] =
         IF t \notin T THEN shown[t] ELSE [shown[t] EXCEPT ![a] = st]
  BY DEF Tell, DriveTold, StateTold
<1> QED
  BY <1>1, <1>2

(* Who is told of a drive no longer shows an old one. *)
LEMMA ToldDrive ==
    ASSUME TypeOK, NEW T, NEW a \in Addr
    PROVE  /\ \A b \in Addr : b # a => OldAfterDrive(T, a)[b] = stale[b]
           /\ OldAfterDrive(T, a)[a].drive = stale[a].drive \ T
           /\ \A t : t \in OldAfterDrive(T, a)[a].fns <=>
                 t \in stale[a].fns /\ ~(t \in T /\ WholeState(t))
<1>1. stale \in [Addr -> StaleDisplays] /\ stale[a] \in StaleDisplays
  BY DEF TypeOK
<1>2. /\ \A b \in Addr : b # a => OldAfterDrive(T, a)[b] = stale[b]
      /\ OldAfterDrive(T, a)[a].drive = stale[a].drive \ T
      /\ OldAfterDrive(T, a)[a].fns = stale[a].fns \ {t \in T : FALSE \/ WholeState(t)}
  BY <1>1 DEF Told, OldAfterDrive, OldAfterState, StaleDisplays
<1> QED
  BY <1>2

(* Who is told of a whole state no longer shows anything old. *)
LEMMA ToldAll ==
    ASSUME TypeOK, NEW T, NEW a \in Addr
    PROVE  /\ \A b \in Addr : b # a => OldAfterState(T, a)[b] = stale[b]
           /\ OldAfterState(T, a)[a].drive = stale[a].drive \ T
           /\ \A t : t \in OldAfterState(T, a)[a].fns <=> t \in stale[a].fns /\ t \notin T
<1>1. stale \in [Addr -> StaleDisplays] /\ stale[a] \in StaleDisplays
  BY DEF TypeOK
<1>2. /\ \A b \in Addr : b # a => OldAfterState(T, a)[b] = stale[b]
      /\ OldAfterState(T, a)[a].drive = stale[a].drive \ T
      /\ OldAfterState(T, a)[a].fns = stale[a].fns \ {t \in T : TRUE \/ WholeState(t)}
  BY <1>1 DEF Told, OldAfterDrive, OldAfterState, StaleDisplays
<1> QED
  BY <1>2

(* A loco nothing is said or done about.                                   *)
LEMMA DisplayKept ==
    ASSUME NEW b \in Addr, DisplaySound(b), locos'[b] = locos[b], stale'[b] = stale[b],
           \A t \in Throttles : shown'[t][b] = shown[t][b],
           wish'[b].users = wish[b].users, wish'[b].driver = wish[b].driver
    PROVE  DisplaySound(b)'
<1>1. StateOf(b)' = StateOf(b)
  BY DEF StateOf, Tracked, Placeholder
<1> QED
  BY <1>1 DEF DisplaySound, DriverIsUser, DriveShown, FunctionsShown

(* The window stays open for a loco in the table.                          *)
LEMMA EchoKept ==
    ASSUME EchoSound, echo' = echo,
           \A b \in Addr : Tracked(b) /\ echo.open /\ echo.addr = b => Tracked(b)',
           \A b \in Addr : wish[b].users \subseteq wish'[b].users
                           /\ wish'[b].driver = wish[b].driver
    PROVE  EchoSound'
  BY DEF EchoSound

(* What is stored is what StateOf() gives.                                 *)
LEMMA StoredState ==
    ASSUME TypeOK, NEW a \in Addr, NEW st \in Locos, locos' = [locos EXCEPT ![a] = st]
    PROVE  /\ Tracked(a)' /\ StateOf(a)' = st
           /\ \A b \in Addr : b # a => locos'[b] = locos[b]
           /\ \A b \in Addr : Tracked(b) => Tracked(b)'
<1>1. locos \in [Addr -> Locos \cup {NoLoco}]
  BY DEF TypeOK
<1>2. locos'[a] = st /\ \A b \in Addr : b # a => locos'[b] = locos[b]
  BY <1>1
<1>3. Tracked(a)'
  BY <1>2, RouterAssumption DEF Tracked
<1>4. StateOf(a)' = st
  BY <1>2, <1>3 DEF StateOf
<1> QED
  BY <1>2, <1>3, <1>4 DEF Tracked

(* A throttle drives a loco: the others are told.                          *)
LEMMA DriveDisplayed ==
    ASSUME DisplayInv, NEW t \in Throttles, NEW a \in Addr, NEW d \in Drives,
           ThrottleDrive(t, a, d)
    PROVE  EchoSound' /\ \A b \in Addr : DisplaySound(b)'
<1> DEFINE st == [speed |-> d.speed, dir |-> d.dir, fns |-> StateOf(a).fns]
           T == Throttles \ {t}
           W == IF t = Z21_LAN THEN Throttles ELSE T
<1>1. /\ TypeOK /\ EchoSound /\ \A b \in Addr : DisplaySound(b)
      /\ wish \in [Addr -> Wishes] /\ shown \in [Throttles -> [Addr -> Locos]]
      /\ StateOf(a) \in Locos
  BY StateOfType DEF DisplayInv, TypeOK
<1>2. st \in Locos /\ st.fns = StateOf(a).fns
  BY <1>1 DEF Locos, Drives
<1>3. /\ locos' = [locos EXCEPT ![a] = st]
      /\ shown' = [DriveTold(T, a, st) EXCEPT ![t][a] = OwnDrive(t, a, d, st)]
      /\ echo' = [addr |-> a, src |-> t, type |-> "SPEED", open |-> TRUE]
      /\ wish' = [wish EXCEPT ![a].users = @ \cup {t}, ![a].driver = t,
                              ![a].drive = d, ![a].resent = FALSE]
      /\ stale' = OldAfterDrive(W, a)
  BY DEF ThrottleDrive, Attribute, DriveTold, OldAfterDrive
<1>4. /\ wish'[a].users = wish[a].users \cup {t} /\ wish'[a].driver = t
      /\ \A b \in Addr : b # a => wish'[b] = wish[b]
  BY <1>1, <1>3 DEF Wishes
<1>12. \A u \in Throttles : (u \in T <=> u # t) /\ (u # t => u \in W)
  OBVIOUS
<1>13. TypeOK /\ st \in Locos
  BY <1>1, <1>2
<1> HIDE DEF st, T, W
<1>5. /\ Tracked(a)' /\ StateOf(a)' = st
      /\ \A b \in Addr : b # a => locos'[b] = locos[b]
  BY <1>1, <1>2, <1>3, StoredState
<1>6. EchoSound'
  BY <1>3, <1>4, <1>5 DEF EchoSound
<1>7. /\ \A b \in Addr : b # a => stale'[b] = stale[b]
      /\ \A u : u \in stale'[a].fns <=> u \in stale[a].fns /\ ~(u \in W /\ WholeState(u))
  <2>1. stale' = OldAfterDrive(W, a)
    BY <1>3
  <2> QED
    BY <1>13, <2>1, ToldDrive
<1>8. ASSUME NEW u \in Throttles
      PROVE  /\ \A b \in Addr : b # a => shown'[u][b] = shown[u][b]
             /\ u # t => shown'[u][a] = DriveTold(T, a, st)[u][a]
  <2>1. DriveTold(T, a, st) \in [Throttles -> [Addr -> Locos]]
    BY <1>1, <1>2, TellType DEF DriveTold, StateTold
  <2>2. \A b \in Addr : b # a \/ u # t => shown'[u][b] = DriveTold(T, a, st)[u][b]
    BY <1>3, <2>1
  <2>3. \A b \in Addr : b # a => DriveTold(T, a, st)[u][b] = shown[u][b]
    BY <1>13, TellDrive
  <2> QED
    BY <2>2, <2>3
<1>9. ASSUME NEW b \in Addr, b # a
      PROVE  DisplaySound(b)'
  BY <1>1, <1>4, <1>5, <1>7, <1>8, <1>9, DisplayKept
<1>10. DisplaySound(a)'
  <2>1. DriverIsUser(a)'
    BY <1>4 DEF DriverIsUser
  <2>2. DriveShown(a)'
    <3> SUFFICES ASSUME NEW u \in Throttles, u # t
                 PROVE  SameDrive(shown'[u][a], st)
      BY <1>4, <1>5 DEF DriveShown
    <3>1. SameDrive(DriveTold(T, a, st)[u][a], st)
      BY <1>12, <1>13, TellDrive
    <3> QED
      BY <1>8, <3>1
  <2>3. FunctionsShown(a)'
    <3> SUFFICES ASSUME NEW u \in Throttles, u \notin stale'[a].fns, u # t,
                        u \notin wish[a].users
                 PROVE  shown'[u][a].fns = st.fns
      BY <1>4, <1>5 DEF FunctionsShown
    <3>1. u \in T /\ shown'[u][a] = DriveTold(T, a, st)[u][a]
      BY <1>8, <1>12
    <3>2. CASE WholeState(u)
      <4>1. DriveTold(T, a, st)[u][a] = st
        BY <1>13, <3>1, <3>2, TellDrive
      <4> QED
        BY <3>1, <4>1
    <3>3. CASE ~WholeState(u)
      <4>1. shown'[u][a].fns = shown[u][a].fns
        <5>1. DriveTold(T, a, st)[u][a].fns = shown[u][a].fns
          BY <1>13, <3>3, TellDrive
        <5> QED
          BY <3>1, <5>1
      <4>2. u \notin stale[a].fns
        BY <1>7, <3>3
      <4> QED
        BY <1>1, <1>2, <4>1, <4>2 DEF DisplaySound, FunctionsShown
    <3> QED
      BY <3>2, <3>3
  <2> QED
    BY <2>1, <2>2, <2>3 DEF DisplaySound
<1> QED
  BY <1>6, <1>9, <1>10

(* A throttle switches functions: the others are told everything.          *)
LEMMA FunctionsDisplayed ==
    ASSUME DisplayInv, NEW t \in Throttles, NEW a \in Addr, NEW g \in FnGroups, NEW f \in g,
           NEW F \in Bitmaps(t, a, g, f), ThrottleFunctions(t, a, g, f, F)
    PROVE  EchoSound' /\ \A b \in Addr : DisplaySound(b)'
<1> DEFINE st == [StateOf(a) EXCEPT !.fns = F]
           T == Throttles \ {t}
           W == IF WholeState(t) THEN Throttles ELSE T
<1>1. /\ TypeOK /\ EchoSound /\ \A b \in Addr : DisplaySound(b)
      /\ wish \in [Addr -> Wishes] /\ shown \in [Throttles -> [Addr -> Locos]]
      /\ StateOf(a) \in Locos
  BY StateOfType DEF DisplayInv, TypeOK
<1>2. F \in SUBSET Fns
  <2>1. g \in SUBSET Fns /\ f \in Fns /\ StateOf(a).fns \in SUBSET Fns
    BY <1>1, RouterAssumption DEF Locos
  <2> QED
    BY <2>1 DEF Bitmaps
<1>3. st \in Locos /\ SameDrive(st, StateOf(a))
  BY <1>1, <1>2 DEF Locos, SameDrive
<1>4. /\ locos' = [locos EXCEPT ![a] = st]
      /\ shown' = [StateTold(T, a, st) EXCEPT ![t][a] = OwnFunctions(t, a, g, F, st)]
      /\ echo' = [addr |-> a, src |-> t, type |-> "FUNCTION", open |-> TRUE]
      /\ wish' = [wish EXCEPT ![a] = Wanted(a, t, f, F)]
      /\ stale' = OldAfterState(W, a)
  BY DEF ThrottleFunctions, Attribute, StateTold, OldAfterState
<1>5. /\ wish'[a].users = wish[a].users \cup {t} /\ wish'[a].driver = wish[a].driver
      /\ \A b \in Addr : b # a => wish'[b] = wish[b]
  <2>1. wish'[a] = Wanted(a, t, f, F) /\ \A b \in Addr : b # a => wish'[b] = wish[b]
    BY <1>1, <1>4
  <2>2. wish[a] \in Wishes
    BY <1>1
  <2>3. Wanted(a, t, f, F).users = wish[a].users \cup {t}
        /\ Wanted(a, t, f, F).driver = wish[a].driver
    BY <2>2 DEF Wanted, Wishes
  <2> QED
    BY <2>1, <2>3
<1>12. \A u \in Throttles : (u \in T <=> u # t) /\ (u \in W <=> (u # t \/ WholeState(t)))
  OBVIOUS
<1>13. TypeOK /\ st \in Locos
  BY <1>1, <1>3
<1> HIDE DEF st, T, W
<1>6. /\ Tracked(a)' /\ StateOf(a)' = st
      /\ \A b \in Addr : b # a => locos'[b] = locos[b]
  BY <1>1, <1>3, <1>4, StoredState
<1>7. EchoSound'
  BY <1>4, <1>5, <1>6 DEF EchoSound
<1>8. /\ \A b \in Addr : b # a => stale'[b] = stale[b]
      /\ stale'[a].drive = stale[a].drive \ W
  <2>1. stale' = OldAfterState(W, a)
    BY <1>4
  <2> QED
    BY <1>13, <2>1, ToldAll
<1>9. ASSUME NEW u \in Throttles
      PROVE  /\ \A b \in Addr : b # a => shown'[u][b] = shown[u][b]
             /\ u # t => shown'[u][a] = st
             /\ u = t => shown'[u][a] = OwnFunctions(t, a, g, F, st)
  <2>1. StateTold(T, a, st) \in [Throttles -> [Addr -> Locos]]
    BY <1>1, <1>3, TellType DEF DriveTold, StateTold
  <2>2. /\ \A b \in Addr : b # a \/ u # t => shown'[u][b] = StateTold(T, a, st)[u][b]
        /\ u = t => shown'[u][a] = OwnFunctions(t, a, g, F, st)
    BY <1>4, <2>1
  <2>3. /\ \A b \in Addr : b # a => StateTold(T, a, st)[u][b] = shown[u][b]
        /\ u \in T => StateTold(T, a, st)[u][a] = st
    BY <1>13, TellAll
  <2> QED
    BY <1>12, <2>2, <2>3
<1>10. ASSUME NEW b \in Addr, b # a
       PROVE  DisplaySound(b)'
  BY <1>1, <1>5, <1>6, <1>8, <1>9, <1>10, DisplayKept
<1>11. DisplaySound(a)'
  <2>1. DriverIsUser(a)'
    BY <1>1, <1>5 DEF DisplaySound, DriverIsUser
  <2>2. DriveShown(a)'
    <3> SUFFICES ASSUME NEW u \in Throttles, u \notin stale'[a].drive, wish[a].driver # u
                 PROVE  SameDrive(shown'[u][a], st)
      BY <1>5, <1>6 DEF DriveShown
    <3>1. CASE u # t \/ WholeState(t)
      BY <1>9, <3>1 DEF OwnFunctions, SameDrive
    <3>2. CASE u = t /\ ~WholeState(t)
      <4>1. shown[t][a] \in Locos
        BY <1>1
      <4>2. SameDrive(OwnFunctions(t, a, g, F, st), shown[t][a])
        BY <3>2, <4>1 DEF OwnFunctions, SameDrive, Locos
      <4>3. t \notin stale[a].drive
        BY <1>8, <1>12, <3>2
      <4>4. SameDrive(shown[t][a], StateOf(a))
        BY <1>1, <3>2, <4>3 DEF DisplaySound, DriveShown
      <4> QED
        BY <1>3, <1>9, <3>2, <4>2, <4>4 DEF SameDrive
    <3> QED
      BY <3>1, <3>2
  <2>3. FunctionsShown(a)'
    BY <1>5, <1>6, <1>9 DEF FunctionsShown
  <2> QED
    BY <2>1, <2>2, <2>3 DEF DisplaySound
<1> QED
  BY <1>7, <1>10, <1>11

(* A selection: the throttle is shown what the table has, or will have.    *)
LEMMA SelectDisplayed ==
    ASSUME DisplayInv, NEW t \in Throttles, NEW a \in Addr, ThrottleSelect(t, a)
    PROVE  EchoSound' /\ \A b \in Addr : DisplaySound(b)'
<1>1. /\ TypeOK /\ EchoSound /\ \A b \in Addr : DisplaySound(b)
      /\ shown \in [Throttles -> [Addr -> Locos]] /\ locos \in [Addr -> Locos \cup {NoLoco}]
  BY DEF DisplayInv, TypeOK
<1>2. /\ \/ locos' = [locos EXCEPT ![a] = Placeholder] /\ ~Tracked(a)
         \/ UNCHANGED locos
      /\ UNCHANGED <<echo, wish>>
      /\ shown' = [shown EXCEPT ![t][a] = StateOf(a)]
      /\ stale' = OldAfterState({t}, a)
  BY DEF ThrottleSelect, OldAfterState
<1>3. Placeholder \in Locos
  BY RouterAssumption DEF Placeholder, Locos
<1>4. \A b \in Addr : StateOf(b)' = StateOf(b) /\ (Tracked(b) => Tracked(b)')
  <2>1. CASE UNCHANGED locos
    BY <2>1 DEF StateOf, Tracked, Placeholder
  <2>2. CASE locos' = [locos EXCEPT ![a] = Placeholder] /\ ~Tracked(a)
    <3>1. locos'[a] = Placeholder /\ \A b \in Addr : b # a => locos'[b] = locos[b]
      BY <1>1, <2>2
    <3> QED
      BY <1>3, <2>2, <3>1, RouterAssumption DEF StateOf, Tracked, Placeholder
  <2> QED
    BY <1>2, <2>1, <2>2
<1>5. EchoSound'
  BY <1>1, <1>2, <1>4, EchoKept
<1>6. /\ \A u \in Throttles, b \in Addr : b # a \/ u # t => shown'[u][b] = shown[u][b]
      /\ shown'[t][a] = StateOf(a)
  BY <1>1, <1>2
<1>7. /\ \A b \in Addr : b # a => stale'[b] = stale[b]
      /\ stale'[a].drive = stale[a].drive \ {t}
      /\ \A u : u \in stale'[a].fns <=> (u \in stale[a].fns /\ u \notin {t})
  BY <1>1, <1>2, ToldAll
<1>8. ASSUME NEW b \in Addr
      PROVE  DisplaySound(b)'
  <2>1. DriverIsUser(b)'
    BY <1>1, <1>2 DEF DisplaySound, DriverIsUser
  <2>2. DriveShown(b)'
    <3> SUFFICES ASSUME NEW u \in Throttles, u \notin stale'[b].drive, wish[b].driver # u
                 PROVE  SameDrive(shown'[u][b], StateOf(b))
      BY <1>2, <1>4 DEF DriveShown
    <3>1. CASE u = t /\ b = a
      BY <1>6, <3>1 DEF SameDrive
    <3>2. CASE u # t \/ b # a
      <4>1. u \notin stale[b].drive
        BY <1>7, <3>2
      <4> QED
        BY <1>1, <1>6, <3>2, <4>1 DEF DisplaySound, DriveShown
    <3> QED
      BY <3>1, <3>2
  <2>3. FunctionsShown(b)'
    <3> SUFFICES ASSUME NEW u \in Throttles, u \notin stale'[b].fns, u \notin wish[b].users
                 PROVE  shown'[u][b].fns = StateOf(b).fns
      BY <1>2, <1>4 DEF FunctionsShown
    <3>1. CASE u = t /\ b = a
      BY <1>6, <3>1
    <3>2. CASE u # t \/ b # a
      <4>1. u \notin stale[b].fns
        BY <1>7, <3>2
      <4> QED
        BY <1>1, <1>6, <3>2, <4>1 DEF DisplaySound, FunctionsShown
    <3> QED
      BY <3>1, <3>2
  <2> QED
    BY <2>1, <2>2, <2>3 DEF DisplaySound
<1> QED
  BY <1>5, <1>8

(* A refused command is shown by the throttle it came from, which is out   *)
(* of date from then on.                                                   *)
LEMMA TableFullDisplayed ==
    ASSUME DisplayInv, NEW t \in Throttles, NEW a \in Addr, NEW d \in Drives,
           TableFull(t, a, d)
    PROVE  EchoSound' /\ \A b \in Addr : DisplaySound(b)'
<1>1. /\ EchoSound /\ \A b \in Addr : DisplaySound(b)
      /\ shown \in [Throttles -> [Addr -> Locos]] /\ stale \in [Addr -> StaleDisplays]
      /\ shown[t][a] \in Locos
  BY DEF DisplayInv, TypeOK
<1>2. /\ shown' = [shown EXCEPT ![t][a] = DrivePart(shown[t][a], d)]
      /\ stale' = [stale EXCEPT ![a].drive = @ \cup {t}]
      /\ UNCHANGED <<locos, echo, wish>>
  BY DEF TableFull
<1>3. DrivePart(shown[t][a], d).fns = shown[t][a].fns
  BY <1>1 DEF DrivePart, Locos
<1>4. /\ \A u \in Throttles, b \in Addr : b # a \/ u # t => shown'[u][b] = shown[u][b]
      /\ shown'[t][a].fns = shown[t][a].fns
  BY <1>1, <1>2, <1>3
<1>5. /\ \A b \in Addr : b # a => stale'[b] = stale[b]
      /\ stale'[a].drive = stale[a].drive \cup {t} /\ stale'[a].fns = stale[a].fns
  BY <1>1, <1>2 DEF StaleDisplays
<1>6. \A b \in Addr : StateOf(b)' = StateOf(b) /\ (Tracked(b) => Tracked(b)')
  BY <1>2 DEF StateOf, Tracked, Placeholder
<1>7. EchoSound'
  BY <1>1, <1>2, <1>6, EchoKept
<1>8. ASSUME NEW b \in Addr, b # a
      PROVE  DisplaySound(b)'
  BY <1>1, <1>2, <1>4, <1>5, <1>8, DisplayKept
<1>9. DisplaySound(a)'
  <2>1. DriverIsUser(a)'
    BY <1>1, <1>2 DEF DisplaySound, DriverIsUser
  <2>2. DriveShown(a)'
    <3> SUFFICES ASSUME NEW u \in Throttles, u \notin stale'[a].drive, wish[a].driver # u
                 PROVE  SameDrive(shown'[u][a], StateOf(a))
      BY <1>2, <1>6 DEF DriveShown
    <3> QED
      BY <1>1, <1>4, <1>5 DEF DisplaySound, DriveShown
  <2>3. FunctionsShown(a)'
    <3> SUFFICES ASSUME NEW u \in Throttles, u \notin stale'[a].fns, u \notin wish[a].users
                 PROVE  shown'[u][a].fns = StateOf(a).fns
      BY <1>2, <1>6 DEF FunctionsShown
    <3>1. shown[u][a].fns = StateOf(a).fns
      BY <1>1, <1>5 DEF DisplaySound, FunctionsShown
    <3> QED
      BY <1>4, <3>1
  <2> QED
    BY <2>1, <2>2, <2>3 DEF DisplaySound
<1> QED
  BY <1>7, <1>8, <1>9

(* Nothing is stored, told or commanded.                                   *)
LEMMA NothingDisplayed ==
    ASSUME DisplayInv, UNCHANGED <<locos, shown, stale>>, ~echo'.open \/ UNCHANGED echo,
           \A b \in Addr : /\ wish'[b].users = wish[b].users
                           /\ wish'[b].driver = wish[b].driver
    PROVE  EchoSound' /\ \A b \in Addr : DisplaySound(b)'
<1>1. EchoSound /\ \A b \in Addr : DisplaySound(b)
  BY DEF DisplayInv
<1>2. EchoSound'
  <2>1. CASE ~echo'.open
    BY <2>1 DEF EchoSound
  <2>2. CASE UNCHANGED echo
    <3>1. \A b \in Addr : Tracked(b) => Tracked(b)'
      BY DEF Tracked
    <3> QED
      BY <1>1, <2>2, <3>1, EchoKept
  <2> QED
    BY <2>1, <2>2
<1>3. ASSUME NEW b \in Addr
      PROVE  DisplaySound(b)'
  BY <1>1, DisplayKept
<1> QED
  BY <1>2, <1>3

(* An event whose loco is stored as st, told to the throttles in T.        *)
LEMMA EcosDriveDisplayed ==
    ASSUME DisplayInv, EcosDrive
    PROVE  EchoSound' /\ \A b \in Addr : DisplaySound(b)'
<1>1. /\ TypeOK /\ EchoSound /\ \A b \in Addr : DisplaySound(b)
      /\ locos \in [Addr -> Locos \cup {NoLoco}]
  BY DEF DisplayInv, TypeOK
<1>2. Head(fromEcos) \in Events
  BY <1>1, HeadEventType DEF EcosDrive
<1>3. PICK ev \in Events : ev = Head(fromEcos)
  BY <1>2
<1>4. PICK a \in Addr : a = ev.addr
  BY DEF Events
<1>5. PICK st : st = DriveMerged(StateOf(a), ev)
  OBVIOUS
<1>6. PICK T : T = NotEchoTo(a, {}, {})
  OBVIOUS
<1>7. st \in Locos /\ st.fns = StateOf(a).fns
  <2>1. StateOf(a) \in Locos
    BY <1>1, StateOfType
  <2>2. st \in Locos
    BY <1>3, <1>5, <2>1, MergedType DEF EcosDrive
  <2>3. st.fns = StateOf(a).fns
    BY <1>5, <2>1 DEF DriveMerged, Locos
  <2> QED
    BY <2>2, <2>3
<1>8. UNCHANGED <<echo, wish>>
  BY DEF EcosDrive
<1>9. CASE UNCHANGED <<locos, shown, stale>>
  BY <1>8, <1>9, NothingDisplayed
<1>10. CASE /\ locos' = [locos EXCEPT ![a] = st]
            /\ shown' = DriveTold(T, a, st) /\ stale' = OldAfterDrive(T, a)
  <2>1. /\ Tracked(a)' /\ StateOf(a)' = st
        /\ \A b \in Addr : b # a => locos'[b] = locos[b]
        /\ \A b \in Addr : Tracked(b) => Tracked(b)'
    BY <1>1, <1>7, <1>10, StoredState
  <2>2. EchoSound'
    BY <1>1, <1>8, <2>1, EchoKept
  <2>3. /\ \A b \in Addr : b # a => stale'[b] = stale[b]
        /\ stale'[a].drive = stale[a].drive \ T
        /\ \A u : u \in stale'[a].fns <=> (u \in stale[a].fns /\ ~(u \in T /\ WholeState(u)))
    BY <1>1, <1>10, ToldDrive
  <2>4. ASSUME NEW u \in Throttles, u \notin T
        PROVE  wish[a].driver = u /\ u \in wish[a].users
    <3>1. IsEcho(a, u, {}, {})
      BY <1>6, <2>4 DEF NotEchoTo
    <3>2. echo.open /\ echo.addr = a /\ echo.src = u /\ echo.type = "SPEED"
      BY <3>1 DEF IsEcho, RecentSource
    <3> QED
      BY <1>1, <3>2 DEF EchoSound
  <2>5. ASSUME NEW b \in Addr, b # a
        PROVE  DisplaySound(b)'
    <3>1. \A u \in Throttles : shown'[u][b] = shown[u][b]
      BY <1>1, <1>7, <1>10, <2>5, TellDrive
    <3> QED
      BY <1>1, <1>8, <2>1, <2>3, <2>5, <3>1, DisplayKept
  <2>6. DriverIsUser(a)'
    BY <1>1, <1>8 DEF DisplaySound, DriverIsUser
  <2>7. DriveShown(a)'
    <3> SUFFICES ASSUME NEW u \in Throttles, wish[a].driver # u
                 PROVE  SameDrive(shown'[u][a], st)
      BY <1>8, <2>1 DEF DriveShown
    <3>1. u \in T
      BY <2>4
    <3>2. SameDrive(DriveTold(T, a, st)[u][a], st)
      BY <1>1, <1>7, <3>1, TellDrive
    <3> QED
      BY <1>10, <3>2
  <2>8. FunctionsShown(a)'
    <3> SUFFICES ASSUME NEW u \in Throttles, u \notin stale'[a].fns, u \notin wish[a].users
                 PROVE  shown'[u][a].fns = st.fns
      BY <1>8, <2>1 DEF FunctionsShown
    <3>1. u \in T
      BY <2>4
    <3>2. CASE WholeState(u)
      <4>1. DriveTold(T, a, st)[u][a] = st
        BY <1>1, <1>7, <3>1, <3>2, TellDrive
      <4> QED
        BY <1>10, <4>1
    <3>3. CASE ~WholeState(u)
      <4>1. DriveTold(T, a, st)[u][a].fns = shown[u][a].fns
        BY <1>1, <1>7, <3>3, TellDrive
      <4>2. shown[u][a].fns = StateOf(a).fns
        BY <1>1, <2>3, <3>3 DEF DisplaySound, FunctionsShown
      <4> QED
        BY <1>7, <1>10, <4>1, <4>2
    <3> QED
      BY <3>2, <3>3
  <2>9. DisplaySound(a)'
    BY <2>6, <2>7, <2>8 DEF DisplaySound
  <2> QED
    BY <2>2, <2>5, <2>9
<1>11. \/ UNCHANGED <<locos, shown, stale>>
       \/ /\ locos' = [locos EXCEPT ![a] = st]
          /\ shown' = DriveTold(T, a, st) /\ stale' = OldAfterDrive(T, a)
  <2>1. CASE ~(Tracked(a) \/ HasRoom)
    BY <1>3, <1>4, <2>1 DEF EcosDrive
  <2>2. CASE (Tracked(a) \/ HasRoom) /\ ~(~Tracked(a) \/ st # locos[a])
    <3>1. locos' = [locos EXCEPT ![a] = st] /\ UNCHANGED <<shown, stale>>
      BY <1>3, <1>4, <1>5, <2>2 DEF EcosDrive
    <3>2. locos' = locos
      BY <1>1, <2>2, <3>1
    <3> QED
      BY <3>1, <3>2
  <2>3. CASE (Tracked(a) \/ HasRoom) /\ (~Tracked(a) \/ st # locos[a])
    BY <1>3, <1>4, <1>5, <1>6, <2>3 DEF EcosDrive, DriveTold, OldAfterDrive
  <2> QED
    BY <2>1, <2>2, <2>3
<1> QED
  BY <1>9, <1>10, <1>11

(* A function event is told in full to all but the throttle it echoes.     *)
LEMMA EcosFunctionDisplayed ==
    ASSUME DisplayInv, EcosFunction
    PROVE  EchoSound' /\ \A b \in Addr : DisplaySound(b)'
<1>1. /\ TypeOK /\ EchoSound /\ \A b \in Addr : DisplaySound(b)
      /\ locos \in [Addr -> Locos \cup {NoLoco}]
  BY DEF DisplayInv, TypeOK
<1>2. Head(fromEcos) \in Events
  BY <1>1, HeadEventType DEF EcosFunction
<1>3. PICK a \in Addr : a = Head(fromEcos).addr
  BY <1>2 DEF Events
<1>4. PICK f \in Fns : f = Head(fromEcos).key
  BY DEF EcosFunction
<1>5. PICK v : v = Head(fromEcos).val
  OBVIOUS
<1>6. PICK F : F = IF Meaning(f, v) THEN StateOf(a).fns \cup {f} ELSE StateOf(a).fns \ {f}
  OBVIOUS
<1>7. PICK st : st = [StateOf(a) EXCEPT !.fns = F]
  OBVIOUS
<1>8. PICK changed : changed = (st.fns \ StateOf(a).fns) \cup (StateOf(a).fns \ st.fns)
  OBVIOUS
<1>9. PICK T : T = NotEchoTo(a, changed, st.fns)
  OBVIOUS
<1>10. st \in Locos /\ st.fns = F /\ SameDrive(st, StateOf(a))
  <2>1. StateOf(a) \in Locos
    BY <1>1, StateOfType
  <2>2. F \in SUBSET Fns
    BY <1>6, <2>1 DEF Locos
  <2> QED
    BY <1>7, <2>1, <2>2 DEF Locos, SameDrive
<1>11. UNCHANGED <<echo, wish>>
  BY DEF EcosFunction
<1>12. CASE UNCHANGED <<locos, shown, stale>>
  BY <1>11, <1>12, NothingDisplayed
<1>13. CASE /\ locos' = [locos EXCEPT ![a] = st]
            /\ shown' = StateTold(T, a, st) /\ stale' = OldAfterState(T, a)
  <2>1. /\ Tracked(a)' /\ StateOf(a)' = st
        /\ \A b \in Addr : b # a => locos'[b] = locos[b]
        /\ \A b \in Addr : Tracked(b) => Tracked(b)'
    BY <1>1, <1>10, <1>13, StoredState
  <2>2. EchoSound'
    BY <1>1, <1>11, <2>1, EchoKept
  <2>3. /\ \A b \in Addr : b # a => stale'[b] = stale[b]
        /\ stale'[a].drive = stale[a].drive \ T
    BY <1>1, <1>13, ToldAll
  <2>4. ASSUME NEW u \in Throttles, u \notin T
        PROVE  u \in wish[a].users
    <3>1. IsEcho(a, u, changed, st.fns)
      BY <1>9, <2>4 DEF NotEchoTo
    <3>2. echo.open /\ echo.addr = a /\ echo.src = u
      BY <3>1 DEF IsEcho, RecentSource
    <3> QED
      BY <1>1, <3>2 DEF EchoSound
  <2>5. ASSUME NEW u \in Throttles
        PROVE  /\ \A b \in Addr : b # a => shown'[u][b] = shown[u][b]
               /\ u \in T => shown'[u][a] = st
               /\ u \notin T => shown'[u][a] = shown[u][a]
    BY <1>1, <1>10, <1>13, TellAll
  <2>6. ASSUME NEW b \in Addr, b # a
        PROVE  DisplaySound(b)'
    BY <1>1, <1>11, <2>1, <2>3, <2>5, <2>6, DisplayKept
  <2>7. DriverIsUser(a)'
    BY <1>1, <1>11 DEF DisplaySound, DriverIsUser
  <2>8. DriveShown(a)'
    <3> SUFFICES ASSUME NEW u \in Throttles, u \notin stale'[a].drive, wish[a].driver # u
                 PROVE  SameDrive(shown'[u][a], st)
      BY <1>11, <2>1 DEF DriveShown
    <3>1. CASE u \in T
      BY <2>5, <3>1 DEF SameDrive
    <3>2. CASE u \notin T
      <4>1. SameDrive(shown[u][a], StateOf(a))
        BY <1>1, <2>3, <3>2 DEF DisplaySound, DriveShown
      <4> QED
        BY <1>10, <2>5, <3>2, <4>1 DEF SameDrive
    <3> QED
      BY <3>1, <3>2
  <2>9. FunctionsShown(a)'
    BY <1>11, <2>1, <2>4, <2>5 DEF FunctionsShown
  <2>10. DisplaySound(a)'
    BY <2>7, <2>8, <2>9 DEF DisplaySound
  <2> QED
    BY <2>2, <2>6, <2>10
<1>14. \/ UNCHANGED <<locos, shown, stale>>
       \/ /\ locos' = [locos EXCEPT ![a] = st]
          /\ shown' = StateTold(T, a, st) /\ stale' = OldAfterState(T, a)
  <2>1. CASE ~(Tracked(a) \/ HasRoom)
    BY <1>3, <2>1 DEF EcosFunction
  <2>2. CASE (Tracked(a) \/ HasRoom) /\ ~(~Tracked(a) \/ changed # {})
    <3>1. locos' = [locos EXCEPT ![a] = st] /\ UNCHANGED <<shown, stale>>
      BY <1>3, <1>4, <1>5, <1>6, <1>7, <1>8, <2>2 DEF EcosFunction
    <3>2. st = locos[a]
      <4>1. StateOf(a) = locos[a] /\ locos[a] \in Locos
        BY <1>1, <2>2 DEF StateOf, Tracked
      <4>2. st.fns = StateOf(a).fns
        BY <1>8, <2>2
      <4> QED
        BY <1>7, <1>10, <4>1, <4>2 DEF Locos
    <3>3. locos' = locos
      BY <1>1, <3>1, <3>2
    <3> QED
      BY <3>1, <3>3
  <2>3. CASE (Tracked(a) \/ HasRoom) /\ (~Tracked(a) \/ changed # {})
    BY <1>3, <1>4, <1>5, <1>6, <1>7, <1>8, <1>9, <2>3
       DEF EcosFunction, StateTold, OldAfterState
  <2> QED
    BY <2>1, <2>2, <2>3
<1> QED
  BY <1>12, <1>13, <1>14

(* An expired loco starts afresh: what the throttles show of it is old.    *)
LEMMA ExpireDisplayed ==
    ASSUME DisplayInv, NEW a \in Addr, Expire(a)
    PROVE  EchoSound' /\ \A b \in Addr : DisplaySound(b)'
<1>1. /\ EchoSound /\ \A b \in Addr : DisplaySound(b)
      /\ locos \in [Addr -> Locos \cup {NoLoco}] /\ stale \in [Addr -> StaleDisplays]
  BY DEF DisplayInv, TypeOK
<1>2. /\ locos' = [locos EXCEPT ![a] = NoLoco] /\ ~(echo.open /\ echo.addr = a)
      /\ stale' = [stale EXCEPT ![a] = [drive |-> Throttles, fns |-> Throttles]]
      /\ UNCHANGED <<echo, wish, shown>>
  BY DEF Expire
<1>3. /\ \A b \in Addr : b # a => (locos'[b] = locos[b] /\ stale'[b] = stale[b])
      /\ stale'[a].drive = Throttles /\ stale'[a].fns = Throttles
  BY <1>1, <1>2
<1>4. \A b \in Addr : (Tracked(b) /\ echo.open /\ echo.addr = b) => Tracked(b)'
  BY <1>2, <1>3 DEF Tracked
<1>5. EchoSound'
  BY <1>1, <1>2, <1>4, EchoKept
<1>6. ASSUME NEW b \in Addr, b # a
      PROVE  DisplaySound(b)'
  BY <1>1, <1>2, <1>3, <1>6, DisplayKept
<1>7. DisplaySound(a)'
  BY <1>1, <1>2, <1>3 DEF DisplaySound, DriverIsUser, DriveShown, FunctionsShown
<1> QED
  BY <1>5, <1>6, <1>7

(* Every throttle shows a loco at rest, as the table has it. *)
LEMMA InitDisplayed == Init => DisplayInv
<1> SUFFICES ASSUME Init
             PROVE  DisplayInv
  OBVIOUS
<1>1. EchoSound
  BY DEF Init, EchoSound
<1>2. ASSUME NEW a \in Addr
      PROVE  DisplaySound(a)
  <2>1. wish[a].driver = NoSource
    BY DEF Init
  <2>2. locos[a] = NoLoco /\ \A t \in Throttles : shown[t][a] = Placeholder
    BY DEF Init
  <2>3. StateOf(a) = Placeholder
    BY <2>2 DEF StateOf, Tracked
  <2> QED
    BY <2>1, <2>2, <2>3
       DEF DisplaySound, DriverIsUser, DriveShown, FunctionsShown, SameDrive
<1> QED
  BY <1>1, <1>2, InitType DEF DisplayInv

(* Every step keeps the displays as they should be. *)
LEMMA NextDisplayed == DisplayInv /\ [Next]_vars => DisplayInv'
<1> SUFFICES ASSUME DisplayInv, [Next]_vars
             PROVE  DisplayInv'
  OBVIOUS
<1>1. TypeOK'
  BY NextType DEF DisplayInv
<1>2. EchoSound' /\ \A b \in Addr : DisplaySound(b)'
  <2>1. CASE \E t \in Throttles, a \in Addr, d \in Drives : ThrottleDrive(t, a, d)
    BY <2>1, DriveDisplayed
  <2>2. CASE \E t \in Throttles, a \in Addr, g \in FnGroups : \E f \in g :
                \E F \in Bitmaps(t, a, g, f) : ThrottleFunctions(t, a, g, f, F)
    BY <2>2, FunctionsDisplayed
  <2>3. CASE \E t \in Throttles, a \in Addr : ThrottleSelect(t, a)
    BY <2>3, SelectDisplayed
  <2>4. CASE \E t \in Throttles, a \in Addr, d \in Drives : TableFull(t, a, d)
    BY <2>4, TableFullDisplayed
  <2>5. CASE EcosDrive
    BY <2>5, EcosDriveDisplayed
  <2>6. CASE EcosFunction
    BY <2>6, EcosFunctionDisplayed
  <2>7. CASE PacedStep \/ BitsWindowCloses \/ StationStep \/ UNCHANGED vars
    <3>1. UNCHANGED <<locos, shown, stale, echo, wish>>
      BY <2>7 DEF PacedStep, BitsWindowCloses, StationStep, vars
    <3> QED
      BY <3>1, NothingDisplayed
  <2>8. CASE WindowCloses
    <3>1. UNCHANGED <<locos, shown, stale, wish>> /\ ~echo'.open
      BY <2>8 DEF WindowCloses, DisplayInv, TypeOK
    <3> QED
      BY <3>1, NothingDisplayed
  <2>9. CASE \E a \in IdleAddr : Expire(a)
    BY <2>9, ExpireDisplayed, RouterAssumption
  <2>10. CASE \E a \in OperatorAddr, k \in Keys : \E v \in ValuesOf(k) : Operator(a, k, v)
    <3>1. PICK a \in OperatorAddr, k \in Keys : \E v \in ValuesOf(k) : Operator(a, k, v)
      BY <2>10
    <3>2. UNCHANGED <<locos, shown, stale, echo>>
      BY <3>1 DEF Operator
    <3>3. wish' = [wish EXCEPT ![a].drive = IF k \in Fns THEN @ ELSE NoLoco,
                               ![a].on = @ \ {k}, ![a].off = @ \ {k}]
      BY <3>1 DEF Operator
    <3>4. wish \in [Addr -> Wishes]
      BY DEF DisplayInv, TypeOK
    <3>5. ASSUME NEW b \in Addr
          PROVE  wish'[b].users = wish[b].users /\ wish'[b].driver = wish[b].driver
      BY <3>3, <3>4 DEF Wishes
    <3> QED
      BY <3>2, <3>5, NothingDisplayed
  <2> QED
    BY <2>1, <2>2, <2>3, <2>4, <2>5, <2>6, <2>7, <2>8, <2>9, <2>10 DEF Next
<1> QED
  BY <1>1, <1>2 DEF DisplayInv

(* The displays are as they should be in every behaviour. *)
LEMMA DisplayInvariant == Spec => []DisplayInv
<1> QED
  BY InitDisplayed, NextDisplayed, PTL DEF Spec

(* A throttle other than the last driver always shows the table's speed    *)
(* and direction, unless its display was never brought up to the entry.    *)
THEOREM OthersAlwaysShowDrive == Spec => []OthersShowDrive
<1>1. DisplayInv => OthersShowDrive
  BY DEF DisplayInv, DisplaySound, DriveShown, OthersShowDrive, StateOf
<1> QED
  BY <1>1, DisplayInvariant, PTL

(* A throttle that never commanded a loco follows it in everything.        *)
THEOREM BystandersAlwaysShowAll == Spec => []BystandersShowAll
<1>1. ASSUME DisplayInv, NEW a \in Addr, Tracked(a), NEW t \in Throttles,
             t \notin wish[a].users, t \notin stale[a].drive, t \notin stale[a].fns
      PROVE  shown[t][a] = locos[a]
  <2>1. DisplaySound(a) /\ shown[t][a] \in Locos /\ locos[a] \in Locos
    BY <1>1 DEF DisplayInv, TypeOK, Tracked
  <2>2. wish[a].driver # t
    BY <1>1, <2>1, RouterAssumption DEF DisplaySound, DriverIsUser
  <2>3. SameDrive(shown[t][a], locos[a]) /\ shown[t][a].fns = locos[a].fns
    BY <1>1, <2>1, <2>2 DEF DisplaySound, DriveShown, FunctionsShown, StateOf
  <2> QED
    BY <2>1, <2>3 DEF SameDrive, Locos
<1>2. DisplayInv => BystandersShowAll
  BY <1>1 DEF BystandersShowAll
<1> QED
  BY <1>2, DisplayInvariant, PTL

-----------------------------------------------------------------------------
(* Views and table.  A loco that a throttle put into the table is viewed,  *)
(* or will be: its entry asked for the view, and releases are only written *)
(* when the entry is given up.  Entries that an event made are set apart,  *)
(* and stay so until they expire.                                          *)
ViewKnown(a) == (Tracked(a) /\ a \notin revived) => WillView(a)
ViewsInv == TypeOK /\ \A a \in Addr : ViewKnown(a)

(* What is known of a loco that no step is about. *)
LEMMA ViewKnownKept ==
    ASSUME NEW b \in Addr, ViewKnown(b), Tracked(b)' => Tracked(b),
           b \in revived => b \in revived', WillView(b) => WillView(b)'
    PROVE  ViewKnown(b)'
  BY DEF ViewKnown

(* Commands about one loco that keep it in view, or have it viewed.        *)
LEMMA ViewWritten ==
    ASSUME ViewsInv, NEW a \in Addr,
           \A b \in Addr : b # a => (Tracked(b)' <=> Tracked(b)),
           NEW s \in Seq(Commands), toEcos' = toEcos \o s,
           \A j \in DOMAIN s : s[j].addr = a /\ s[j].op # "release",
           ~Tracked(a) => \E j \in DOMAIN s : s[j].op = "request",
           UNCHANGED <<station, revived>>
    PROVE  \A b \in Addr : ViewKnown(b)'
<1>1. toEcos \in Seq(Commands) /\ \A b \in Addr : ViewKnown(b)
  BY DEF ViewsInv, TypeOK
<1>2. ASSUME NEW b \in Addr, b # a
      PROVE  ViewKnown(b)'
  <2>1. \A j \in DOMAIN s : ~IsCmd(s[j], "request", b) /\ ~IsCmd(s[j], "release", b)
    BY <1>2 DEF IsCmd
  <2>2. station'[b].viewed = station[b].viewed
    OBVIOUS
  <2>3. WillView(b)' <=> WillView(b)
    BY <1>1, <2>1, <2>2, ViewKept
  <2>4. ViewKnown(b) /\ (Tracked(b)' <=> Tracked(b))
    BY <1>1, <1>2
  <2> QED
    BY <2>3, <2>4, ViewKnownKept
<1>3. (Tracked(a) => WillView(a)) => WillView(a)'
  <2>1. /\ \A i \in DOMAIN toEcos : i \in DOMAIN toEcos' /\ toEcos'[i] = toEcos[i]
        /\ \A i \in DOMAIN toEcos' :
              i \in DOMAIN toEcos \/ \E j \in DOMAIN s : toEcos'[i] = s[j]
        /\ \A j \in DOMAIN s : \E i \in DOMAIN toEcos' :
              toEcos'[i] = s[j] /\ \A h \in DOMAIN toEcos : i > h
    BY <1>1, Written
  <2>2. ASSUME NEW i \in DOMAIN toEcos', IsCmd(toEcos'[i], "release", a)
        PROVE  i \in DOMAIN toEcos /\ toEcos'[i] = toEcos[i]
    BY <2>1, <2>2 DEF IsCmd
  <2>3. CASE WillView(a)
    <3>1. ReleasesUndone(a)'
      BY <2>1, <2>2, <2>3 DEF WillView, ReleasesUndone
    <3>2. HasRequest(a) => HasRequest(a)'
      BY <2>1 DEF HasRequest
    <3> QED
      BY <2>3, <3>1, <3>2 DEF WillView
  <2>4. CASE ~Tracked(a)
    <3>1. PICK j \in DOMAIN s : IsCmd(s[j], "request", a)
      BY <2>4 DEF IsCmd
    <3>2. PICK i \in DOMAIN toEcos' :
             IsCmd(toEcos'[i], "request", a) /\ \A h \in DOMAIN toEcos : i > h
      BY <2>1, <3>1
    <3>3. ReleasesUndone(a)'
      BY <2>2, <3>2 DEF ReleasesUndone
    <3>4. HasRequest(a)'
      BY <3>2 DEF HasRequest
    <3> QED
      BY <3>3, <3>4 DEF WillView
  <2> QED
    BY <2>3, <2>4
<1>4. ViewKnown(a)'
  BY <1>1, <1>3 DEF ViewKnown
<1> QED
  BY <1>2, <1>4

(* Driving a loco that is new to the table requests its view. *)
LEMMA DriveViewed ==
    ASSUME ViewsInv, NEW t \in Throttles, NEW a \in Addr, NEW d \in Drives,
           ThrottleDrive(t, a, d)
    PROVE  \A b \in Addr : ViewKnown(b)'
<1>1. TypeOK /\ locos \in [Addr -> Locos \cup {NoLoco}] /\ toEcos \in Seq(Commands)
  BY DEF ViewsInv, TypeOK
<1>2. PICK st \in Locos :
         /\ locos' = [locos EXCEPT ![a] = st]
         /\ toEcos' = toEcos \o Subscription(a) \o DriveSets(a, st)
  <2> DEFINE st == [speed |-> d.speed, dir |-> d.dir, fns |-> StateOf(a).fns]
  <2>1. st \in Locos
    BY <1>1, StateOfType DEF Locos, Drives
  <2> QED
    BY <2>1 DEF ThrottleDrive
<1>3. PICK x \in Seq(Commands) :
         /\ x = Subscription(a) \o DriveSets(a, st)
         /\ Tracked(a) => x = DriveSets(a, st)
         /\ WritesDrive(x, a, st)
  BY DriveWritten
<1>4. toEcos' = toEcos \o x
  <2>1. Subscription(a) \in Seq(Commands) /\ DriveSets(a, st) \in Seq(Commands)
    BY RequestType, DriveSetsType
  <2> QED
    BY <1>1, <1>2, <1>3, <2>1, JoinedTwice
<1>5. /\ \A j \in DOMAIN x : x[j].addr = a /\ x[j].op # "release"
      /\ ~Tracked(a) => \E j \in DOMAIN x : x[j].op = "request"
  BY <1>3 DEF WritesDrive
<1>6. \A b \in Addr : b # a => locos'[b] = locos[b]
  BY <1>1, <1>2, StoredState
<1>7. \A b \in Addr : b # a => (Tracked(b)' <=> Tracked(b))
  BY <1>6 DEF Tracked
<1>8. UNCHANGED <<station, revived>>
  BY DEF ThrottleDrive
<1> QED
  BY <1>4, <1>5, <1>7, <1>8, ViewWritten

(* So does switching its functions. *)
LEMMA FunctionsViewed ==
    ASSUME ViewsInv, NEW t \in Throttles, NEW a \in Addr, NEW g \in FnGroups, NEW f \in g,
           NEW F \in Bitmaps(t, a, g, f), ThrottleFunctions(t, a, g, f, F)
    PROVE  \A b \in Addr : ViewKnown(b)'
<1>1. TypeOK /\ locos \in [Addr -> Locos \cup {NoLoco}] /\ toEcos \in Seq(Commands)
  BY DEF ViewsInv, TypeOK
<1>2. F \in SUBSET Fns /\ StateOf(a) \in Locos
  <2>1. g \in SUBSET Fns /\ f \in Fns /\ StateOf(a) \in Locos /\ StateOf(a).fns \in SUBSET Fns
    BY <1>1, StateOfType, RouterAssumption DEF Locos
  <2> QED
    BY <2>1 DEF Bitmaps
<1>3. PICK st \in Locos :
         /\ locos' = [locos EXCEPT ![a] = st]
         /\ SendFunctions(a, F, toEcos \o Subscription(a) \o DriveSets(a, st))
  <2> DEFINE st == [StateOf(a) EXCEPT !.fns = F]
  <2>1. st \in Locos
    BY <1>2 DEF Locos
  <2> QED
    BY <2>1 DEF ThrottleFunctions
<1>4. PICK s \in Seq(Commands) :
         toEcos' = toEcos \o s /\ WritesDrive(s, a, st) /\ WritesFunctions(s, a, F)
  BY <1>1, <1>2, <1>3, FunctionsWritten
<1>5. /\ \A j \in DOMAIN s : s[j].addr = a /\ s[j].op # "release"
      /\ ~Tracked(a) => \E j \in DOMAIN s : s[j].op = "request"
  BY <1>4 DEF WritesDrive
<1>6. \A b \in Addr : b # a => locos'[b] = locos[b]
  BY <1>1, <1>3, StoredState
<1>7. \A b \in Addr : b # a => (Tracked(b)' <=> Tracked(b))
  BY <1>6 DEF Tracked
<1>8. UNCHANGED <<station, revived>>
  BY DEF ThrottleFunctions
<1> QED
  BY <1>4, <1>5, <1>7, <1>8, ViewWritten

(* So does selecting it. *)
LEMMA SelectViewed ==
    ASSUME ViewsInv, NEW t \in Throttles, NEW a \in Addr, ThrottleSelect(t, a)
    PROVE  \A b \in Addr : ViewKnown(b)'
<1>1. TypeOK /\ locos \in [Addr -> Locos \cup {NoLoco}] /\ toEcos \in Seq(Commands)
      /\ \A b \in Addr : ViewKnown(b)
  BY DEF ViewsInv, TypeOK
<1>2. UNCHANGED <<station, revived>>
  BY DEF ThrottleSelect
<1>3. CASE UNCHANGED <<locos, toEcos>>
  BY <1>1, <1>2, <1>3 DEF ViewKnown, Tracked, WillView, ReleasesUndone, HasRequest
<1>4. CASE locos' = [locos EXCEPT ![a] = Placeholder] /\ toEcos' = toEcos \o Request(a)
  <2>1. Request(a) \in Seq(Commands) /\ Placeholder \in Locos
    BY RequestType, RouterAssumption DEF Placeholder, Locos
  <2>2. /\ \A j \in DOMAIN Request(a) : Request(a)[j].addr = a /\ Request(a)[j].op # "release"
        /\ \E j \in DOMAIN Request(a) : Request(a)[j].op = "request"
    BY DEF Request, Cmd
  <2>3. \A b \in Addr : b # a => locos'[b] = locos[b]
    BY <1>1, <1>4, <2>1, StoredState
  <2>4. \A b \in Addr : b # a => (Tracked(b)' <=> Tracked(b))
    BY <2>3 DEF Tracked
  <2> QED
    BY <1>2, <1>4, <2>1, <2>2, <2>4, ViewWritten
<1> QED
  BY <1>3, <1>4 DEF ThrottleSelect

(* An entry that an event makes is one of those set apart.                 *)
LEMMA EventViewed ==
    ASSUME ViewsInv, EcosDrive \/ EcosFunction
    PROVE  \A b \in Addr : ViewKnown(b)'
<1>1. /\ TypeOK /\ locos \in [Addr -> Locos \cup {NoLoco}]
      /\ \A b \in Addr : ViewKnown(b)
  BY DEF ViewsInv, TypeOK
<1>2. fromEcos # <<>> /\ UNCHANGED <<toEcos, station>>
  BY DEF EcosDrive, EcosFunction
<1>3. PICK a \in Addr : a = Head(fromEcos).addr
  BY <1>1, <1>2, HeadEventType
<1>4. \/ UNCHANGED <<locos, revived>>
      \/ Revive(a) /\ \E st : locos' = [locos EXCEPT ![a] = st]
  BY <1>3 DEF EcosDrive, EcosFunction
<1>5. \A b \in Addr : WillView(b) => WillView(b)'
  BY <1>2 DEF WillView, ReleasesUndone, HasRequest
<1>6. ASSUME NEW b \in Addr
      PROVE  ViewKnown(b)'
  <2>1. CASE UNCHANGED <<locos, revived>>
    BY <1>1, <1>5, <2>1 DEF ViewKnown, Tracked
  <2>2. ASSUME NEW st, Revive(a), locos' = [locos EXCEPT ![a] = st]
        PROVE  ViewKnown(b)'
    <3>1. revived \subseteq revived' /\ (~Tracked(a) => a \in revived')
      BY <2>2 DEF Revive
    <3>2. b # a => locos'[b] = locos[b]
      BY <1>1, <2>2
    <3>3. b = a => (Tracked(b) \/ b \in revived')
      BY <3>1
    <3> QED
      BY <1>1, <1>5, <3>1, <3>2, <3>3 DEF ViewKnown, Tracked
  <2> QED
    BY <1>4, <2>1, <2>2
<1> QED
  BY <1>6

(* Paced sending asks for values and sends functions, nothing else.        *)
LEMMA PacedViewed ==
    ASSUME ViewsInv, PacedStep
    PROVE  \A b \in Addr : ViewKnown(b)'
<1> DEFINE k == NextKey(baseline.left)
           f == NextKey(fnSweep.left)
           get == Cmd("get", baseline.addr, k, 0)
           set == Cmd("set", fnSweep.addr, f, Raw(f, fnSweep.fns))
           gets == IF baseline.left # {} THEN <<get>> ELSE <<>>
           sets == IF fnSweep.left # {} THEN <<set>> ELSE <<>>
           s == gets \o sets
<1>1. /\ TypeOK /\ toEcos \in Seq(Commands) /\ \A b \in Addr : ViewKnown(b)
      /\ baseline \in Baselines /\ fnSweep \in FnSweeps
  BY DEF ViewsInv, TypeOK
<1>2. gets \in Seq(Commands)
  <2> SUFFICES ASSUME baseline.left # {}
               PROVE  get \in Commands
    OBVIOUS
  <2>1. baseline.addr \in Addr /\ baseline.left \in SUBSET Keys
    BY <1>1 DEF Baselines
  <2>2. k \in Keys
    BY <2>1, NextKeyIsMember
  <2> QED
    BY <2>1, <2>2 DEF Cmd, Commands, KeyValues
<1>3. sets \in Seq(Commands)
  <2> SUFFICES ASSUME fnSweep.left # {}
               PROVE  set \in Commands
    OBVIOUS
  <2>1. fnSweep.addr \in Addr /\ fnSweep.left \in SUBSET Fns
    BY <1>1 DEF FnSweeps
  <2>2. f \in Fns
    BY <2>1, NextKeyIsMember
  <2> QED
    BY <2>1, <2>2, FunctionCmdType
<1>4. toEcos' = toEcos \o gets \o sets /\ UNCHANGED <<locos, station, revived>>
  BY DEF PacedStep
<1>5. /\ \A j \in DOMAIN gets : gets[j].op = "get"
      /\ \A j \in DOMAIN sets : sets[j].op = "set"
  BY DEF Cmd
<1> HIDE DEF gets, sets, k, f
<1>6. s \in Seq(Commands) /\ toEcos' = toEcos \o s
  BY <1>1, <1>2, <1>3, <1>4, JoinedTwice
<1>7. \A j \in DOMAIN s : \/ \E i \in DOMAIN gets : s[j] = gets[i]
                          \/ \E i \in DOMAIN sets : s[j] = sets[i]
  BY <1>2, <1>3, Joined
<1> HIDE DEF s
<1>8. ASSUME NEW b \in Addr
      PROVE  ViewKnown(b)'
  <2>1. \A j \in DOMAIN s : ~IsCmd(s[j], "request", b) /\ ~IsCmd(s[j], "release", b)
    BY <1>5, <1>7 DEF IsCmd
  <2>2. station'[b].viewed = station[b].viewed
    BY <1>4
  <2>3. WillView(b)' <=> WillView(b)
    BY <1>1, <1>6, <2>1, <2>2, ViewKept
  <2> QED
    BY <1>1, <1>4, <2>3 DEF ViewKnown, Tracked
<1> QED
  BY <1>8

(* Expiry releases the view of the loco it drops, and of no other.         *)
LEMMA ExpireViewed ==
    ASSUME ViewsInv, NEW a \in IdleAddr, Expire(a)
    PROVE  \A b \in Addr : ViewKnown(b)'
<1> DEFINE c == Cmd("release", a, "speed", 0)
           s == <<c>>
<1>1. /\ a \in Addr /\ toEcos \in Seq(Commands) /\ \A b \in Addr : ViewKnown(b)
      /\ locos \in [Addr -> Locos \cup {NoLoco}]
  BY RouterAssumption DEF ViewsInv, TypeOK
<1>2. c \in Commands
  BY <1>1 DEF Cmd, Commands, Keys, KeyValues
<1>3. c.op = "release" /\ c.addr = a
  BY DEF Cmd
<1>4. /\ locos' = [locos EXCEPT ![a] = NoLoco] /\ toEcos' = Append(toEcos, c)
      /\ revived' = revived \ {a} /\ UNCHANGED station
  BY DEF Expire
<1> HIDE DEF c
<1>5. /\ s \in Seq(Commands) /\ toEcos' = toEcos \o s
      /\ \A j \in DOMAIN s : s[j] = c
  BY <1>1, <1>2, <1>4
<1> HIDE DEF s
<1>6. locos'[a] = NoLoco /\ \A b \in Addr : b # a => locos'[b] = locos[b]
  BY <1>1, <1>4
<1>7. ASSUME NEW b \in Addr, b # a
      PROVE  ViewKnown(b)'
  <2>1. \A j \in DOMAIN s : ~IsCmd(s[j], "request", b) /\ ~IsCmd(s[j], "release", b)
    BY <1>3, <1>5, <1>7 DEF IsCmd
  <2>2. station'[b].viewed = station[b].viewed
    BY <1>4
  <2>3. WillView(b)' <=> WillView(b)
    BY <1>1, <1>5, <2>1, <2>2, ViewKept
  <2>4. /\ ViewKnown(b) /\ (Tracked(b)' <=> Tracked(b))
        /\ b \in revived => b \in revived'
    BY <1>1, <1>4, <1>6, <1>7 DEF Tracked
  <2> QED
    BY <2>3, <2>4, ViewKnownKept
<1>8. ViewKnown(a)'
  BY <1>6 DEF ViewKnown, Tracked
<1> QED
  BY <1>7, <1>8

(* A command that ECoS processes leaves what is to come of the views.      *)
LEMMA StationStepViewed ==
    ASSUME ViewsInv, StationStep
    PROVE  \A b \in Addr : ViewKnown(b)'
<1>1. TypeOK /\ toEcos \in Seq(Commands) /\ \A b \in Addr : ViewKnown(b)
  BY DEF ViewsInv, TypeOK
<1>2. toEcos # <<>> /\ toEcos' = Tail(toEcos) /\ UNCHANGED <<locos, revived>>
  BY DEF StationStep
<1>3. ASSUME NEW b \in Addr
      PROVE  ViewKnown(b)'
  <2>1. station'[b].viewed = IF IsCmd(Head(toEcos), "request", b) THEN TRUE
                             ELSE IF IsCmd(Head(toEcos), "release", b) THEN FALSE
                             ELSE station[b].viewed
    BY <1>1, ViewedAfter
  <2>2. WillView(b)' <=> WillView(b)
    BY <1>1, <1>2, <2>1, ViewProcessed
  <2> QED
    BY <1>1, <1>2, <2>2 DEF ViewKnown, Tracked
<1> QED
  BY <1>3

(* What the operator drives on ECoS changes no view.                       *)
LEMMA OperatorViewed ==
    ASSUME ViewsInv, NEW a \in OperatorAddr, NEW k \in Keys, NEW v \in ValuesOf(k),
           Operator(a, k, v)
    PROVE  \A b \in Addr : ViewKnown(b)'
<1>1. a \in Addr /\ TypeOK /\ \A b \in Addr : ViewKnown(b)
  BY RouterAssumption DEF ViewsInv
<1>2. UNCHANGED <<locos, toEcos, revived>> /\ station' = With(a, k, v)
  BY DEF Operator
<1>3. \A b \in Addr : station'[b].viewed = station[b].viewed
  BY <1>1, <1>2, GetWith
<1> QED
  BY <1>1, <1>2, <1>3 DEF ViewKnown, Tracked, WillView, ReleasesUndone, HasRequest

(* What leaves the table and the wire alone leaves the views alone. *)
LEMMA NothingViewed ==
    ASSUME ViewsInv, UNCHANGED <<locos, toEcos, station, revived>>
    PROVE  \A b \in Addr : ViewKnown(b)'
  BY DEF ViewsInv, ViewKnown, Tracked, WillView, ReleasesUndone, HasRequest

(* Every step keeps views and table together. *)
LEMMA NextViewed == ViewsInv /\ [Next]_vars => ViewsInv'
<1> SUFFICES ASSUME ViewsInv, [Next]_vars
             PROVE  ViewsInv'
  OBVIOUS
<1>1. TypeOK'
  BY NextType DEF ViewsInv
<1>2. \A b \in Addr : ViewKnown(b)'
  <2>1. CASE \E t \in Throttles, a \in Addr, d \in Drives : ThrottleDrive(t, a, d)
    BY <2>1, DriveViewed
  <2>2. CASE \E t \in Throttles, a \in Addr, g \in FnGroups : \E f \in g :
                \E F \in Bitmaps(t, a, g, f) : ThrottleFunctions(t, a, g, f, F)
    BY <2>2, FunctionsViewed
  <2>3. CASE \E t \in Throttles, a \in Addr : ThrottleSelect(t, a)
    BY <2>3, SelectViewed
  <2>4. CASE EcosDrive \/ EcosFunction
    BY <2>4, EventViewed
  <2>5. CASE PacedStep
    BY <2>5, PacedViewed
  <2>6. CASE \/ \E t \in Throttles, a \in Addr, d \in Drives : TableFull(t, a, d)
             \/ WindowCloses \/ BitsWindowCloses \/ UNCHANGED vars
    <3>1. UNCHANGED <<locos, toEcos, station, revived>>
      BY <2>6 DEF TableFull, WindowCloses, BitsWindowCloses, vars
    <3> QED
      BY <3>1, NothingViewed
  <2>7. CASE \E a \in IdleAddr : Expire(a)
    BY <2>7, ExpireViewed
  <2>8. CASE StationStep
    BY <2>8, StationStepViewed
  <2>9. CASE \E a \in OperatorAddr, k \in Keys : \E v \in ValuesOf(k) : Operator(a, k, v)
    BY <2>9, OperatorViewed
  <2> QED
    BY <2>1, <2>2, <2>3, <2>4, <2>5, <2>6, <2>7, <2>8, <2>9 DEF Next
<1> QED
  BY <1>1, <1>2 DEF ViewsInv

(* Whatever expires, and whatever the operator does on ECoS meanwhile: a   *)
(* loco that a throttle put into the table is one whose updates ECoS       *)
(* sends, and ECoS reports no loco that is not in the table.               *)
THEOREM ViewsAlwaysMatchTable == Spec => []ViewsMatchTable
<1>1. Init => ViewsInv
  <2> SUFFICES ASSUME Init
               PROVE  ViewsInv
    OBVIOUS
  <2>1. ASSUME NEW a \in Addr
        PROVE  ViewKnown(a)
    BY DEF Init, ViewKnown, Tracked
  <2> QED
    BY <2>1, InitType DEF ViewsInv
<1>2. ViewsInv /\ [Next]_vars => ViewsInv'
  BY NextViewed
<1>3. ViewsInv => SubscribedMeansViewed
  BY DEF ViewsInv, ViewKnown, WillView, HasRequest, SubscribedMeansViewed, Quiescent
<1>4. AgreeInv => ForgottenIsReleased
  BY DEF ForgottenIsReleased, Quiescent, AgreeInv, Agrees, ViewSound, WillView, ReleasesUndone
<1> QED
  BY <1>1, <1>2, <1>3, <1>4, AgreeInvariant, PTL DEF Spec, ViewsMatchTable
=============================================================================
