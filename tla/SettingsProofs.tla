--------------------------- MODULE SettingsProofs ---------------------------
(***************************************************************************)
(* Settings for every set of worlds, callers, events, loggers and          *)
(* patterns: variables and their listeners, loggers and the events they    *)
(* write, the files that are loaded, and the modules.                      *)
(***************************************************************************)
EXTENDS Settings, SequenceTheorems, TLAPS

(* Records have their fields and tables their entries. What a file, a text *)
(* or a pattern holds is left open.                                        *)
CallerFields == {"pc", "force", "path", "mtime", "due", "todo", "key", "val", "old", "by",
                 "changed", "gone", "define", "apps", "module", "ids", "out"}

Shape ==
    /\ world \in Worlds
    /\ DOMAIN file = {"root", "ok", "mtime", "edits", "noted"}
    /\ DOMAIN var = Keys
    /\ DOMAIN caller = Callers
    /\ \A c \in Callers : DOMAIN caller[c] = CallerFields
    /\ DOMAIN logger = Loggers
    /\ \A n \in Loggers : DOMAIN logger[n] = {"level", "pattern", "apps"}
    /\ DOMAIN event = Events
    /\ \A e \in Events : DOMAIN event[e] = {"pc", "name", "level", "to"}
    /\ DOMAIN modules = {"byId", "byType", "loaded", "unloaded"}

LEMMA ShapeInit == Init => Shape
  BY DEF Init, Shape, Resting, CallerFields, NewLogger, Quiet, Loggers

(* The callers after a step of one of them.                                *)
LEMMA StepKeeps ==
    ASSUME Shape, NEW c \in Callers, NEW next, DOMAIN next = CallerFields, Step(c, next)
    PROVE  /\ DOMAIN caller' = Callers /\ \A d \in Callers : DOMAIN caller'[d] = CallerFields
           /\ caller'[c] = next
           /\ \A d \in Callers : d # c => caller'[d] = caller[d]
  BY DEF Shape, Step

LEMMA RestingFields == DOMAIN Resting = CallerFields
  BY DEF Resting, CallerFields

LEMMA FinishedFields == ASSUME NEW c PROVE DOMAIN Finished(c) = CallerFields
  BY DEF Finished, Resting, CallerFields

(* One logger is changed.                                                  *)
LEMMA SetFormatterFields ==
    ASSUME NEW l, DOMAIN l = {"level", "pattern", "apps"}, NEW p
    PROVE  DOMAIN SetFormatter(l, p) = {"level", "pattern", "apps"}
  BY DEF SetFormatter

LEMMA AddAppenderFields ==
    ASSUME NEW l, DOMAIN l = {"level", "pattern", "apps"}, NEW a, NEW by
    PROVE  DOMAIN AddAppender(l, a, by) = {"level", "pattern", "apps"}
  BY DEF AddAppender

(* What a step of a caller does to the callers.                            *)
Moves(c) == \E next : DOMAIN next = CallerFields /\ Step(c, next)

LEMMA LoadMoves ==
    ASSUME Shape, NEW c \in Callers, LoadStep(c)
    PROVE  Moves(c) /\ UNCHANGED <<world, file, logger, event, cached, var, modules>>
  <1> USE RestingFields, FinishedFields DEF Moves
  <1>1. ASSUME NEW force, Loads(c, force)
        PROVE  Moves(c) /\ UNCHANGED <<world, file, logger, event, cached, var, modules>>
    BY <1>1 DEF Loads, LoadBegins, CallerFields
  <1>2. CASE LoadsNothing(c)
    BY <1>2 DEF LoadsNothing
  <1>3. CASE LoadChecks(c)
    BY <1>3 DEF LoadChecks, Ends, Shape, CallerFields
  <1>4. CASE LoadReads(c)
    BY <1>4 DEF LoadReads, Ends, Shape, CallerFields
  <1>5. CASE LoadEnds(c)
    BY <1>5 DEF LoadEnds, Ends
  <1> QED
    BY <1>1, <1>2, <1>3, <1>4, <1>5 DEF LoadStep

LEMMA SetMoves ==
    ASSUME Shape, NEW c \in Callers, SetStep(c)
    PROVE  Moves(c) /\ UNCHANGED <<world, file, event, seen, modules>>
  <1> USE RestingFields DEF Moves
  <1>1. ASSUME NEW k, NEW text, Sets(c, k, text)
        PROVE  Moves(c) /\ UNCHANGED <<world, file, event, seen, modules>>
    BY <1>1 DEF Sets, CallerFields
  <1>2. CASE MemberSkipped(c)
    BY <1>2 DEF MemberSkipped, Skips, Shape, CallerFields
  <1>3. CASE MemberChanged(c)
    BY <1>3 DEF MemberChanged, Skips, Shape, CallerFields
  <1>4. CASE Notify(c)
    BY <1>4 DEF Notify, NotifyNext, Turns, NotifyLevel, NotifyFormatter, NotifyClear, NotifyAdd, Rebuilds, Shape, CallerFields
  <1>5. CASE Notified(c)
    BY <1>5 DEF Notified, Shape, CallerFields
  <1>6. CASE Assign(c)
    BY <1>6 DEF Assign, Store, Shape, CallerFields
  <1> QED
    BY <1>1, <1>2, <1>3, <1>4, <1>5, <1>6 DEF SetStep

(* del(), onUnload and a library that fails: a caller comes to one of a few *)
(* places, and keeps what it was to load.                                  *)
Dels(c) == AddErases(c) \/ DelAllErases(c) \/ Unloads(c) \/ \E m \in world.modules : LibraryFails(c, m)

LEMMA ReturnedIs ==
    ASSUME NEW x, DOMAIN x = CallerFields
    PROVE  /\ DOMAIN Returned(x) = CallerFields /\ Returned(x).pc \in {"insert", "delall", "idle"}
           /\ \/ Returned(x).mtime = 0 /\ Returned(x).due = {} /\ Returned(x).todo = <<>>
              \/ Returned(x).mtime = x.mtime /\ Returned(x).due = x.due /\ Returned(x).todo = x.todo
  BY RestingFields DEF Returned, Resting, CallerFields

LEMMA DelMoves ==
    ASSUME Shape, NEW c \in Callers, Dels(c)
    PROVE  /\ Step(c, caller'[c]) /\ DOMAIN caller'[c] = CallerFields
           /\ caller[c].pc \in {"idle", "del", "delall", "unload"}
           /\ caller'[c].pc \in {"idle", "insert", "delall", "unload"}
           /\ \/ caller'[c].mtime = 0 /\ caller'[c].due = {} /\ caller'[c].todo = <<>>
              \/ /\ caller'[c].mtime = caller[c].mtime /\ caller'[c].due = caller[c].due
                 /\ caller'[c].todo = caller[c].todo
           /\ UNCHANGED <<world, file, seen, var, cached, logger, event, fresh>>
           /\ DOMAIN modules' = DOMAIN modules
           /\ c \in world.callers \/ caller[c].pc # "idle"
  <1>0. DOMAIN caller[c] = CallerFields
    BY DEF Shape
  <1>1. ASSUME NEW next, Step(c, next), DOMAIN next = CallerFields
        PROVE  caller'[c] = next
    BY <1>1, StepKeeps
  <1>2. ASSUME NEW id, NEW x, DOMAIN x = CallerFields, x.mtime = caller[c].mtime, x.due = caller[c].due,
               x.todo = caller[c].todo, Erases(c, id, Returned(x))
        PROVE  /\ Step(c, caller'[c]) /\ DOMAIN caller'[c] = CallerFields
               /\ caller'[c].pc \in {"idle", "insert", "delall", "unload"}
               /\ \/ caller'[c].mtime = 0 /\ caller'[c].due = {} /\ caller'[c].todo = <<>>
                  \/ /\ caller'[c].mtime = caller[c].mtime /\ caller'[c].due = caller[c].due
                     /\ caller'[c].todo = caller[c].todo
               /\ UNCHANGED <<world, file, seen, var, cached, logger, event, fresh>>
               /\ DOMAIN modules' = DOMAIN modules
    <2> DEFINE next == Returned(x)
               last == IF Leaving(id) = {} THEN next ELSE [next EXCEPT !.pc = "unload", !.out = Leaving(id)]
    <2>1. Step(c, last) /\ UNCHANGED <<world, file, seen, var, cached, logger, event, fresh>>
      BY <1>2 DEF Erases
    <2>2. DOMAIN modules' = DOMAIN modules
      BY <1>2 DEF Erases, Erased
    <2>3. /\ DOMAIN next = CallerFields /\ next.pc \in {"insert", "delall", "idle"}
          /\ \/ next.mtime = 0 /\ next.due = {} /\ next.todo = <<>>
             \/ next.mtime = x.mtime /\ next.due = x.due /\ next.todo = x.todo
      BY <1>2, ReturnedIs
    <2> HIDE DEF next
    <2>4. /\ DOMAIN last = CallerFields /\ last.pc \in {"insert", "delall", "idle", "unload"}
          /\ last.mtime = next.mtime /\ last.due = next.due /\ last.todo = next.todo
      BY <2>3 DEF CallerFields
    <2> HIDE DEF last
    <2>5. caller'[c] = last
      BY <1>1, <2>1, <2>4
    <2> QED
      BY <1>2, <2>1, <2>2, <2>3, <2>4, <2>5
  <1>3. CASE AddErases(c)
    BY <1>0, <1>2, <1>3 DEF AddErases
  <1>4. CASE DelAllErases(c)
    <2>1. PICK id : Erases(c, id, Returned([caller[c] EXCEPT !.ids = @ \ {id}])) /\ caller[c].pc = "delall"
      BY <1>4 DEF DelAllErases
    <2> DEFINE x == [caller[c] EXCEPT !.ids = @ \ {id}]
    <2>2. /\ DOMAIN x = CallerFields /\ x.mtime = caller[c].mtime /\ x.due = caller[c].due
          /\ x.todo = caller[c].todo
      BY <1>0 DEF CallerFields
    <2> HIDE DEF x
    <2> QED
      BY <1>2, <2>1, <2>2 DEF x
  <1>5. CASE Unloads(c)
    <2> DEFINE x == [caller[c] EXCEPT !.out = {}]
    <2>1. /\ caller[c].pc = "unload" /\ Step(c, Returned(x)) /\ DOMAIN modules' = DOMAIN modules
          /\ UNCHANGED <<world, file, seen, var, cached, logger, event, fresh>>
      BY <1>5 DEF Unloads
    <2>2. /\ DOMAIN x = CallerFields /\ x.mtime = caller[c].mtime /\ x.due = caller[c].due
          /\ x.todo = caller[c].todo
      BY <1>0 DEF CallerFields
    <2> HIDE DEF x
    <2> QED
      BY <1>1, <2>1, <2>2, ReturnedIs
  <1>6. ASSUME NEW m \in world.modules, LibraryFails(c, m)
        PROVE  /\ Step(c, caller'[c]) /\ caller'[c] = Resting /\ caller[c].pc = "idle" /\ c \in world.callers
               /\ UNCHANGED <<world, file, seen, var, cached, logger, event, fresh, modules>>
    BY <1>1, <1>6, RestingFields DEF LibraryFails
  <1> QED
    <2>1. /\ DOMAIN Resting = CallerFields /\ Resting.pc = "idle" /\ Resting.mtime = 0 /\ Resting.due = {}
          /\ Resting.todo = <<>>
      BY RestingFields DEF Resting
    <2>2. ASSUME NEW m \in world.modules, LibraryFails(c, m)
          PROVE  /\ Step(c, caller'[c]) /\ DOMAIN caller'[c] = CallerFields /\ caller[c].pc = "idle"
                 /\ caller'[c].pc = "idle" /\ caller'[c].mtime = 0 /\ caller'[c].due = {}
                 /\ caller'[c].todo = <<>> /\ c \in world.callers
                 /\ UNCHANGED <<world, file, seen, var, cached, logger, event, fresh, modules>>
      BY <1>6, <2>1, <2>2
    <2>3. /\ AddErases(c) => caller[c].pc = "del"
          /\ DelAllErases(c) => caller[c].pc = "delall"
          /\ Unloads(c) => caller[c].pc = "unload"
      BY DEF AddErases, DelAllErases, Unloads
    <2> QED
      BY <1>3, <1>4, <1>5, <2>2, <2>3 DEF Dels

LEMMA ModuleMoves ==
    ASSUME Shape, NEW c \in Callers, ModuleStep(c)
    PROVE  Moves(c) /\ UNCHANGED <<world, file, event, seen, logger, cached, fresh>>
  <1> USE RestingFields DEF Moves
  <1>1. ASSUME NEW m, LoadLibrary(c, m)
        PROVE  Moves(c) /\ UNCHANGED <<world, file, event, seen, logger, cached, fresh>>
    BY <1>1 DEF LoadLibrary, Resting, CallerFields
  <1>2. CASE LoadsAgain(c)
    BY <1>2 DEF LoadsAgain, LoadBegins, Shape, CallerFields
  <1>3. CASE Dels(c)
    BY <1>3, DelMoves
  <1>4. CASE AddInserts(c)
    BY <1>4 DEF AddInserts
  <1>5. CASE DelAllBegins(c)
    BY <1>5 DEF DelAllBegins, CallerFields
  <1> QED
    BY <1>1, <1>2, <1>3, <1>4, <1>5 DEF ModuleStep, Dels

LEMMA CallerSteps ==
    ASSUME Shape, NEW c \in Callers, LoadStep(c) \/ SetStep(c) \/ ModuleStep(c)
    PROVE  Moves(c) /\ UNCHANGED <<world, file, event>>
  BY LoadMoves, SetMoves, ModuleMoves

LEMMA LoggersShaped ==
    ASSUME Shape, NEW c \in Callers, SetStep(c)
    PROVE  DOMAIN logger' = Loggers /\ \A n \in Loggers : DOMAIN logger'[n] = {"level", "pattern", "apps"}
  <1> USE SetFormatterFields, AddAppenderFields
  <1>1. ASSUME NEW k, NEW text, Sets(c, k, text)
        PROVE  logger' = logger
    BY <1>1 DEF Sets
  <1>2. MemberSkipped(c) \/ MemberChanged(c) \/ Notified(c) \/ Assign(c) \/ NotifyNext(c) => logger' = logger
    BY DEF MemberSkipped, MemberChanged, Notified, Assign, Store, NotifyNext
  <1>3. CASE NotifyLevel(c)
    BY <1>3 DEF NotifyLevel, Rebuilds, Rebuilt, Shape
  <1>4. CASE NotifyFormatter(c)
    BY ZenonT(60), <1>4 DEF NotifyFormatter, Rebuilds, Rebuilt, Shape
  <1>5. CASE NotifyClear(c)
    BY <1>5 DEF NotifyClear, Rebuilds, Rebuilt, ClearAppenders, Shape
  <1>6. CASE NotifyAdd(c)
    <2> DEFINE n == caller[c].define.name
               l == AddAppender(logger[n], Head(caller[c].apps), caller[c].by)
    <2>1. ASSUME n \in Loggers
          PROVE  DOMAIN l = {"level", "pattern", "apps"}
      <3>1. DOMAIN logger[n] = {"level", "pattern", "apps"}
        BY <2>1 DEF Shape
      <3> HIDE DEF n
      <3> QED
        BY <3>1, AddAppenderFields
    <2>2. logger' = logger \/ logger' = [logger EXCEPT ![n] = l]
      BY <1>6 DEF NotifyAdd
    <2> HIDE DEF l, n
    <2> QED
      BY <2>1, <2>2 DEF Shape
  <1> QED
    BY <1>1, <1>2, <1>3, <1>4, <1>5, <1>6 DEF SetStep, Notify, Shape

LEMMA ShapeNext == Shape /\ [Next]_vars => Shape'
  <1> SUFFICES ASSUME Shape, [Next]_vars
               PROVE  Shape'
    OBVIOUS
  <1>0. CASE UNCHANGED vars
    BY <1>0 DEF vars, Shape
  <1>1. CASE Write
    BY <1>1 DEF Write, Shape, CallerFields
  <1>2. ASSUME NEW c \in Callers, LoadStep(c) \/ SetStep(c) \/ ModuleStep(c)
        PROVE  Shape'
    <2>1. /\ DOMAIN caller' = Callers /\ \A d \in Callers : DOMAIN caller'[d] = CallerFields
          /\ UNCHANGED <<world, file, event>>
      BY <1>2, CallerSteps, StepKeeps DEF Moves
    <2>2. DOMAIN logger' = Loggers /\ \A n \in Loggers : DOMAIN logger'[n] = {"level", "pattern", "apps"}
      <3>1. LoadStep(c) \/ ModuleStep(c) => logger' = logger
        BY LoadMoves, ModuleMoves
      <3> QED
        BY <1>2, <3>1, LoggersShaped DEF Shape
    <2>3. DOMAIN var' = Keys
      <3>1. CASE LoadStep(c)
        BY <3>1, LoadMoves DEF Shape
      <3>2. CASE SetStep(c)
        BY <3>2 DEF SetStep, Sets, MemberSkipped, MemberChanged, Notify, NotifyNext, NotifyLevel, NotifyFormatter,
                    NotifyClear, NotifyAdd, Rebuilds, Notified, Assign, Store, Shape
      <3>3. CASE ModuleStep(c)
        BY <3>3, DelMoves DEF ModuleStep, Dels, LoadLibrary, LoadsAgain, LoadBegins, AddInserts, DelAllBegins,
                              Lookup, Shape
      <3> QED
        BY <1>2, <3>1, <3>2, <3>3
    <2>4. DOMAIN modules' = {"byId", "byType", "loaded", "unloaded"}
      <3>1. LoadStep(c) \/ SetStep(c) => modules' = modules
        BY LoadMoves, SetMoves
      <3>2. CASE ModuleStep(c)
        BY <3>2, DelMoves DEF ModuleStep, Dels, LoadLibrary, LoadsAgain, LoadBegins, AddInserts, DelAllBegins,
                              Inserted, Shape
      <3> QED
        BY <1>2, <3>1, <3>2 DEF Shape
    <2> QED
      BY <2>1, <2>2, <2>3, <2>4 DEF Shape
  <1>3. ASSUME NEW e \in Events, LogStep(e)
        PROVE  Shape'
    BY <1>3 DEF LogStep, Log, WriteOwn, WriteRoot, Quiet, Shape
  <1>4. ASSUME NEW n \in Loggers, NEW p, Reformat(n, p)
        PROVE  Shape'
    BY <1>4, SetFormatterFields DEF Reformat, Shape
  <1> QED
    BY <1>0, <1>1, <1>2, <1>3, <1>4 DEF Next

-----------------------------------------------------------------------------
(* Variables and the callers that set them. A variable that exists stays;  *)
(* whoever notifies holds the shared lock of its variable, so that nobody  *)
(* assigns to it; and only callers of this world do anything.              *)
Setting(c) == caller[c].pc \in Listening \cup {"assign"}

Setters ==
    \A c \in Callers :
        /\ Setting(c) => /\ caller[c].key \in Keys /\ caller[c].val # None
                         /\ var[caller[c].key] # None
        /\ caller[c].pc \in Listening => var[caller[c].key] = caller[c].old
        /\ caller[c].pc # "idle" => c \in world.callers

LEMMA SettersInit == Init => Setters
  BY DEF Init, Setters, Setting, Listening, Resting

LEMMA SettersNext == Shape /\ Setters /\ [Next]_vars => Setters'
  <1> SUFFICES ASSUME Shape, Setters, [Next]_vars
               PROVE  Setters'
    OBVIOUS
  <1>w. world' = world
    BY CallerSteps DEF Next, vars, Write, LogStep, Log, WriteOwn, WriteRoot, Reformat
  (* A caller moves on, and no other one is disturbed. *)
  <1>1. ASSUME NEW c \in Callers, NEW next, DOMAIN next = CallerFields, Step(c, next),
               \A d \in Callers \ {c} : /\ Setting(d) => var'[caller[d].key] # None
                                        /\ caller[d].pc \in Listening => var'[caller[d].key] = var[caller[d].key],
               next.pc \in Listening \cup {"assign"} =>
                   next.key \in Keys /\ next.val # None /\ var'[next.key] # None,
               next.pc \in Listening => var'[next.key] = next.old,
               next.pc # "idle" => c \in world.callers
        PROVE  Setters'
    BY <1>1, <1>w, StepKeeps DEF Setters, Setting
  <1>2. ASSUME NEW c \in Callers, NEW next, DOMAIN next = CallerFields, Step(c, next), var' = var,
               next.pc \in Listening \cup {"assign"} =>
                   next.key \in Keys /\ next.val # None /\ var[next.key] # None,
               next.pc \in Listening => var[next.key] = next.old,
               next.pc # "idle" => c \in world.callers
        PROVE  Setters'
    BY <1>2, <1>1 DEF Setters, Setting
  <1>3. CASE Write
    BY <1>3, <1>w DEF Write, Setters, Setting, Shape, CallerFields
  <1>4. ASSUME NEW c \in Callers, LoadStep(c)
        PROVE  Setters'
    <2> USE RestingFields, FinishedFields
    <2>1. var' = var
      BY <1>4, LoadMoves
    <2>2. ASSUME NEW force, Loads(c, force) PROVE Setters'
      BY <1>2, <2>1, <2>2 DEF Loads, LoadBegins, CallerFields, Listening
    <2>f. Finished(c).pc \in {"idle", "del"} /\ (Finished(c).pc = "del" => caller[c].module # None)
      BY DEF Finished, Resting
    <2>3. CASE LoadsNothing(c)
      BY <1>2, <2>1, <2>3, <2>f DEF LoadsNothing, Listening, Setters
    <2>4. CASE LoadChecks(c)
      BY <1>2, <2>1, <2>4, <2>f DEF LoadChecks, Ends, Listening, Setters, Shape, CallerFields
    <2>5. CASE LoadReads(c)
      BY <1>2, <2>1, <2>5, <2>f DEF LoadReads, Ends, Listening, Setters, Shape, CallerFields
    <2>6. CASE LoadEnds(c)
      BY <1>2, <2>1, <2>6, <2>f DEF LoadEnds, Ends, Listening, Setters
    <2> QED
      BY <1>4, <2>2, <2>3, <2>4, <2>5, <2>6 DEF LoadStep
  <1>5. ASSUME NEW c \in Callers, SetStep(c)
        PROVE  Setters'
    <2> USE RestingFields
    <2>1. ASSUME NEW k, NEW text, Sets(c, k, text) PROVE Setters'
      BY <1>2, <2>1 DEF Sets, CallerFields, Listening
    <2>2. CASE MemberSkipped(c)
      BY <1>2, <2>2 DEF MemberSkipped, Skips, Listening, Setters, Shape, CallerFields
    <2>3. CASE MemberChanged(c)
      <3> DEFINE m == Head(caller[c].todo)
      <3>1. PICK k \in KeyAt(m) :
               /\ IF FromString(k, m.text) = None THEN FALSE ELSE ~SameValue(k, FromString(k, m.text), var[k])
               /\ Step(c, [Skips(c) EXCEPT !.pc = "notify", !.key = k, !.val = FromString(k, m.text), !.old = var[k],
                             !.by = <<c, calls>>,
                             !.changed = IF k = "logs" THEN Changed(var[k], FromString(k, m.text)) ELSE {},
                             !.gone = IF k = "logs" THEN Gone(var[k], FromString(k, m.text)) ELSE {}])
        BY <2>3 DEF MemberChanged
      <3>2. k \in Keys /\ var[k] # None /\ FromString(k, m.text) # None
        BY <3>1 DEF KeyAt
      <3>3. var' = var /\ c \in world.callers
        BY <2>3 DEF MemberChanged, Setters
      <3> HIDE DEF m
      <3> QED
        BY <1>2, <3>1, <3>2, <3>3 DEF Skips, Listening, Shape, CallerFields
    <2>4. CASE Notify(c)
      <3>1. CASE NotifyNext(c)
        <4>1. DOMAIN caller[c] = CallerFields /\ var' = var /\ caller[c].pc = "notify"
          BY <3>1 DEF NotifyNext, Shape
        <4>2. PICK x, y, d : Turns(c, [caller[c] EXCEPT !.changed = x, !.gone = y], d)
          <5>1. CASE \E d \in caller[c].changed : Turns(c, [caller[c] EXCEPT !.changed = @ \ {d}], d)
            <6>1. \A x : [caller[c] EXCEPT !.changed = x] = [caller[c] EXCEPT !.changed = x, !.gone = caller[c].gone]
              BY <4>1 DEF CallerFields
            <6> QED
              BY <5>1, <6>1
          <5>2. CASE \E n \in caller[c].gone : Turns(c, [caller[c] EXCEPT !.gone = @ \ {n}], Dismissal(n))
            <6>1. \A y : [caller[c] EXCEPT !.gone = y] = [caller[c] EXCEPT !.changed = caller[c].changed, !.gone = y]
              BY <4>1 DEF CallerFields
            <6> QED
              BY <5>2, <6>1
          <5> QED
            BY <3>1, <5>1, <5>2 DEF NotifyNext
        <4> DEFINE next == [caller[c] EXCEPT !.changed = x, !.gone = y, !.pc = "level", !.define = d, !.apps = d.appenders]
        <4>3. Step(c, next)
          BY <4>1, <4>2 DEF Turns, Step
        <4>4. /\ DOMAIN next = CallerFields /\ next.pc = "level"
              /\ next.key = caller[c].key /\ next.val = caller[c].val /\ next.old = caller[c].old
          BY <4>1 DEF CallerFields
        <4> HIDE DEF next
        <4> QED
          BY <1>2, <4>1, <4>3, <4>4 DEF Listening, Setters, Setting
      <3>2. CASE NotifyLevel(c)
        BY <1>2, <3>2 DEF NotifyLevel, Rebuilds, Listening, Setters, Setting, Shape, CallerFields
      <3>3. CASE NotifyFormatter(c)
        BY <1>2, <3>3 DEF NotifyFormatter, Rebuilds, Listening, Setters, Setting, Shape, CallerFields
      <3>4. CASE NotifyClear(c)
        BY <1>2, <3>4 DEF NotifyClear, Rebuilds, Listening, Setters, Setting, Shape, CallerFields
      <3>5. CASE NotifyAdd(c)
        BY <1>2, <3>5 DEF NotifyAdd, Rebuilds, Listening, Setters, Setting, Shape, CallerFields
      <3> QED
        BY <2>4, <3>1, <3>2, <3>3, <3>4, <3>5 DEF Notify
    <2>5. CASE Notified(c)
      BY ZenonT(60), <1>2, <2>5 DEF Notified, Listening, Setters, Setting, Shape, CallerFields
    <2>6. CASE Assign(c)
      <3>1. var' = [var EXCEPT ![caller[c].key] = caller[c].val] /\ caller[c].pc = "assign"
            /\ \A d \in Callers : caller[d].pc \in Listening => caller[d].key # caller[c].key
        BY <2>6 DEF Assign, Store
      <3>2. ASSUME NEW d \in Callers \ {c}
            PROVE  /\ Setting(d) => var'[caller[d].key] # None
                   /\ caller[d].pc \in Listening => var'[caller[d].key] = var[caller[d].key]
        BY <3>1 DEF Setters, Setting, Shape
      <3> DEFINE next == [caller[c] EXCEPT !.pc = "keys", !.key = None, !.val = None, !.old = None, !.by = None]
      <3>3. Step(c, next) /\ DOMAIN next = CallerFields /\ next.pc = "keys" /\ c \in world.callers
        BY <2>6, <3>1 DEF Assign, Store, Setters, Shape, CallerFields
      <3> HIDE DEF next
      <3> QED
        BY <1>1, <3>2, <3>3 DEF Listening
    <2> QED
      BY <1>5, <2>1, <2>2, <2>3, <2>4, <2>5, <2>6 DEF SetStep
  <1>6. ASSUME NEW c \in Callers, ModuleStep(c)
        PROVE  Setters'
    <2> USE RestingFields
    <2>1. ASSUME NEW m, LoadLibrary(c, m) PROVE Setters'
      <3>1. ASSUME NEW k \in Keys, var[k] # None PROVE var'[k] = var[k]
        BY <2>1, <3>1 DEF LoadLibrary, Lookup, Shape
      <3> DEFINE next == [Resting EXCEPT !.pc = "loaded", !.module = m]
      <3>2. Step(c, next) /\ DOMAIN next = CallerFields /\ next.pc = "loaded" /\ c \in world.callers
        BY <2>1 DEF LoadLibrary, CallerFields
      <3>3. ASSUME NEW d \in Callers \ {c}
            PROVE  /\ Setting(d) => var'[caller[d].key] # None
                   /\ caller[d].pc \in Listening => var'[caller[d].key] = var[caller[d].key]
        BY <3>1 DEF Setters, Setting
      <3> HIDE DEF next
      <3> QED
        BY <1>1, <3>2, <3>3 DEF Listening
    <2>2. CASE LoadsAgain(c)
      BY <1>2, <2>2 DEF LoadsAgain, LoadBegins, Listening, Setters, Shape, CallerFields
    <2>3. CASE Dels(c)
      BY <1>2, <2>3, DelMoves DEF Listening, Setters
    <2>4. CASE AddInserts(c)
      BY <1>2, <2>4 DEF AddInserts, Resting, Listening
    <2>5. CASE DelAllBegins(c)
      BY <1>2, <2>5 DEF DelAllBegins, Listening, CallerFields
    <2> QED
      BY <1>6, <2>1, <2>2, <2>3, <2>4, <2>5 DEF ModuleStep, Dels
  <1>7. UNCHANGED <<world, var, caller>> => Setters'
    BY DEF Setters, Setting
  <1>8. ASSUME NEW e \in Events, LogStep(e)
        PROVE  Setters'
    BY <1>7, <1>8 DEF LogStep, Log, WriteOwn, WriteRoot
  <1>9. ASSUME NEW n \in Loggers, NEW p, Reformat(n, p)
        PROVE  Setters'
    BY <1>7, <1>9 DEF Reformat
  <1> QED
    BY <1>3, <1>4, <1>5, <1>6, <1>7, <1>8, <1>9 DEF Next, vars

(* Whoever is told a change is told the value that is stored, whatever     *)
(* other threads set meanwhile (config.h:320-333).                         *)
THEOREM OldIsStored == Spec => []OldStaysStored
  <1>1. Setters => OldStaysStored
    BY DEF Setters, OldStaysStored
  <1> QED
    BY <1>1, ShapeInit, SettersInit, ShapeNext, SettersNext, PTL DEF Spec

-----------------------------------------------------------------------------
(* Modules. A module that is being added is held by one caller, one that   *)
(* is being unloaded by one caller that has taken it out; neither is in a  *)
(* table or has been unloaded; and add() finds nothing of its identity     *)
(* when it inserts.                                                        *)
Apart == Alone \/ \A m, n \in world.modules : m # n => ~Same(m, n)

Coming == {caller[c].module : c \in Callers} \ {None}

Out == UNION {caller[c].out : c \in Callers}

Entering == {"loaded", "del", "insert"}

(* The places of a caller that has made sure of the identity.              *)
Cleared == {"insert", "unload"}

Placed(x) ==
    /\ x.module # None =>
          /\ x.pc \notin {"idle", "delall"}
          /\ x.module \in modules.loaded \ (modules.byId \cup modules.unloaded)
    /\ x.pc \in Entering => x.module # None
    /\ x.pc \in Cleared /\ x.module # None => \A n \in modules.byId : ~Same(n, x.module)
    /\ x.pc # "unload" => x.out = {}
    /\ x.out \subseteq modules.loaded \ (modules.byId \cup modules.unloaded)

ModulePlaces ==
    /\ modules.loaded \subseteq world.modules /\ modules.byId \subseteq modules.loaded
    /\ modules.unloaded \subseteq modules.loaded
    /\ \A c \in Callers : Placed(caller[c])
    /\ \A c, d \in Callers : caller[c].module = caller[d].module /\ caller[c].module # None => c = d
    /\ \A c, d \in Callers : c # d => caller[c].out \cap caller[d].out = {}
    /\ Coming \cap Out = {}
    /\ modules.byType = modules.byId
    /\ modules.loaded = Coming \cup modules.byId \cup Out \cup modules.unloaded
    /\ modules.byId \cap modules.unloaded = {}

ModulesInv == Apart => ModulePlaces

LEMMA ModulesInit == Init => ModulesInv
  BY DEF Init, ModulesInv, ModulePlaces, Placed, Coming, Out, Resting, Entering, Cleared

(* A step that leaves the tables and what callers hold as they are.        *)
LEMMA ModulesFrame ==
    ASSUME ModulePlaces, UNCHANGED <<world, modules>>,
           \A d \in Callers :
               /\ caller'[d].module = caller[d].module /\ caller'[d].out = caller[d].out
               /\ caller'[d].pc \in Entering => caller[d].module # None
               /\ caller'[d].pc \in {"idle", "delall"} => caller[d].module = None
               /\ caller'[d].pc \in Cleared => caller[d].pc \in Cleared
               /\ caller'[d].pc # "unload" => caller[d].out = {}
    PROVE  ModulePlaces'
  <1>1. Coming' = Coming /\ Out' = Out
    BY DEF Coming, Out
  <1>2. \A d \in Callers : Placed(caller[d])'
    BY DEF ModulePlaces, Placed
  <1> QED
    BY <1>1, <1>2 DEF ModulePlaces

LEMMA ModulesStep ==
    ASSUME Shape, ModulePlaces, UNCHANGED <<world, modules>>,
           NEW c \in Callers, NEW next, DOMAIN next = CallerFields, Step(c, next), caller[c].pc # "unload",
           next.module = caller[c].module, next.out = caller[c].out, next.pc \notin Cleared,
           next.pc \in Entering => caller[c].module # None,
           next.pc \in {"idle", "delall"} => caller[c].module = None
    PROVE  ModulePlaces'
  <1>1. \A d \in Callers : caller'[d] = IF d = c THEN next ELSE caller[d]
    BY StepKeeps
  <1>2. ASSUME NEW d \in Callers
        PROVE  /\ caller'[d].module = caller[d].module /\ caller'[d].out = caller[d].out
               /\ caller'[d].pc \in Entering => caller[d].module # None
               /\ caller'[d].pc \in {"idle", "delall"} => caller[d].module = None
               /\ caller'[d].pc \in Cleared => caller[d].pc \in Cleared
               /\ caller'[d].pc # "unload" => caller[d].out = {}
    BY <1>1 DEF ModulePlaces, Placed
  <1> QED
    BY <1>2, ModulesFrame

LEMMA ModulesLoad ==
    ASSUME Shape, ModulePlaces, NEW c \in Callers, LoadStep(c)
    PROVE  ModulePlaces'
  <1> USE RestingFields, FinishedFields
  <1>0. UNCHANGED <<world, modules>>
    BY LoadMoves
  <1>d. Placed(caller[c])
    BY DEF ModulePlaces
  <1>f. /\ Finished(c).module = caller[c].module /\ Finished(c).out = {}
        /\ Finished(c).pc = IF caller[c].module = None THEN "idle" ELSE "del"
    BY DEF Finished, Resting
  <1>g. ASSUME Step(c, Finished(c)), caller[c].pc # "unload" PROVE ModulePlaces'
    BY <1>0, <1>d, <1>f, <1>g, ModulesStep DEF Entering, Cleared, Placed
  <1>1. ASSUME NEW force, Loads(c, force) PROVE ModulePlaces'
    BY <1>0, <1>d, <1>1, ModulesStep DEF Loads, LoadBegins, Resting, CallerFields, Entering, Cleared, Placed
  <1>2. CASE LoadsNothing(c)
    BY <1>2, <1>g DEF LoadsNothing
  <1>3. CASE LoadChecks(c)
    BY <1>0, <1>d, <1>3, <1>g, ModulesStep DEF LoadChecks, Ends, Shape, CallerFields, Entering, Cleared, Placed
  <1>4. CASE LoadReads(c)
    BY <1>0, <1>d, <1>4, <1>g, ModulesStep DEF LoadReads, Ends, Shape, CallerFields, Entering, Cleared, Placed
  <1>5. CASE LoadEnds(c)
    BY <1>5, <1>g DEF LoadEnds, Ends
  <1> QED
    BY <1>1, <1>2, <1>3, <1>4, <1>5 DEF LoadStep

LEMMA ModulesSet ==
    ASSUME Shape, ModulePlaces, NEW c \in Callers, SetStep(c)
    PROVE  ModulePlaces'
  <1> USE RestingFields
  <1>0. UNCHANGED <<world, modules>>
    BY SetMoves
  <1>d. Placed(caller[c])
    BY DEF ModulePlaces
  <1>1. ASSUME NEW k, NEW text, Sets(c, k, text) PROVE ModulePlaces'
    BY <1>0, <1>d, <1>1, ModulesStep DEF Sets, Resting, CallerFields, Entering, Cleared, Placed
  <1>2. CASE MemberSkipped(c)
    BY <1>0, <1>d, <1>2, ModulesStep DEF MemberSkipped, Skips, Shape, CallerFields, Entering, Cleared, Placed
  <1>3. CASE MemberChanged(c)
    BY <1>0, <1>d, <1>3, ModulesStep DEF MemberChanged, Skips, Shape, CallerFields, Entering, Cleared, Placed
  <1>4. CASE Notify(c)
    BY <1>0, <1>d, <1>4, ModulesStep DEF Notify, NotifyNext, Turns, NotifyLevel, NotifyFormatter, NotifyClear, NotifyAdd,
                                   Rebuilds, Shape, CallerFields, Entering, Cleared, Placed
  <1>5. CASE Notified(c)
    BY <1>0, <1>d, <1>5, ModulesStep DEF Notified, Shape, CallerFields, Entering, Cleared, Placed
  <1>6. CASE Assign(c)
    BY <1>0, <1>d, <1>6, ModulesStep DEF Assign, Store, Shape, CallerFields, Entering, Cleared, Placed
  <1> QED
    BY <1>1, <1>2, <1>3, <1>4, <1>5, <1>6 DEF SetStep

(* del() takes a module out of both tables, and what is left is the same in
   both.                                                                   *)
LEMMA ErasedIs ==
    ASSUME Shape, ModulePlaces, NEW id, modules' = Erased(id)
    PROVE  /\ modules'.byId = modules.byId \ Leaving(id) /\ modules'.byType = modules.byId \ Leaving(id)
           /\ modules'.unloaded = modules.unloaded /\ modules'.loaded = modules.loaded
           /\ \A n \in modules'.byId : n.id # id
  <1>1. /\ modules'.byId = modules.byId \ Leaving(id)
        /\ modules'.unloaded = modules.unloaded
        /\ modules'.loaded = modules.loaded
        /\ modules'.byType = {m \in modules.byType : \A n \in Leaving(id) : m.type # n.type \/ ~Same(m, n)}
    BY DEF Erased, Shape
  <1>2. modules'.byType = modules.byId \ Leaving(id)
    BY <1>1 DEF ModulePlaces, Same, Leaving
  <1> QED
    BY <1>1, <1>2 DEF Leaving

(* A step of a caller that takes modules out and holds them next to what it
   held.                                                                   *)
LEMMA ErasingStep ==
    ASSUME Shape, ModulePlaces, NEW id, NEW c \in Callers, NEW next, DOMAIN next = CallerFields, Erases(c, id, next),
           caller[c].pc # "unload", next.module = caller[c].module, next.out = caller[c].out,
           next.pc # "unload", next.pc \in Entering => caller[c].module # None,
           next.pc \in {"idle", "delall"} => caller[c].module = None,
           caller[c].module # None => caller[c].module.id = id
    PROVE  ModulePlaces'
  <1> DEFINE last == IF Leaving(id) = {} THEN next ELSE [next EXCEPT !.pc = "unload", !.out = Leaving(id)]
  <1>1. modules' = Erased(id) /\ Step(c, last) /\ world' = world
    BY DEF Erases
  <1>2. /\ DOMAIN last = CallerFields /\ last.module = caller[c].module /\ last.out = Leaving(id)
        /\ last.pc = IF Leaving(id) = {} THEN next.pc ELSE "unload"
    <2>1. caller[c].out = {}
      BY DEF ModulePlaces, Placed
    <2> QED
      BY <2>1 DEF CallerFields
  <1> HIDE DEF last
  <1>3. \A d \in Callers : caller'[d] = IF d = c THEN last ELSE caller[d]
    BY <1>1, <1>2, StepKeeps
  <1>4. /\ modules'.byId = modules.byId \ Leaving(id) /\ modules'.byType = modules.byId \ Leaving(id)
        /\ modules'.unloaded = modules.unloaded /\ modules'.loaded = modules.loaded
        /\ \A n \in modules'.byId : n.id # id
    BY <1>1, ErasedIs
  <1>5. \A d \in Callers : caller'[d].module = caller[d].module
    BY <1>2, <1>3
  <1>6. Coming' = Coming
    BY <1>5 DEF Coming
  <1>7. Out' = Out \cup Leaving(id)
    <2>1. caller[c].out = {}
      BY DEF ModulePlaces, Placed
    <2> QED
      BY <1>2, <1>3, <2>1 DEF Out
  <1>8. Leaving(id) \subseteq modules.byId
    BY DEF Leaving
  <1>9. \A d \in Callers : Placed(caller[d])
    BY DEF ModulePlaces
  <1>10. ASSUME NEW d \in Callers PROVE Placed(caller[d])'
    <2>1. CASE d = c
      <3>1. caller'[c] = last /\ Placed(caller[c])
        BY <1>3, <1>9
      <3>2. last.module # None => ~(last.pc \in {"idle", "delall"})
        BY <1>2, <3>1 DEF Placed
      <3>3. last.module # None =>
               last.module \in modules'.loaded \ (modules'.byId \cup modules'.unloaded)
        BY <1>2, <1>4, <3>1 DEF Placed
      <3>4. last.module # None => \A n \in modules'.byId : ~Same(n, last.module)
        BY <1>2, <1>4 DEF Same
      <3>5. last.out \subseteq modules'.loaded \ (modules'.byId \cup modules'.unloaded)
        BY <1>2, <1>4, <1>8 DEF ModulePlaces
      <3>6. (last.pc \in Entering => last.module # None) /\ (last.pc # "unload" => last.out = {})
        BY <1>2 DEF Entering
      <3> QED
        BY <2>1, <3>1, <3>2, <3>3, <3>4, <3>5, <3>6 DEF Placed
    <2>2. CASE d # c
      BY <1>3, <1>4, <1>9, <2>2 DEF Placed
    <2> QED
      BY <2>1, <2>2
  <1>11. Coming \cap modules.byId = {} /\ Out \cap modules.byId = {}
    BY <1>9 DEF Coming, Out, Placed
  <1>12. \A d, e \in Callers : d # e => caller'[d].out \cap caller'[e].out = {}
    <2>1. \A d \in Callers : caller[d].out \cap Leaving(id) = {}
      BY <1>8, <1>9 DEF Placed
    <2> QED
      BY <1>2, <1>3, <2>1 DEF ModulePlaces
  <1>13. modules'.loaded = Coming' \cup modules'.byId \cup Out' \cup modules'.unloaded
    BY <1>4, <1>6, <1>7, <1>8 DEF ModulePlaces
  <1>14. Coming' \cap Out' = {} /\ modules'.byId \cap modules'.unloaded = {}
    BY <1>4, <1>6, <1>7, <1>8, <1>11 DEF ModulePlaces
  <1>15. \A d, e \in Callers : caller'[d].module = caller'[e].module /\ caller'[d].module # None => d = e
    BY <1>5 DEF ModulePlaces
  <1> QED
    BY <1>1, <1>4, <1>10, <1>12, <1>13, <1>14, <1>15 DEF ModulePlaces

(* A module is told of its unloading.                                      *)
LEMMA UnloadingStep ==
    ASSUME Shape, ModulePlaces, NEW c \in Callers, Unloads(c)
    PROVE  ModulePlaces'
  <1> DEFINE last == Returned([caller[c] EXCEPT !.out = {}])
  <1>0. DOMAIN caller[c] = CallerFields
    BY DEF Shape
  <1>1. /\ caller[c].pc = "unload" /\ world' = world /\ Step(c, last)
        /\ modules' = [modules EXCEPT !.unloaded = @ \cup caller[c].out]
    BY DEF Unloads
  <1>2. /\ DOMAIN last = CallerFields /\ last.module = caller[c].module /\ last.out = {}
        /\ last.pc = IF caller[c].module # None THEN "insert" ELSE IF caller[c].ids # {} THEN "delall" ELSE "idle"
    BY <1>0, RestingFields DEF Returned, CallerFields, Resting
  <1> HIDE DEF last
  <1>3. \A d \in Callers : caller'[d] = IF d = c THEN last ELSE caller[d]
    BY <1>1, <1>2, StepKeeps
  <1>4. /\ modules'.byId = modules.byId /\ modules'.byType = modules.byType
        /\ modules'.unloaded = modules.unloaded \cup caller[c].out /\ modules'.loaded = modules.loaded
    BY <1>1 DEF Shape
  <1>5. \A d \in Callers : caller'[d].module = caller[d].module
    BY <1>2, <1>3
  <1>6. Coming' = Coming
    BY <1>5 DEF Coming
  <1>9. \A d \in Callers : Placed(caller[d])
    BY DEF ModulePlaces
  <1>7. Out' = Out \ caller[c].out
    BY <1>2, <1>3 DEF Out, ModulePlaces
  <1>8. caller[c].out \subseteq Out
    BY DEF Out
  <1>10. ASSUME NEW d \in Callers PROVE Placed(caller[d])'
    <2>1. caller[d].module # None => caller[d].module \notin caller[c].out
      BY <1>8 DEF ModulePlaces, Coming
    <2>2. CASE d = c
      BY <1>1, <1>2, <1>3, <1>4, <1>9, <2>1, <2>2 DEF Placed, Entering, Cleared
    <2>3. CASE d # c
      BY <1>3, <1>4, <1>9, <2>1, <2>3 DEF Placed, ModulePlaces
    <2> QED
      BY <2>2, <2>3
  <1>11. \A d, e \in Callers : d # e => caller'[d].out \cap caller'[e].out = {}
    BY <1>2, <1>3 DEF ModulePlaces
  <1>12. modules'.loaded = Coming' \cup modules'.byId \cup Out' \cup modules'.unloaded
    BY <1>4, <1>6, <1>7, <1>8 DEF ModulePlaces
  <1>13. Coming' \cap Out' = {} /\ modules'.byId \cap modules'.unloaded = {}
    BY <1>4, <1>6, <1>7, <1>9 DEF ModulePlaces, Placed
  <1>14. \A d, e \in Callers : caller'[d].module = caller'[e].module /\ caller'[d].module # None => d = e
    BY <1>5 DEF ModulePlaces
  <1>15. /\ modules'.loaded \subseteq world'.modules /\ modules'.byId \subseteq modules'.loaded
         /\ modules'.unloaded \subseteq modules'.loaded /\ modules'.byType = modules'.byId
    BY <1>1, <1>4, <1>9 DEF ModulePlaces, Placed
  <1> QED
    BY <1>10, <1>11, <1>12, <1>13, <1>14, <1>15 DEF ModulePlaces

(* A module is made.                                                       *)
LEMMA LoadingStep ==
    ASSUME Shape, ModulePlaces, NEW c \in Callers, NEW m \in world.modules, LoadLibrary(c, m)
    PROVE  ModulePlaces'
  <1>1. /\ caller[c].pc = "idle" /\ m \notin modules.loaded /\ world' = world
        /\ modules' = [modules EXCEPT !.loaded = @ \cup {m}]
        /\ Step(c, [Resting EXCEPT !.pc = "loaded", !.module = m])
    BY DEF LoadLibrary
  <1>2. \A d \in Callers : caller'[d] = IF d = c THEN [Resting EXCEPT !.pc = "loaded", !.module = m] ELSE caller[d]
    BY <1>1, StepKeeps, RestingFields DEF CallerFields
  <1>3. /\ caller'[c].pc = "loaded" /\ caller'[c].module = m /\ caller[c].module = None /\ m # None
        /\ caller'[c].out = {} /\ caller[c].out = {}
    <2>1. m # None
      BY WorldsAssumption DEF Shape
    <2>2. caller'[c].pc = "loaded" /\ caller'[c].module = m /\ caller'[c].out = {}
      BY <1>2 DEF Resting
    <2>3. caller[c].module = None /\ caller[c].out = {}
      BY <1>1 DEF ModulePlaces, Placed
    <2> QED
      BY <2>1, <2>2, <2>3
  <1>4. /\ modules'.loaded = modules.loaded \cup {m}
        /\ modules'.byId = modules.byId /\ modules'.byType = modules.byType /\ modules'.unloaded = modules.unloaded
    BY <1>1 DEF Shape
  <1>5. Coming' = Coming \cup {m} /\ Out' = Out
    BY <1>2, <1>3 DEF Coming, Out
  <1>6. m \notin modules.unloaded /\ m \notin modules.byId /\ m \notin Coming /\ m \notin Out
    BY <1>1 DEF ModulePlaces
  <1>7. /\ modules'.loaded = Coming' \cup modules'.byId \cup Out' \cup modules'.unloaded
        /\ Coming' \cap Out' = {} /\ modules'.byId \cap modules'.unloaded = {}
    BY <1>4, <1>5, <1>6 DEF ModulePlaces
  <1>8. ASSUME NEW d \in Callers PROVE Placed(caller[d])'
    <2>1. Placed(caller[d])
      BY DEF ModulePlaces
    <2> QED
      BY <1>2, <1>3, <1>4, <1>6, <2>1 DEF Placed, Cleared
  <1>9. ASSUME NEW d \in Callers, NEW e \in Callers, caller'[d].module = caller'[e].module, caller'[d].module # None
        PROVE  d = e
    BY <1>2, <1>3, <1>6, <1>9 DEF ModulePlaces, Coming
  <1>10. \A d, e \in Callers : d # e => caller'[d].out \cap caller'[e].out = {}
    BY <1>2, <1>3 DEF ModulePlaces
  <1>11. /\ modules'.loaded \subseteq world'.modules /\ modules'.byId \subseteq modules'.loaded
         /\ modules'.unloaded \subseteq modules'.loaded /\ modules'.byType = modules'.byId
    BY <1>1, <1>4 DEF ModulePlaces
  <1> QED
    BY <1>7, <1>8, <1>9, <1>10, <1>11 DEF ModulePlaces

(* A module is entered into both tables; nobody else enters one of the same
   identity.                                                               *)
LEMMA InsertingStep ==
    ASSUME Shape, Setters, Apart, ModulePlaces, NEW c \in Callers, AddInserts(c)
    PROVE  ModulePlaces'
  <1> DEFINE m == caller[c].module
  <1>1. /\ caller[c].pc = "insert" /\ world' = world /\ modules' = Inserted(m) /\ Step(c, Resting)
    BY DEF AddInserts
  <1>2. \A d \in Callers : caller'[d] = IF d = c THEN Resting ELSE caller[d]
    BY <1>1, StepKeeps, RestingFields
  <1>3. /\ m # None /\ m \in modules.loaded /\ m \notin modules.byId /\ m \notin modules.unloaded
        /\ caller[c].out = {} /\ \A n \in modules.byId : ~Same(n, m)
    BY <1>1 DEF ModulePlaces, Placed, Entering, Cleared
  <1>4. /\ modules'.byId = modules.byId \cup {m} /\ modules'.byType = modules.byId \cup {m}
        /\ modules'.loaded = modules.loaded /\ modules'.unloaded = modules.unloaded
    <2>1. /\ modules'.byId = {n \in modules.byId : ~Same(m, n)} \cup {m}
          /\ modules'.byType = {n \in modules.byType : n.type # m.type \/ ~Same(m, n)} \cup {m}
          /\ modules'.loaded = modules.loaded /\ modules'.unloaded = modules.unloaded
      BY <1>1 DEF Inserted, Shape
    <2>2. modules.byType = modules.byId
      BY DEF ModulePlaces
    <2>3. \A n \in modules.byId : ~Same(m, n)
      BY <1>3 DEF Same
    <2> HIDE DEF m
    <2> QED
      BY <2>1, <2>2, <2>3
  <1>r. Resting.module = None /\ Resting.out = {} /\ Resting.pc = "idle"
    BY DEF Resting
  <1>5. Coming' = Coming \ {m} /\ Out' = Out /\ m \in Coming
    <2>1. Coming' = Coming \ {m} /\ m \in Coming
      BY <1>2, <1>3, <1>r DEF Coming, ModulePlaces
    <2>2. Out' = Out
      BY <1>2, <1>3, <1>r DEF Out
    <2> QED
      BY <2>1, <2>2
  <1>6. /\ modules'.loaded = Coming' \cup modules'.byId \cup Out' \cup modules'.unloaded
        /\ Coming' \cap Out' = {} /\ modules'.byId \cap modules'.unloaded = {}
    BY <1>3, <1>4, <1>5 DEF ModulePlaces
  <1>7. ASSUME NEW d \in Callers, d # c
        PROVE  /\ caller[d].module # None => caller[d].module # m
               /\ caller[d].pc \in Cleared /\ caller[d].module # None => ~Same(m, caller[d].module)
    <2>1. caller[d].module # None => caller[d].module # m
      BY <1>7 DEF ModulePlaces
    <2>2. ASSUME caller[d].pc \in Cleared, caller[d].module # None
          PROVE  ~Same(m, caller[d].module)
      <3>1. CASE Alone
        BY <1>1, <1>7, <2>2, <3>1 DEF Alone, Setters, Cleared
      <3>2. CASE \A o, n \in world.modules : o # n => ~Same(o, n)
        BY <1>3, <2>1, <2>2, <3>2 DEF ModulePlaces, Placed
      <3> QED
        BY <3>1, <3>2 DEF Apart
    <2> QED
      BY <2>1, <2>2
  <1>8. ASSUME NEW d \in Callers PROVE Placed(caller[d])'
    <2>1. CASE d = c
      BY <1>2, <1>r, <2>1 DEF Placed, Entering, Cleared
    <2>2. CASE d # c
      <3>1. Placed(caller[d]) /\ caller'[d] = caller[d]
        BY <1>2, <2>2 DEF ModulePlaces
      <3>2. m \notin caller[d].out
        BY <1>5 DEF ModulePlaces, Out
      <3> QED
        BY <1>4, <1>7, <2>2, <3>1, <3>2 DEF Placed
    <2> QED
      BY <2>1, <2>2
  <1>9. ASSUME NEW d \in Callers, NEW e \in Callers, caller'[d].module = caller'[e].module, caller'[d].module # None
        PROVE  d = e
    BY <1>2, <1>9, <1>r DEF ModulePlaces
  <1>10. \A d, e \in Callers : d # e => caller'[d].out \cap caller'[e].out = {}
    BY <1>2, <1>r DEF ModulePlaces
  <1>11. /\ modules'.loaded \subseteq world'.modules /\ modules'.byId \subseteq modules'.loaded
         /\ modules'.unloaded \subseteq modules'.loaded /\ modules'.byType = modules'.byId
    BY <1>1, <1>3, <1>4 DEF ModulePlaces
  <1> HIDE DEF m
  <1> QED
    BY <1>6, <1>8, <1>9, <1>10, <1>11 DEF ModulePlaces

LEMMA ModulesNext == Shape /\ Setters /\ ModulesInv /\ [Next]_vars => ModulesInv'
  <1> SUFFICES ASSUME Shape, Setters, ModulesInv, [Next]_vars, Apart'
               PROVE  ModulePlaces'
    BY DEF ModulesInv
  <1>w. world' = world
    BY CallerSteps DEF Next, vars, Write, LogStep, Log, WriteOwn, WriteRoot, Reformat
  <1>p. Apart /\ ModulePlaces
    BY <1>w DEF Apart, Alone, ModulesInv
  <1> USE <1>p
  <1>0. ASSUME UNCHANGED <<world, modules, caller>>
        PROVE  ModulePlaces'
    BY <1>0, ModulesFrame DEF ModulePlaces, Placed
  <1>1. CASE Write
    <2>1. UNCHANGED <<world, modules>>
      BY <1>1 DEF Write
    <2>2. ASSUME NEW d \in Callers
          PROVE  caller'[d].module = caller[d].module /\ caller'[d].out = caller[d].out /\ caller'[d].pc = caller[d].pc
      BY <1>1 DEF Write, Shape, CallerFields
    <2>3. \A d \in Callers : Placed(caller[d])
      BY DEF ModulePlaces
    <2> HIDE DEF ModulePlaces
    <2> QED
      BY <2>1, <2>2, <2>3, ModulesFrame DEF Placed
  <1>2. ASSUME NEW c \in Callers, ModuleStep(c)
        PROVE  ModulePlaces'
    <2> USE RestingFields
    <2>d. Placed(caller[c]) /\ DOMAIN caller[c] = CallerFields
      BY DEF ModulePlaces, Shape
    <2>1. ASSUME NEW m \in world.modules, LoadLibrary(c, m) PROVE ModulePlaces'
      BY <2>1, LoadingStep
    <2>2. CASE LoadsAgain(c)
      <3> DEFINE next == [caller[c] EXCEPT !.pc = "check", !.force = TRUE,
                            !.path = Env!getAbsolutePath(Env!getConfigPath(Args)), !.mtime = file.mtime,
                            !.due = DueTo(TRUE)]
      <3>1. caller[c].pc = "loaded" /\ Step(c, next) /\ UNCHANGED <<world, modules>>
        BY <2>2 DEF LoadsAgain, LoadBegins
      <3>2. /\ DOMAIN next = CallerFields /\ next.pc = "check" /\ next.module = caller[c].module
            /\ next.out = caller[c].out
        BY <2>d DEF CallerFields
      <3> HIDE DEF next
      <3> QED
        BY <3>1, <3>2, ModulesStep DEF Entering, Cleared
    <2>3. CASE AddErases(c)
      <3> DEFINE next == Returned(caller[c])
      <3>1. caller[c].pc = "del" /\ caller[c].module # None /\ Erases(c, caller[c].module.id, next)
        BY <2>3, <2>d DEF AddErases, Entering, Placed
      <3>2. /\ DOMAIN next = CallerFields /\ next.pc = "insert" /\ next.module = caller[c].module
            /\ next.out = caller[c].out
        BY <2>d, <3>1 DEF Returned, CallerFields
      <3> HIDE DEF next
      <3> QED
        BY <3>1, <3>2, ErasingStep
    <2>4. CASE AddInserts(c)
      BY <2>4, InsertingStep
    <2>5. CASE DelAllBegins(c)
      <3> DEFINE next == [Resting EXCEPT !.pc = "delall", !.ids = {m.id : m \in modules.byId}]
      <3>1. caller[c].pc = "idle" /\ Step(c, next) /\ UNCHANGED <<world, modules>>
        BY <2>5 DEF DelAllBegins
      <3>2. DOMAIN next = CallerFields /\ next.pc = "delall" /\ next.module = None /\ next.out = {}
        BY DEF Resting, CallerFields
      <3>3. caller[c].module = None /\ caller[c].out = {}
        BY <2>d, <3>1 DEF Placed
      <3> HIDE DEF next
      <3> QED
        BY <3>1, <3>2, <3>3, ModulesStep DEF Entering, Cleared
    <2>6. CASE DelAllErases(c)
      <3>1. PICK id : Erases(c, id, Returned([caller[c] EXCEPT !.ids = @ \ {id}]))
        BY <2>6 DEF DelAllErases
      <3> DEFINE next == Returned([caller[c] EXCEPT !.ids = @ \ {id}])
      <3>2. caller[c].pc = "delall" /\ caller[c].module = None /\ caller[c].out = {}
        BY <2>6, <2>d DEF DelAllErases, Placed
      <3>3. /\ DOMAIN next = CallerFields /\ next.pc \in {"idle", "delall"} /\ next.module = None /\ next.out = {}
        BY <2>d, <3>2, RestingFields DEF Returned, CallerFields, Resting
      <3> HIDE DEF next
      <3> QED
        BY <3>1, <3>2, <3>3, ErasingStep DEF next, Entering
    <2>7. CASE Unloads(c)
      BY <2>7, UnloadingStep
    <2>8. ASSUME NEW m, LibraryFails(c, m) PROVE ModulePlaces'
      <3>1. /\ Resting.pc = "idle" /\ Resting.module = None /\ Resting.out = {} /\ DOMAIN Resting = CallerFields
        BY DEF Resting
      <3>2. caller[c].pc = "idle" /\ Step(c, Resting) /\ UNCHANGED <<world, modules>>
        BY <2>8 DEF LibraryFails
      <3>3. caller[c].module = None /\ caller[c].out = {}
        BY <2>d, <3>2 DEF Placed
      <3> QED
        BY <3>1, <3>2, <3>3, ModulesStep DEF Entering, Cleared
    <2> QED
      BY <1>2, <2>1, <2>2, <2>3, <2>4, <2>5, <2>6, <2>7, <2>8 DEF ModuleStep
  <1>3. ASSUME NEW e \in Events, LogStep(e)
        PROVE  ModulePlaces'
    BY <1>0, <1>3 DEF LogStep, Log, WriteOwn, WriteRoot
  <1>4. ASSUME NEW n \in Loggers, NEW p, Reformat(n, p)
        PROVE  ModulePlaces'
    BY <1>0, <1>4 DEF Reformat
  <1> QED
    BY <1>0, <1>1, <1>2, <1>3, <1>4, ModulesLoad, ModulesSet DEF Next, vars

(* Unless two threads add modules of one identity at a time, the two tables
   agree, and every module is in one place only, about to be added, in the
   tables, about to be told of its unloading, or told (module.cpp:110-146). *)
THEOREM TablesAgree == Spec => []ModulesAgree
  <1>1. ModulesInv => ModulesAgree
    <2> SUFFICES ASSUME ModulePlaces, Apart PROVE ModulesAgree
      BY DEF ModulesInv, ModulesAgree, Apart
    <2>1. \A c \in Callers : Placed(caller[c])
      BY DEF ModulePlaces
    <2>2. (Coming \cup Out) \cap (modules.byId \cup modules.unloaded) = {}
      BY <2>1 DEF Placed, Coming, Out
    <2> DEFINE held(c) == ({caller[c].module} \ {None}) \cup caller[c].out
    <2>3. ASSUME NEW c \in Callers, NEW d \in Callers, c # d
          PROVE  held(c) \cap held(d) = {}
      <3>1. caller[c].out \cap caller[d].out = {} /\ Coming \cap Out = {}
        BY <2>3 DEF ModulePlaces
      <3>2. caller[c].module # None => caller[c].module # caller[d].module /\ caller[c].module \notin caller[d].out
        BY <2>3, <3>1 DEF ModulePlaces, Coming, Out
      <3>3. caller[d].module # None => caller[d].module \notin caller[c].out
        BY <2>3, <3>1 DEF Coming, Out
      <3> QED
        BY <3>1, <3>2, <3>3
    <2> QED
      BY <2>2, <2>3 DEF ModulePlaces, ModulesAgree, Coming, Out
  <1> QED
    BY <1>1, ShapeInit, SettersInit, ModulesInit, ShapeNext, SettersNext, ModulesNext, PTL DEF Spec

-----------------------------------------------------------------------------
(* Sequences.                                                              *)
LEMMA SequenceIs ==
    ASSUME NEW s, NEW n \in Nat, s = [i \in 1..n |-> s[i]]
    PROVE  IsSequence(s)
  <1>1. s \in [1..n -> ToSet(s)]
    BY DEF ToSet
  <1> QED
    BY <1>1, SeqDef DEF IsSequence

LEMMA SequenceHas ==
    ASSUME NEW s, IsSequence(s)
    PROVE  Len(s) \in Nat /\ DOMAIN s = 1..Len(s) /\ s = [i \in 1..Len(s) |-> s[i]]
  BY LenProperties DEF IsSequence

LEMMA SequenceOver == ASSUME NEW S, NEW s \in Seq(S) PROVE IsSequence(s)
  <1>1. Len(s) \in Nat /\ s = [i \in 1..Len(s) |-> s[i]]
    BY LenProperties
  <1> QED
    BY <1>1, SequenceIs

LEMMA TailOf ==
    ASSUME NEW s, IsSequence(s), s # <<>>
    PROVE  /\ IsSequence(Tail(s)) /\ ToSet(Tail(s)) \subseteq ToSet(s) /\ Head(s) \in ToSet(s)
           /\ ToSet(s) = {Head(s)} \cup ToSet(Tail(s))
  <1>1. /\ Len(s) \in Nat \ {0} /\ DOMAIN s = 1..Len(s) /\ s \in Seq(ToSet(s))
    BY SequenceHas, EmptySeq DEF IsSequence
  <1>2. /\ Tail(s) \in Seq(ToSet(s)) /\ Len(Tail(s)) = Len(s) - 1
        /\ \A i \in 1..Len(Tail(s)) : Tail(s)[i] = s[i + 1]
        /\ Head(s) = s[1]
    BY <1>1
  <1> DEFINE t == Tail(s)
             S == ToSet(s)
  <1>a. t \in Seq(S) /\ Len(t) = Len(s) - 1
    BY <1>2
  <1>3. DOMAIN t = 1..(Len(s) - 1) /\ t = [i \in 1..(Len(s) - 1) |-> t[i]]
    <2> HIDE DEF t, S
    <2>1. IsSequence(t)
      BY <1>a, SequenceOver
    <2> QED
      BY <1>a, <2>1, SequenceHas
  <1>4. IsSequence(t)
    <2> HIDE DEF t, S
    <2> QED
      BY <1>a, SequenceOver
  <1>5. ToSet(s) = {Head(s)} \cup ToSet(Tail(s))
    <2>1. ASSUME NEW x \in ToSet(s)
          PROVE  x \in {Head(s)} \cup ToSet(Tail(s))
      <3>1. PICK i \in 1..Len(s) : x = s[i]
        BY <1>1 DEF ToSet
      <3>2. CASE i = 1
        BY <1>2, <3>1, <3>2
      <3>3. CASE i # 1
        <4>1. i - 1 \in 1..(Len(s) - 1) /\ (i - 1) + 1 = i
          BY <1>1, <3>3
        <4>2. Tail(s)[i - 1] = s[i]
          BY <1>2, <4>1
        <4> QED
          BY <1>3, <3>1, <4>1, <4>2 DEF ToSet
      <3> QED
        BY <3>2, <3>3
    <2>2. ASSUME NEW x \in ToSet(Tail(s))
          PROVE  x \in ToSet(s)
      <3>1. PICK i \in 1..(Len(s) - 1) : x = Tail(s)[i]
        BY <1>3 DEF ToSet
      <3>2. i + 1 \in 1..Len(s) /\ x = s[i + 1]
        BY <1>1, <1>2, <3>1
      <3> QED
        BY <1>1, <3>2 DEF ToSet
    <2>3. Head(s) \in ToSet(s)
      BY <1>1, <1>2 DEF ToSet
    <2> QED
      BY <2>1, <2>2, <2>3
  <1> QED
    BY <1>4, <1>5

LEMMA AppendTo ==
    ASSUME NEW s, IsSequence(s), NEW x
    PROVE  IsSequence(Append(s, x)) /\ ToSet(Append(s, x)) = ToSet(s) \cup {x}
  <1>1. Len(s) \in Nat /\ DOMAIN s = 1..Len(s) /\ s \in Seq(ToSet(s) \cup {x})
    BY SequenceHas, SeqMonotonic DEF IsSequence
  <1>2. /\ Append(s, x) \in Seq(ToSet(s) \cup {x}) /\ Len(Append(s, x)) = Len(s) + 1
        /\ \A i \in 1..Len(s) : Append(s, x)[i] = s[i]
        /\ Append(s, x)[Len(s) + 1] = x
    BY <1>1
  <1>3. DOMAIN Append(s, x) = 1..(Len(s) + 1) /\ Append(s, x) = [i \in 1..(Len(s) + 1) |-> Append(s, x)[i]]
    BY <1>1, <1>2, LenProperties
  <1>4. IsSequence(Append(s, x))
    BY <1>1, <1>3, SequenceIs
  <1>5. ToSet(Append(s, x)) = ToSet(s) \cup {x}
    <2>1. ASSUME NEW y \in ToSet(Append(s, x)) PROVE y \in ToSet(s) \cup {x}
      <3>1. PICK i \in 1..(Len(s) + 1) : y = Append(s, x)[i]
        BY <1>3 DEF ToSet
      <3>2. i \in 1..Len(s) \/ i = Len(s) + 1
        BY <1>1
      <3> QED
        BY <1>1, <1>2, <3>1, <3>2 DEF ToSet
    <2>2. ASSUME NEW y \in ToSet(s) PROVE y \in ToSet(Append(s, x))
      <3>1. PICK i \in 1..Len(s) : y = s[i]
        BY <1>1 DEF ToSet
      <3>2. i \in 1..(Len(s) + 1) /\ Append(s, x)[i] = y
        BY <1>1, <1>2, <3>1
      <3> QED
        BY <1>3, <3>2 DEF ToSet
    <2>3. x \in ToSet(Append(s, x))
      BY <1>1, <1>2, <1>3 DEF ToSet
    <2> QED
      BY <2>1, <2>2, <2>3
  <1> QED
    BY <1>4, <1>5

(* The empty sequence, and one of one element.                             *)
LEMMA EmptyIs == IsSequence(<<>>) /\ ToSet(<<>>) = {}
  BY DEF IsSequence, ToSet

LEMMA SingleIs == ASSUME NEW x PROVE IsSequence(<<x>>) /\ ToSet(<<x>>) = {x}
  <1>1. ToSet(<<x>>) = {x}
    BY DEF ToSet
  <1> QED
    BY <1>1 DEF IsSequence

-----------------------------------------------------------------------------
(* Loggers. The appenders of a logger, and the changes that they belong    *)
(* to.                                                                     *)
IsLogger(l) ==
    /\ DOMAIN l = {"level", "pattern", "apps"}
    /\ IsSequence(l.apps)
    /\ \A a \in ToSet(l.apps) : DOMAIN a = {"dest", "by", "level", "own", "pattern"}

Tags(l) == {a.by : a \in ToSet(l.apps)}

LEMMA NewLoggerIs == IsLogger(NewLogger) /\ Tags(NewLogger) = {}
  BY EmptyIs DEF NewLogger, IsLogger, Tags

LEMMA SetFormatterIs ==
    ASSUME NEW l, IsLogger(l), NEW p
    PROVE  /\ IsLogger(SetFormatter(l, p)) /\ Tags(SetFormatter(l, p)) = Tags(l)
           /\ SetFormatter(l, p).level = l.level
           /\ ~Formatter!IsError(p) => SetFormatter(l, p).pattern = p
  <1>1. CASE Formatter!IsError(p)
    BY <1>1 DEF SetFormatter
  <1>2. CASE ~Formatter!IsError(p)
    <2> DEFINE new(a) == IF a.own THEN a ELSE [a EXCEPT !.pattern = p]
               apps == [i \in DOMAIN l.apps |-> new(l.apps[i])]
               m == SetFormatter(l, p)
    <2>1. m.apps = apps /\ m.level = l.level /\ m.pattern = p /\ DOMAIN m = {"level", "pattern", "apps"}
      BY <1>2 DEF SetFormatter, IsLogger
    <2>2. Len(l.apps) \in Nat /\ DOMAIN l.apps = 1..Len(l.apps)
      BY SequenceHas DEF IsLogger
    <2>3. IsSequence(apps)
      BY <2>2, SequenceIs
    <2>4. ASSUME NEW i \in DOMAIN l.apps
          PROVE  /\ apps[i].by = l.apps[i].by
                 /\ DOMAIN apps[i] = {"dest", "by", "level", "own", "pattern"}
      BY DEF IsLogger, ToSet
    <2>5. DOMAIN apps = DOMAIN l.apps
      OBVIOUS
    <2> HIDE DEF apps, m
    <2>6. Tags(m) = Tags(l)
      BY <2>1, <2>4, <2>5 DEF Tags, ToSet
    <2>7. IsLogger(m)
      BY <2>1, <2>3, <2>4, <2>5 DEF IsLogger, ToSet
    <2> QED
      BY <2>1, <2>6, <2>7 DEF m
  <1> QED
    BY <1>1, <1>2

LEMMA AddAppenderIs ==
    ASSUME NEW l, IsLogger(l), NEW a, NEW by
    PROVE  /\ IsLogger(AddAppender(l, a, by)) /\ Tags(AddAppender(l, a, by)) = Tags(l) \cup {by}
           /\ AddAppender(l, a, by).level = l.level /\ AddAppender(l, a, by).pattern = l.pattern
  <1> DEFINE m == AddAppender(l, a, by)
  <1>1. \E x : /\ x.by = by /\ DOMAIN x = {"dest", "by", "level", "own", "pattern"}
               /\ m = [l EXCEPT !.apps = Append(l.apps, x)]
    <2> DEFINE own == a.formatter # <<>> /\ ~Formatter!IsError(a.formatter)
               x == [dest |-> <<a.type, a.file>>, by |-> by, level |-> a.level, own |-> own,
                     pattern |-> IF own THEN a.formatter ELSE l.pattern]
    <2>1. m = [l EXCEPT !.apps = Append(l.apps, x)]
      BY Zenon DEF AddAppender
    <2>2. x.by = by /\ DOMAIN x = {"dest", "by", "level", "own", "pattern"}
      OBVIOUS
    <2> HIDE DEF x, m
    <2> QED
      BY <2>1, <2>2
  <1>2. PICK x : /\ x.by = by /\ DOMAIN x = {"dest", "by", "level", "own", "pattern"}
                 /\ m = [l EXCEPT !.apps = Append(l.apps, x)]
    BY <1>1
  <1>3. /\ m.apps = Append(l.apps, x) /\ m.level = l.level /\ m.pattern = l.pattern
        /\ DOMAIN m = {"level", "pattern", "apps"}
    BY <1>2 DEF IsLogger
  <1> HIDE DEF m
  <1>4. IsSequence(m.apps) /\ ToSet(m.apps) = ToSet(l.apps) \cup {x}
    BY <1>3, AppendTo DEF IsLogger
  <1>5. Tags(m) = Tags(l) \cup {by}
    BY <1>2, <1>4 DEF Tags
  <1>6. IsLogger(m)
    BY <1>2, <1>3, <1>4 DEF IsLogger
  <1> QED
    BY <1>3, <1>5, <1>6 DEF m

LEMMA ClearIs ==
    ASSUME NEW l, IsLogger(l)
    PROVE  /\ IsLogger(ClearAppenders(l)) /\ Tags(ClearAppenders(l)) = {}
           /\ ClearAppenders(l).level = l.level /\ ClearAppenders(l).pattern = l.pattern
  BY EmptyIs DEF ClearAppenders, IsLogger, Tags

LEMMA LevelIs ==
    ASSUME NEW l, IsLogger(l), NEW v
    PROVE  /\ IsLogger([l EXCEPT !.level = v]) /\ Tags([l EXCEPT !.level = v]) = Tags(l)
           /\ [l EXCEPT !.level = v].level = v /\ [l EXCEPT !.level = v].pattern = l.pattern
  BY DEF IsLogger, Tags

-----------------------------------------------------------------------------
(* One thread at a time changes the configuration. The appenders of a      *)
(* logger belong to one change, and so do those that write an event: they  *)
(* are cleared before the first one of another change is added.            *)
Rows == \A n \in Loggers : IsLogger(logger[n])

OneTag(l) == \A x, y \in Tags(l) : x = y

Unmixed ==
    /\ \A n \in Loggers : OneTag(logger[n])
    /\ \A c \in Callers : caller[c].pc = "add" /\ caller[c].define.name \in Loggers =>
           Tags(logger[caller[c].define.name]) \subseteq {caller[c].by}
    /\ \A e \in Events : /\ event[e].pc = "own" => event[e].name \in Loggers
                         /\ \A a, b \in event[e].to : a.by = b.by

UnmixedInv == Rows /\ (Alone => Unmixed)

(* Only callers of this world act, and alone means that the others rest.   *)
LEMMA Acting ==
    ASSUME Shape, Setters, NEW c \in Callers, LoadStep(c) \/ SetStep(c) \/ ModuleStep(c)
    PROVE  c \in world.callers
  <1>1. caller[c].pc # "idle" => c \in world.callers
    BY DEF Setters
  <1>2. CASE LoadStep(c)
    BY <1>1, <1>2 DEF LoadStep, Loads, LoadsNothing, LoadChecks, LoadReads, LoadEnds
  <1>3. CASE SetStep(c)
    BY <1>1, <1>3 DEF SetStep, Sets, MemberSkipped, MemberChanged, Notify, NotifyNext, NotifyLevel, NotifyFormatter,
                      NotifyClear, NotifyAdd, Notified, Assign, Store
  <1>4. CASE ModuleStep(c)
    BY <1>1, <1>4, DelMoves DEF ModuleStep, Dels, LoadLibrary, LoadsAgain, AddInserts, DelAllBegins
  <1> QED
    BY <1>2, <1>3, <1>4

LEMMA Sole ==
    ASSUME Setters, Alone, NEW c \in world.callers, NEW d \in Callers, d # c
    PROVE  caller[d].pc = "idle"
  BY DEF Setters, Alone

LEMMA WorldStays == ASSUME Shape, Next PROVE world' = world
  BY CallerSteps DEF Next, Write, LogStep, Log, WriteOwn, WriteRoot, Reformat

LEMMA UnmixedInit == Init => UnmixedInv
  <1> SUFFICES ASSUME Init
               PROVE  UnmixedInv
    OBVIOUS
  <1> DEFINE x == [dest |-> <<"stdout", None>>, by |-> None, level |-> Debug,
                   own |-> FALSE, pattern |-> DefaultPattern]
  <1>1. ASSUME NEW n \in Loggers
        PROVE  IsLogger(logger[n]) /\ Tags(logger[n]) \subseteq {None}
    <2>1. CASE n # "root"
      <3>1. logger[n] = NewLogger
        BY <2>1 DEF Init
      <3> QED
        BY <3>1, NewLoggerIs
    <2>2. CASE n = "root"
      <3>1. logger[n] = [NewLogger EXCEPT !.apps = <<x>>]
        BY <2>2 DEF Init, Loggers
      <3>2. DOMAIN logger[n] = {"level", "pattern", "apps"} /\ logger[n].apps = <<x>>
        BY <3>1 DEF NewLogger
      <3>3. DOMAIN x = {"dest", "by", "level", "own", "pattern"} /\ x.by = None
        OBVIOUS
      <3> HIDE DEF x
      <3> QED
        BY <3>2, <3>3, SingleIs DEF IsLogger, Tags
    <2> QED
      BY <2>1, <2>2
  <1>2. \A c \in Callers : caller[c].pc = "idle"
    BY DEF Init, Resting
  <1>3. \A e \in Events : event[e].pc = "none" /\ event[e].to = {}
    BY DEF Init, Quiet
  <1> QED
    BY <1>1, <1>2, <1>3 DEF UnmixedInv, Rows, Unmixed, OneTag

(* A step of a caller that rebuilds one logger, or none.                   *)
LEMMA UnmixedStep ==
    ASSUME Shape, Setters, Alone, Unmixed, UNCHANGED <<world, event>>,
           NEW c \in world.callers \cap Callers, NEW next, DOMAIN next = CallerFields, Step(c, next),
           \A n \in Loggers : Tags(logger'[n]) \subseteq Tags(logger[n])
                              \/ OneTag(logger'[n]),
           next.pc = "add" /\ next.define.name \in Loggers =>
               Tags(logger'[next.define.name]) \subseteq {next.by}
    PROVE  Unmixed'
  <1>1. \A d \in Callers : caller'[d] = IF d = c THEN next ELSE caller[d]
    BY StepKeeps
  <1>2. \A d \in Callers : d # c => caller[d].pc = "idle"
    BY Sole
  <1>3. \A n \in Loggers : OneTag(logger'[n])
    BY DEF Unmixed, OneTag
  <1>4. ASSUME NEW d \in Callers, caller'[d].pc = "add", caller'[d].define.name \in Loggers
        PROVE  Tags(logger'[caller'[d].define.name]) \subseteq {caller'[d].by}
    <2>1. d = c /\ caller'[d] = next
      BY <1>1, <1>2, <1>4
    <2> QED
      BY <1>4, <2>1
  <1> QED
    BY <1>3, <1>4 DEF Unmixed

LEMMA RowsNext == Shape /\ Rows /\ [Next]_vars => Rows'
  <1> SUFFICES ASSUME Shape, Rows, [Next]_vars
               PROVE  Rows'
    OBVIOUS
  <1>1. ASSUME logger' = logger PROVE Rows'
    BY <1>1 DEF Rows
  <1>2. ASSUME NEW n, NEW l, n \in Loggers => IsLogger(l), logger' = [logger EXCEPT ![n] = l] PROVE Rows'
    BY <1>2 DEF Rows, Shape
  <1>3. ASSUME NEW c \in Callers, Notify(c) PROVE Rows'
    <2> DEFINE n == caller[c].define.name
    <2>1. n \in Loggers => IsLogger(logger[n])
      BY DEF Rows
    <2>2. CASE NotifyNext(c)
      BY <1>1, <2>2 DEF NotifyNext
    <2>3. CASE NotifyLevel(c)
      <3>1. logger' = [logger EXCEPT ![n] = [logger[n] EXCEPT !.level = caller[c].define.level]]
        BY <2>3 DEF NotifyLevel, Rebuilds, Rebuilt
      <3> HIDE DEF n
      <3>2. n \in Loggers => IsLogger([logger[n] EXCEPT !.level = caller[c].define.level])
        BY <2>1, LevelIs
      <3> QED
        BY <1>2, <3>1, <3>2
    <2>4. CASE NotifyFormatter(c)
      <3>1. logger' = [logger EXCEPT ![n] = SetFormatter(logger[n], caller[c].define.formatter)]
        BY <2>4 DEF NotifyFormatter, Rebuilds, Rebuilt
      <3> HIDE DEF n
      <3>2. n \in Loggers => IsLogger(SetFormatter(logger[n], caller[c].define.formatter))
        BY <2>1, SetFormatterIs
      <3> QED
        BY <1>2, <3>1, <3>2
    <2>5. CASE NotifyClear(c)
      <3>1. logger' = [logger EXCEPT ![n] = ClearAppenders(logger[n])]
        BY <2>5 DEF NotifyClear, Rebuilds, Rebuilt
      <3> HIDE DEF n
      <3>2. n \in Loggers => IsLogger(ClearAppenders(logger[n]))
        BY <2>1, ClearIs
      <3> QED
        BY <1>2, <3>1, <3>2
    <2>6. CASE NotifyAdd(c)
      <3> DEFINE l == AddAppender(logger[n], Head(caller[c].apps), caller[c].by)
      <3>1. logger' = logger \/ logger' = [logger EXCEPT ![n] = l]
        BY <2>6 DEF NotifyAdd
      <3>2. n \in Loggers => IsLogger(l)
        <4> HIDE DEF n
        <4> QED
          BY <2>1, AddAppenderIs
      <3> HIDE DEF n, l
      <3> QED
        BY <1>1, <1>2, <3>1, <3>2
    <2> QED
      BY <1>3, <2>2, <2>3, <2>4, <2>5, <2>6 DEF Notify
  <1>4. ASSUME NEW n \in Loggers, NEW p, Reformat(n, p) PROVE Rows'
    <2>1. logger' = [logger EXCEPT ![n] = SetFormatter(logger[n], p)] /\ IsLogger(logger[n])
      BY <1>4 DEF Reformat, Rows
    <2> QED
      BY <1>2, <2>1, SetFormatterIs
  <1>5. ASSUME NEW c \in Callers, SetStep(c) PROVE Rows'
    <2>1. Notify(c) \/ logger' = logger
      BY <1>5 DEF SetStep, Sets, MemberSkipped, MemberChanged, Notified, Assign, Store
    <2> QED
      BY <1>1, <1>3, <2>1
  <1> QED
    BY <1>1, <1>4, <1>5, LoadMoves, ModuleMoves DEF Next, vars, Write, LogStep, Log, WriteOwn, WriteRoot

(* The listener applies a definition: the appenders of the logger are      *)
(* cleared before the first one of this change is added.                   *)
LEMMA UnmixedNotify ==
    ASSUME Shape, Setters, Alone, Rows, Unmixed, NEW c \in world.callers \cap Callers, Notify(c)
    PROVE  Unmixed'
  <1> DEFINE n == caller[c].define.name
  <1>0. UNCHANGED <<world, event>>
    BY DEF Notify, NotifyNext, NotifyLevel, NotifyFormatter, NotifyClear, NotifyAdd, Rebuilds
  <1>1. \A m \in Loggers : IsLogger(logger[m])
    BY DEF Rows
  <1>2. DOMAIN caller[c] = CallerFields /\ DOMAIN logger = Loggers
    BY DEF Shape
  (* The logger that is rebuilt. *)
  <1>3. ASSUME NEW l, n \in Loggers => Tags(l) \subseteq Tags(logger[n]) \/ OneTag(l),
               logger' = [logger EXCEPT ![n] = l], NEW next, DOMAIN next = CallerFields, Step(c, next),
               next.pc = "add" /\ next.define.name \in Loggers =>
                   next.define.name = n /\ Tags(l) \subseteq {next.by}
        PROVE  Unmixed'
    <2> HIDE DEF n
    <2>1. ASSUME NEW m \in Loggers
          PROVE  logger'[m] = IF m = n THEN l ELSE logger[m]
      BY <1>2, <1>3
    <2>2. \A m \in Loggers : Tags(logger'[m]) \subseteq Tags(logger[m]) \/ OneTag(logger'[m])
      BY <1>3, <2>1
    <2>3. next.pc = "add" /\ next.define.name \in Loggers => Tags(logger'[next.define.name]) \subseteq {next.by}
      BY <1>3, <2>1
    <2> QED
      BY <1>0, <1>3, <2>2, <2>3, UnmixedStep
  <1>4. ASSUME logger' = logger, NEW next, DOMAIN next = CallerFields, Step(c, next),
               next.pc = "add" => caller[c].pc = "add" /\ next.define = caller[c].define /\ next.by = caller[c].by
        PROVE  Unmixed'
    <2>1. next.pc = "add" /\ next.define.name \in Loggers => Tags(logger'[next.define.name]) \subseteq {next.by}
      BY <1>4 DEF Unmixed
    <2>2. \A m \in Loggers : Tags(logger'[m]) \subseteq Tags(logger[m])
      BY <1>4
    <2> QED
      BY <1>0, <1>4, <2>1, <2>2, UnmixedStep
  <1>5. CASE NotifyNext(c)
    BY <1>2, <1>4, <1>5 DEF NotifyNext, Turns, CallerFields
  <1>6. ASSUME NEW pc, pc # "add", Step(c, [caller[c] EXCEPT !.pc = pc]), NEW l, logger' = [logger EXCEPT ![n] = l],
               n \in Loggers => Tags(l) \subseteq Tags(logger[n])
        PROVE  Unmixed'
    <2>1. DOMAIN [caller[c] EXCEPT !.pc = pc] = CallerFields /\ [caller[c] EXCEPT !.pc = pc].pc = pc
      BY <1>2 DEF CallerFields
    <2> HIDE DEF n
    <2> QED
      BY <1>3, <1>6, <2>1
  <1>7. CASE NotifyLevel(c)
    <2> DEFINE l == [logger[n] EXCEPT !.level = caller[c].define.level]
               pc == IF caller[c].define.formatter = <<>> THEN "clear" ELSE "formatter"
    <2>1. logger' = [logger EXCEPT ![n] = l] /\ Step(c, [caller[c] EXCEPT !.pc = pc]) /\ pc # "add"
      BY <1>7 DEF NotifyLevel, Rebuilds, Rebuilt
    <2>2. n \in Loggers => Tags(l) = Tags(logger[n])
      <3> HIDE DEF n
      <3> QED
        BY <1>1, LevelIs
    <2> HIDE DEF l, pc, n
    <2> QED
      BY <1>6, <2>1, <2>2
  <1>8. CASE NotifyFormatter(c)
    <2> DEFINE l == SetFormatter(logger[n], caller[c].define.formatter)
    <2>1. logger' = [logger EXCEPT ![n] = l] /\ Step(c, [caller[c] EXCEPT !.pc = "clear"])
      BY <1>8 DEF NotifyFormatter, Rebuilds, Rebuilt
    <2>2. n \in Loggers => Tags(l) = Tags(logger[n])
      <3> HIDE DEF n
      <3> QED
        BY <1>1, SetFormatterIs
    <2> HIDE DEF l, n
    <2> QED
      BY <1>6, <2>1, <2>2
  <1>9. CASE NotifyClear(c)
    <2> DEFINE l == ClearAppenders(logger[n])
               pc == IF caller[c].apps = <<>> THEN "notify" ELSE "add"
               next == [caller[c] EXCEPT !.pc = pc]
    <2>1. logger' = [logger EXCEPT ![n] = l] /\ Step(c, next)
      BY <1>9 DEF NotifyClear, Rebuilds, Rebuilt
    <2>2. n \in Loggers => Tags(l) = {}
      <3> HIDE DEF n
      <3> QED
        BY <1>1, ClearIs
    <2>3. DOMAIN next = CallerFields /\ next.define = caller[c].define
      BY <1>2 DEF CallerFields
    <2> HIDE DEF l, next
    <2> QED
      BY <1>3, <2>1, <2>2, <2>3
  <1>10. CASE NotifyAdd(c)
    <2> DEFINE l == AddAppender(logger[n], Head(caller[c].apps), caller[c].by)
               pc == IF Tail(caller[c].apps) = <<>> THEN "notify" ELSE "add"
               next == [caller[c] EXCEPT !.apps = Tail(caller[c].apps), !.pc = pc]
    <2>1. /\ logger' = logger \/ logger' = [logger EXCEPT ![n] = l]
          /\ Step(c, next) /\ caller[c].pc = "add"
      BY <1>10 DEF NotifyAdd
    <2>2. n \in Loggers => Tags(l) \subseteq {caller[c].by}
      <3>1. n \in Loggers => Tags(logger[n]) \subseteq {caller[c].by}
        BY <2>1 DEF Unmixed
      <3> HIDE DEF n
      <3> QED
        BY <1>1, <3>1, AddAppenderIs
    <2>3. DOMAIN next = CallerFields /\ next.define = caller[c].define /\ next.by = caller[c].by
      BY <1>2 DEF CallerFields
    <2>4. n \in Loggers => OneTag(l)
      BY <2>2 DEF OneTag
    <2> HIDE DEF l, next
    <2> QED
      BY <1>3, <1>4, <2>1, <2>2, <2>3, <2>4
  <1> QED
    BY <1>5, <1>7, <1>8, <1>9, <1>10 DEF Notify

(* Only the listener of "logs" comes to add appenders.                      *)
LEMMA NoneAdds ==
    ASSUME Shape, NEW c \in Callers, LoadStep(c) \/ (SetStep(c) /\ ~Notify(c)) \/ ModuleStep(c)
    PROVE  caller'[c].pc # "add"
  <1> USE DEF Step, Shape, CallerFields
  <1>f. Finished(c).pc # "add"
    BY DEF Finished, Resting
  <1>1. CASE LoadStep(c)
    <2>1. ASSUME NEW force, Loads(c, force) PROVE caller'[c].pc # "add"
      BY <2>1 DEF Loads, LoadBegins, Resting
    <2>2. CASE LoadsNothing(c) \/ LoadEnds(c)
      BY <1>f, <2>2 DEF LoadsNothing, LoadEnds, Ends
    <2>3. CASE LoadChecks(c)
      BY <1>f, <2>3 DEF LoadChecks, Ends
    <2>4. CASE LoadReads(c)
      <3>1. \/ Step(c, [caller[c] EXCEPT !.pc = "keys", !.todo = file.root])
            \/ Step(c, Finished(c))
        BY <2>4 DEF LoadReads, Ends
      <3>2. ASSUME Step(c, Finished(c)) PROVE caller'[c].pc # "add"
        BY <1>f, <3>2
      <3>3. ASSUME NEW root, Step(c, [caller[c] EXCEPT !.pc = "keys", !.todo = root])
            PROVE  caller'[c].pc # "add"
        BY <3>3
      <3> QED
        BY <3>1, <3>2, <3>3
    <2> QED
      BY <1>1, <2>1, <2>2, <2>3, <2>4 DEF LoadStep
  <1>2. CASE SetStep(c) /\ ~Notify(c)
    <2>1. ASSUME NEW k, NEW text, Sets(c, k, text) PROVE caller'[c].pc # "add"
      BY <2>1 DEF Sets, Resting
    <2>2. CASE MemberSkipped(c)
      BY <2>2 DEF MemberSkipped, Skips
    <2>3. CASE MemberChanged(c)
      BY <2>3 DEF MemberChanged, Skips
    <2>4. CASE Notified(c)
      BY <2>4 DEF Notified
    <2>5. CASE Assign(c)
      <3>1. Step(c, [caller[c] EXCEPT !.pc = "keys", !.key = None, !.val = None, !.old = None, !.by = None])
        BY <2>5 DEF Assign, Store
      <3> QED
        BY <3>1
    <2> QED
      BY <1>2, <2>1, <2>2, <2>3, <2>4, <2>5 DEF SetStep
  <1>3. CASE ModuleStep(c)
    <2>1. ASSUME NEW m, LoadLibrary(c, m) PROVE caller'[c].pc # "add"
      BY <2>1 DEF LoadLibrary, Resting
    <2>2. CASE LoadsAgain(c)
      BY <2>2 DEF LoadsAgain, LoadBegins
    <2>3. CASE AddInserts(c)
      BY <2>3 DEF AddInserts, Resting
    <2>4. CASE DelAllBegins(c)
      BY <2>4 DEF DelAllBegins, Resting
    <2>5. CASE Dels(c)
      <3> HIDE DEF Step, CallerFields
      <3> QED
        BY <2>5, DelMoves
    <2> QED
      BY <1>3, <2>1, <2>2, <2>3, <2>4, <2>5 DEF ModuleStep, Dels
  <1> QED
    BY <1>1, <1>2, <1>3

LEMMA UnmixedNext == Shape /\ Setters /\ UnmixedInv /\ [Next]_vars => UnmixedInv'
  <1> SUFFICES ASSUME Shape, Setters, UnmixedInv, [Next]_vars
               PROVE  UnmixedInv'
    OBVIOUS
  <1>1. Rows /\ Rows'
    BY RowsNext DEF UnmixedInv
  <1> SUFFICES ASSUME Alone'
               PROVE  Unmixed'
    BY <1>1 DEF UnmixedInv
  <1>w. world' = world
    BY WorldStays DEF vars
  <1>2. Alone /\ Unmixed
    BY <1>w DEF Alone, UnmixedInv
  <1> USE <1>1, <1>2
  (* A caller whose logger is not rebuilt. *)
  <1>3. ASSUME UNCHANGED <<world, logger, event>>, NEW c \in world.callers \cap Callers, NEW next,
               DOMAIN next = CallerFields, Step(c, next), next.pc # "add"
        PROVE  Unmixed'
    <2>1. \A m \in Loggers : Tags(logger'[m]) \subseteq Tags(logger[m])
      BY <1>3
    <2> QED
      BY <1>3, <2>1, UnmixedStep
  <1>4. CASE UNCHANGED vars
    BY <1>4 DEF vars, Unmixed
  <1>5. CASE Write
    <2>1. UNCHANGED <<logger, event>>
          /\ \A c \in Callers : /\ caller'[c].pc = caller[c].pc /\ caller'[c].define = caller[c].define
                              /\ caller'[c].by = caller[c].by
      BY <1>5 DEF Write, Shape, CallerFields
    <2> QED
      BY <2>1 DEF Unmixed
  <1>6. ASSUME NEW c \in Callers, LoadStep(c)
        PROVE  Unmixed'
    <2> USE RestingFields, FinishedFields
    <2>1. UNCHANGED <<world, logger, event>> /\ c \in world.callers
      BY <1>6, LoadMoves, Acting
    <2>2. Moves(c) /\ caller'[c].pc # "add"
      BY <1>6, LoadMoves, NoneAdds
    <2> QED
      BY <1>3, <2>1, <2>2, StepKeeps DEF Moves
  <1>7. ASSUME NEW c \in Callers, SetStep(c)
        PROVE  Unmixed'
    <2> USE RestingFields
    <2>1. UNCHANGED <<world, event>> /\ c \in world.callers
      BY <1>7, SetMoves, Acting
    <2>2. CASE Notify(c)
      BY <2>1, <2>2, UnmixedNotify
    <2>3. CASE ~Notify(c)
      <3>1. logger' = logger
        BY <1>7, <2>3 DEF SetStep, Sets, MemberSkipped, MemberChanged, Notified, Assign, Store
      <3>2. Moves(c) /\ caller'[c].pc # "add"
        BY <1>7, <2>3, SetMoves, NoneAdds
      <3> QED
        BY <1>3, <2>1, <3>1, <3>2, StepKeeps DEF Moves
    <2> QED
      BY <2>2, <2>3
  <1>8. ASSUME NEW c \in Callers, ModuleStep(c)
        PROVE  Unmixed'
    <2> USE RestingFields
    <2>1. UNCHANGED <<world, logger, event>> /\ c \in world.callers
      BY <1>8, ModuleMoves, Acting
    <2>2. Moves(c) /\ caller'[c].pc # "add"
      BY <1>8, ModuleMoves, NoneAdds
    <2> QED
      BY <1>3, <2>1, <2>2, StepKeeps DEF Moves
  (* Events. *)
  <1>9. ASSUME NEW e \in Events, LogStep(e)
        PROVE  Unmixed'
    <2>1. UNCHANGED <<logger, caller>>
      BY <1>9 DEF LogStep, Log, WriteOwn, WriteRoot
    <2>2. ASSUME NEW n \in Loggers, NEW level, NEW a \in Taken(n, level), NEW b \in Taken(n, level)
          PROVE  a.by = b.by
      <3>1. a.by \in Tags(logger[n]) /\ b.by \in Tags(logger[n]) /\ OneTag(logger[n])
        BY DEF Taken, Tags, Unmixed
      <3> QED
        BY <3>1 DEF OneTag
    <2>3. \A d \in Events : d # e => event'[d] = event[d]
      BY <1>9 DEF LogStep, Log, WriteOwn, WriteRoot, Shape
    <2>4. /\ event'[e].pc = "own" => event'[e].name \in Loggers
          /\ \A a, b \in event'[e].to : a.by = b.by
      <3>1. ASSUME NEW n \in Loggers, NEW level, Log(e, n, level)
            PROVE  /\ event'[e].name \in Loggers
                   /\ event'[e].to = {}
        BY <3>1 DEF Log, Quiet, Shape
      <3>2. CASE WriteOwn(e)
        <4>1. /\ event[e].name \in Loggers
              /\ event'[e].pc # "own" /\ event'[e].to = Taken(event[e].name, event[e].level)
          BY <3>2 DEF WriteOwn, Shape, Unmixed
        <4> QED
          BY <4>1, <2>2
      <3>3. CASE WriteRoot(e)
        <4>1. /\ event'[e].pc # "own"
              /\ event'[e].to = {} \/ event'[e].to = Taken("root", event[e].level)
          BY <3>3 DEF WriteRoot, Shape
        <4>2. "root" \in Loggers
          BY DEF Loggers
        <4> QED
          BY <4>1, <4>2, <2>2
      <3> QED
        BY <1>9, <3>1, <3>2, <3>3 DEF LogStep
    <2> QED
      BY <2>1, <2>3, <2>4 DEF Unmixed
  <1>10. ASSUME NEW n \in Loggers, NEW p, Reformat(n, p)
         PROVE  Unmixed'
    <2>1. UNCHANGED <<caller, event>> /\ logger' = [logger EXCEPT ![n] = SetFormatter(logger[n], p)]
      BY <1>10 DEF Reformat
    <2>2. Tags(SetFormatter(logger[n], p)) = Tags(logger[n])
      BY SetFormatterIs DEF Rows
    <2>3. \A m \in Loggers : Tags(logger'[m]) = Tags(logger[m])
      BY <2>1, <2>2 DEF Shape
    <2> QED
      BY <2>1, <2>3 DEF Unmixed, OneTag
  <1> QED
    BY <1>4, <1>5, <1>6, <1>7, <1>8, <1>9, <1>10 DEF Next

(* No event is written by appenders of two configurations                  *)
(* (log.cpp:740-765).                                                      *)
THEOREM EventsAreUnmixed == Spec => []NeverMixed
  <1>1. UnmixedInv => NeverMixed
    BY DEF UnmixedInv, Unmixed, NeverMixed
  <1> QED
    BY <1>1, ShapeInit, SettersInit, UnmixedInit, ShapeNext, SettersNext, UnmixedNext, PTL DEF Spec

-----------------------------------------------------------------------------
(* Members of files and of lists come from the world.                      *)
Members ==
    /\ IsSequence(file.root) /\ ToSet(file.root) \subseteq MembersOf(world)
    /\ \A m, o \in ToSet(file.root) : m.key = o.key => m = o
    /\ \A c \in Callers : IsSequence(caller[c].todo) /\ ToSet(caller[c].todo) \subseteq MembersOf(world)

LEMMA MembersInit == Init => Members
  BY EmptyIs DEF Init, Members, Resting

(* A file that is written, and a member that is set.                       *)
LEMMA FileMembers ==
    ASSUME Shape, NEW f \in world.files
    PROVE  /\ IsSequence(f.root) /\ ToSet(f.root) \subseteq MembersOf(world)
           /\ \A m, o \in ToSet(f.root) : m.key = o.key => m = o
  BY WorldsAssumption DEF Shape, MembersOf

LEMMA SetMember ==
    ASSUME NEW w, NEW q \in Keys, NEW u \in w.texts[q]
    PROVE  Member(q, u) \in MembersOf(w)
  <1> DEFINE F == UNION {ToSet(f.root) : f \in w.files}
             T == UNION {{Member(k, text) : text \in w.texts[k]} : k \in Keys}
  <1>1. Member(q, u) \in T
    OBVIOUS
  <1>2. MembersOf(w) = F \cup T
    BY DEF MembersOf
  <1> HIDE DEF F, T
  <1> QED
    BY <1>1, <1>2

(* Member m of the list changes k to v.                                    *)
Changes(c, m, k, v, next) ==
    /\ k \in Keys /\ Listed(m) /\ PathOf(k) = m.key /\ var[k] # None
    /\ v = FromString(k, m.text) /\ v # None /\ ~SameValue(k, v, var[k])
    /\ Step(c, next) /\ DOMAIN next = CallerFields
    /\ next.pc = "notify" /\ next.key = k /\ next.val = v /\ next.todo = Tail(caller[c].todo)
    /\ next.due = caller[c].due /\ next.mtime = caller[c].mtime
    /\ next.changed = IF k = "logs" THEN Changed(var[k], v) ELSE {}
    /\ next.gone = IF k = "logs" THEN Gone(var[k], v) ELSE {}
    /\ cached' = IF k = "timeout" THEN v ELSE cached

LEMMA ChangedIs ==
    ASSUME Shape, NEW c \in Callers, MemberChanged(c)
    PROVE  /\ caller[c].pc = "keys" /\ caller[c].todo # <<>>
           /\ UNCHANGED <<world, file, seen, var, logger, event, fresh>>
           /\ \E k, v, next : Changes(c, Head(caller[c].todo), k, v, next)
  <1> DEFINE m == Head(caller[c].todo)
             v(k) == FromString(k, m.text)
             changed(k) == IF k = "logs" THEN Changed(var[k], v(k)) ELSE {}
             gone(k) == IF k = "logs" THEN Gone(var[k], v(k)) ELSE {}
             next(k) == [Skips(c) EXCEPT !.pc = "notify", !.key = k, !.val = v(k), !.old = var[k],
                           !.by = <<c, calls>>, !.changed = changed(k), !.gone = gone(k)]
  <1>1. PICK k \in KeyAt(m) : /\ v(k) # None /\ ~SameValue(k, v(k), var[k]) /\ Step(c, next(k))
                             /\ cached' = IF k = "timeout" THEN v(k) ELSE cached
    BY DEF MemberChanged
  <1>2. k \in Keys /\ Listed(m) /\ PathOf(k) = m.key /\ var[k] # None
    BY DEF KeyAt
  <1>3. /\ DOMAIN next(k) = CallerFields
        /\ next(k).pc = "notify" /\ next(k).key = k /\ next(k).val = v(k)
        /\ next(k).todo = Tail(caller[c].todo)
        /\ next(k).due = caller[c].due /\ next(k).mtime = caller[c].mtime
        /\ next(k).changed = changed(k) /\ next(k).gone = gone(k)
    <2> HIDE DEF v, changed, gone
    <2> QED
      BY ZenonT(60) DEF Skips, Shape, CallerFields
  <1>4. Changes(c, m, k, v(k), next(k))
    <2> HIDE DEF next, m
    <2> QED
      BY <1>1, <1>2, <1>3 DEF Changes
  <1>5. /\ caller[c].pc = "keys" /\ caller[c].todo # <<>>
        /\ UNCHANGED <<world, file, seen, var, logger, event, fresh>>
    BY DEF MemberChanged
  <1> QED
    BY <1>4, <1>5

LEMMA MembersStep ==
    ASSUME Shape, Members, UNCHANGED <<world, file>>, NEW c \in Callers, NEW next, DOMAIN next = CallerFields,
           Step(c, next), IsSequence(next.todo), ToSet(next.todo) \subseteq MembersOf(world)
    PROVE  Members'
  <1>1. \A d \in Callers : caller'[d] = IF d = c THEN next ELSE caller[d]
    BY StepKeeps
  <1> QED
    BY <1>1 DEF Members, MembersOf

LEMMA MembersNext == Shape /\ Members /\ [Next]_vars => Members'
  <1> SUFFICES ASSUME Shape, Members, [Next]_vars
               PROVE  Members'
    OBVIOUS
  <1> USE EmptyIs, RestingFields, FinishedFields
  <1>0. CASE UNCHANGED <<world, file, caller>>
    BY <1>0 DEF Members, MembersOf
  <1>1. CASE Write
    <2>1. PICK f \in world.files : \E t, n : file' = [root |-> f.root, ok |-> f.ok, mtime |-> t, edits |-> n,
                                                    noted |-> Noted(t)]
      BY <1>1 DEF Write
    <2>2. world' = world /\ \A c \in Callers : caller'[c].todo = caller[c].todo
      BY <1>1 DEF Write, Shape, CallerFields
    <2>3. file'.root = f.root
      BY <2>1
    <2>4. MembersOf(world)' = MembersOf(world)
      BY <2>2 DEF MembersOf
    <2> QED
      BY <2>2, <2>3, <2>4, FileMembers DEF Members
  <1>2. ASSUME NEW c \in Callers, NEW next, DOMAIN next = CallerFields, Step(c, next), UNCHANGED <<world, file>>,
               next.todo \in {<<>>, caller[c].todo, file.root}
        PROVE  Members'
    BY <1>2, MembersStep DEF Members
  <1>3. ASSUME NEW c \in Callers, LoadStep(c) PROVE Members'
    <2> USE DEF Resting
    <2>0. UNCHANGED <<world, file>>
      BY <1>3, LoadMoves
    <2>f. Finished(c).todo = <<>>
      BY DEF Finished
    <2>1. ASSUME NEW force, Loads(c, force) PROVE Members'
      BY <1>2, <2>0, <2>1 DEF Loads, LoadBegins, CallerFields
    <2>2. CASE LoadsNothing(c) \/ LoadEnds(c)
      BY <1>2, <2>0, <2>2, <2>f DEF LoadsNothing, LoadEnds, Ends
    <2>3. CASE LoadChecks(c)
      BY <1>2, <2>0, <2>3, <2>f DEF LoadChecks, Ends, Shape, CallerFields
    <2>4. CASE LoadReads(c)
      BY <1>2, <2>0, <2>4, <2>f DEF LoadReads, Ends, Shape, CallerFields
    <2> QED
      BY <1>3, <2>1, <2>2, <2>3, <2>4 DEF LoadStep
  <1>4. ASSUME NEW c \in Callers, SetStep(c) PROVE Members'
    <2>0. UNCHANGED <<world, file>>
      BY <1>4, SetMoves
    <2>1. ASSUME NEW k \in Keys, NEW text \in world.texts[k], Sets(c, k, text) PROVE Members'
      <3> DEFINE m == Member(k, text)
                 next == [Resting EXCEPT !.pc = "keys", !.todo = <<m>>]
      <3>1. m \in MembersOf(world)
        BY SetMember
      <3>2. Step(c, next) /\ DOMAIN next = CallerFields /\ next.todo = <<m>>
        BY <2>1 DEF Sets, Resting, CallerFields
      <3> HIDE DEF next, m
      <3> QED
        BY <2>0, <3>1, <3>2, SingleIs, MembersStep
    <2>2. CASE caller[c].todo # <<>> /\ MemberSkipped(c)
      <3> DEFINE next == Skips(c)
      <3>1. Step(c, next) /\ DOMAIN next = CallerFields /\ next.todo = Tail(caller[c].todo)
        BY <2>2 DEF MemberSkipped, Skips, Shape, CallerFields
      <3>2. IsSequence(next.todo) /\ ToSet(next.todo) \subseteq MembersOf(world)
        BY <2>2, <3>1, TailOf DEF Members
      <3> HIDE DEF next
      <3> QED
        BY <2>0, <3>1, <3>2, MembersStep
    <2>3. CASE MemberChanged(c)
      <3>1. PICK next : Step(c, next) /\ DOMAIN next = CallerFields /\ next.todo = Tail(caller[c].todo)
        BY <2>3, ChangedIs DEF Changes
      <3>2. caller[c].todo # <<>>
        BY <2>3 DEF MemberChanged
      <3>3. IsSequence(next.todo) /\ ToSet(next.todo) \subseteq MembersOf(world)
        BY <3>1, <3>2, TailOf DEF Members
      <3> QED
        BY <2>0, <3>1, <3>3, MembersStep
    <2>4. CASE Notify(c)
      BY <1>2, <2>0, <2>4 DEF Notify, NotifyNext, Turns, NotifyLevel, NotifyFormatter, NotifyClear, NotifyAdd,
                              Rebuilds, Shape, CallerFields
    <2>5. CASE Notified(c)
      BY <1>2, <2>0, <2>5 DEF Notified, Shape, CallerFields
    <2>6. CASE Assign(c)
      BY <1>2, <2>0, <2>6 DEF Assign, Store, Shape, CallerFields
    <2>7. MemberSkipped(c) => caller[c].todo # <<>>
      BY DEF MemberSkipped
    <2> QED
      BY <1>4, <2>1, <2>2, <2>3, <2>4, <2>5, <2>6, <2>7 DEF SetStep
  <1>5. ASSUME NEW c \in Callers, ModuleStep(c) PROVE Members'
    <2>0. UNCHANGED <<world, file>>
      BY <1>5, ModuleMoves
    <2>1. ASSUME NEW m, LoadLibrary(c, m) PROVE Members'
      BY <1>2, <2>0, <2>1 DEF LoadLibrary, Resting, CallerFields
    <2>2. CASE LoadsAgain(c)
      BY <1>2, <2>0, <2>2 DEF LoadsAgain, LoadBegins, Shape, CallerFields
    <2>3. CASE Dels(c)
      BY <1>2, <2>0, <2>3, DelMoves
    <2>4. CASE AddInserts(c)
      BY <1>2, <2>0, <2>4 DEF AddInserts, Resting
    <2>5. CASE DelAllBegins(c)
      BY <1>2, <2>0, <2>5 DEF DelAllBegins, Resting, CallerFields
    <2> QED
      BY <1>5, <2>1, <2>2, <2>3, <2>4, <2>5 DEF ModuleStep, Dels
  <1> QED
    BY <1>0, <1>1, <1>3, <1>4, <1>5 DEF Next, vars, LogStep, Log, WriteOwn, WriteRoot, Reformat

-----------------------------------------------------------------------------
(* Between two changes every logger follows its definition. While the      *)
(* listener of "logs" runs, the definitions that are still to be applied   *)
(* are in changed or being applied, and the loggers that are still to be   *)
(* dismissed are in gone or being dismissed.                               *)
NamesOf(v) == {d.name : d \in v}

Named(v) == NamesOf(v) \subseteq Loggers /\ \A d, e \in v : d.name = e.name => d = e

Suits(l, d) ==
    /\ l.level = d.level
    /\ Patterns[world.patterns] = {} /\ d.formatter # <<>> /\ ~Formatter!IsError(d.formatter) => l.pattern = d.formatter

Clean(n) == Tags(logger[n]) \subseteq {None}

AllSuit == /\ \A d \in var["logs"] : Suits(logger[d.name], d)
           /\ \A n \in Loggers \ NamesOf(var["logs"]) : Clean(n)

CopyIsKept == cached = IF var["timeout"] = None THEN 0 ELSE var["timeout"]

(* The listener is about to apply this definition.                         *)
Applying(c, d) ==
    /\ caller[c].define = d
    /\ \/ caller[c].pc = "level"
       \/ caller[c].pc = "formatter" /\ logger[d.name].level = d.level

Dismissing(c, n) == caller[c].define = Dismissal(n) /\ caller[c].pc \in {"level", "clear"}

Rebuilding(c) == caller[c].pc \in {"level", "formatter", "clear", "add"}

LogsChange(c) ==
    /\ Named(caller[c].val)
    /\ caller[c].changed \subseteq caller[c].val
    /\ caller[c].gone \subseteq Loggers \ NamesOf(caller[c].val)
    /\ caller[c].pc = "assign" => caller[c].changed = {} /\ caller[c].gone = {}
    /\ Rebuilding(c) => \/ caller[c].define \in caller[c].val
                        \/ /\ caller[c].pc \in {"level", "clear"} /\ caller[c].apps = <<>>
                           /\ \E n \in Loggers \ NamesOf(caller[c].val) : caller[c].define = Dismissal(n)
    /\ \A d \in caller[c].val : d \in caller[c].changed \/ Applying(c, d) \/ Suits(logger[d.name], d)
    /\ \A n \in Loggers \ NamesOf(caller[c].val) : n \in caller[c].gone \/ Dismissing(c, n) \/ Clean(n)

Follows ==
    /\ var["logs"] # None /\ Named(var["logs"])
    /\ (\A c \in Callers : ~(Setting(c) /\ caller[c].key = "logs")) => AllSuit
    /\ (\A c \in Callers : ~(Setting(c) /\ caller[c].key = "timeout")) => CopyIsKept
    /\ \A c \in Callers : Setting(c) =>
          IF caller[c].key = "logs" THEN LogsChange(c)
          ELSE /\ cached = caller[c].val /\ caller[c].pc \in {"notify", "assign"}
               /\ caller[c].changed = {} /\ caller[c].gone = {}

FollowsInv == Alone => Follows

(* What fromString makes of a text of "logs" has one definition a name.    *)
LEMMA NamedFrom ==
    ASSUME NEW text, IsSequence(text), \A e \in ToSet(text) : e.name \in Loggers \cup {None},
           NEW v, v = FromString("logs", text), v # None
    PROVE  Named(v)
  <1> DEFINE first == {j \in DOMAIN text : \A h \in 1..(j - 1) : text[h].name # text[j].name}
  <1>1. DOMAIN text = 1..Len(text) /\ Len(text) \in Nat
    BY SequenceHas
  <1>2. /\ v = {DefineOf(text[i]) : i \in first}
        /\ \A e \in ToSet(text) : e.name # None
    <2>1. ~\E e \in ToSet(text) : e.name = None
      BY DEF FromString
    <2>2. v = {DefineOf(text[i]) : i \in first}
      BY <2>1 DEF FromString
    <2> QED
      BY <2>1, <2>2
  <1>3. \A i \in first : i \in 1..Len(text) /\ \A h \in 1..(i - 1) : text[h].name # text[i].name
    BY <1>1
  <1>4. \A e : DefineOf(e).name = e.name
    BY DEF DefineOf
  <1>5. ASSUME NEW d \in v PROVE d.name \in Loggers
    <2>1. PICK i \in first : d = DefineOf(text[i])
      BY <1>2
    <2>2. text[i] \in ToSet(text)
      BY <1>1, <1>3 DEF ToSet
    <2> QED
      BY <1>2, <1>4, <2>1, <2>2
  <1>6. ASSUME NEW d \in v, NEW e \in v, d.name = e.name PROVE d = e
    <2>1. PICK i \in first, j \in first : d = DefineOf(text[i]) /\ e = DefineOf(text[j])
      BY <1>2
    <2>2. text[i].name = text[j].name
      BY <1>4, <1>6, <2>1
    <2>3. i \in 1..Len(text) /\ j \in 1..Len(text)
      BY <1>3
    <2>4. ~(i < j) /\ ~(j < i)
      <3>1. ASSUME i < j PROVE FALSE
        BY <1>1, <1>3, <2>2, <2>3, <3>1
      <3>2. ASSUME j < i PROVE FALSE
        BY <1>1, <1>3, <2>2, <2>3, <3>2
      <3> QED
        BY <3>1, <3>2
    <2> QED
      BY <1>1, <2>1, <2>3, <2>4
  <1> QED
    BY <1>5, <1>6 DEF Named, NamesOf

LEMMA ValueNamed ==
    ASSUME Shape, NEW m \in MembersOf(world), m.key = PathOf("logs"), NEW v, v = FromString("logs", m.text), v # None
    PROVE  Named(v)
  <1>1. IsSequence(m.text) /\ \A e \in ToSet(m.text) : e.name \in Loggers \cup {None}
    BY WorldsAssumption DEF Shape
  <1> QED
    BY <1>1, NamedFrom

LEMMA FollowsInit == Init => FollowsInv
  <1> SUFFICES ASSUME Init
               PROVE  Follows
    BY DEF FollowsInv
  <1>1. \A c \in Callers : caller[c].pc = "idle"
    BY DEF Init, Resting
  <1>2. var["logs"] = {} /\ var["timeout"] \in {None, 0} /\ cached = 0
    BY WorldsAssumption DEF Init, Keys, DefaultOf
  <1>3. \A n \in Loggers : Tags(logger[n]) \subseteq {None}
    <2> DEFINE x == [dest |-> <<"stdout", None>>, by |-> None, level |-> Debug,
                     own |-> FALSE, pattern |-> DefaultPattern]
    <2>1. ASSUME NEW n \in Loggers, n # "root" PROVE Tags(logger[n]) \subseteq {None}
      <3>1. logger[n] = NewLogger
        BY <2>1 DEF Init
      <3> QED
        BY <3>1, NewLoggerIs
    <2>2. Tags(logger["root"]) \subseteq {None}
      <3>1. logger["root"].apps = <<x>>
        BY DEF Init, Loggers, NewLogger
      <3>2. x.by = None
        OBVIOUS
      <3> HIDE DEF x
      <3> QED
        BY <3>1, <3>2, SingleIs DEF Tags
    <2> QED
      BY <2>1, <2>2
  <1> QED
    BY <1>1, <1>2, <1>3, NoneAssumption DEF Follows, Named, NamesOf, AllSuit, Clean, CopyIsKept, Setting, Listening

(* A step of the only caller: what has to hold afterwards.                 *)
LEMMA FollowsStep ==
    ASSUME Shape, Setters, Alone, NEW c \in world.callers \cap Callers, NEW next, DOMAIN next = CallerFields,
           Step(c, next), world' = world, var'["logs"] # None, Named(var'["logs"]),
           ~(next.pc \in Listening \cup {"assign"} /\ next.key = "logs") => AllSuit',
           ~(next.pc \in Listening \cup {"assign"} /\ next.key = "timeout") => CopyIsKept',
           next.pc \in Listening \cup {"assign"} /\ next.key = "logs" => LogsChange(c)',
           next.pc \in Listening \cup {"assign"} /\ next.key # "logs" =>
               cached' = next.val /\ next.pc \in {"notify", "assign"} /\ next.changed = {} /\ next.gone = {}
    PROVE  Follows'
  <1>1. \A d \in Callers : caller'[d] = IF d = c THEN next ELSE caller[d]
    BY StepKeeps
  <1>2. ASSUME NEW d \in Callers, d # c PROVE caller'[d].pc = "idle"
    BY <1>1, <1>2, Sole
  <1>3. \A d \in Callers : Setting(d)' => d = c
    BY <1>2 DEF Setting, Listening
  <1>4. caller'[c] = next
    BY <1>1
  <1>5. Setting(c)' <=> next.pc \in Listening \cup {"assign"}
    BY <1>4 DEF Setting
  <1>6. ASSUME NEW d \in Callers, Setting(d)'
        PROVE  IF caller'[d].key = "logs" THEN LogsChange(d)'
               ELSE /\ cached' = caller'[d].val /\ caller'[d].pc \in {"notify", "assign"}
                    /\ caller'[d].changed = {} /\ caller'[d].gone = {}
    <2>1. d = c
      BY <1>3, <1>6
    <2> QED
      BY <1>4, <1>5, <1>6, <2>1
  <1>7. (\A d \in Callers : ~(Setting(d)' /\ caller'[d].key = "logs")) => AllSuit'
    BY <1>4, <1>5
  <1>8. (\A d \in Callers : ~(Setting(d)' /\ caller'[d].key = "timeout")) => CopyIsKept'
    BY <1>4, <1>5
  <1> QED
    BY <1>6, <1>7, <1>8 DEF Follows

(* A step that leaves the variables and the loggers alone, of a caller     *)
(* that is changing nothing.                                               *)
LEMMA FollowsQuiet ==
    ASSUME Shape, Setters, Alone, Follows, NEW c \in world.callers \cap Callers, ~Setting(c),
           NEW next, DOMAIN next = CallerFields, Step(c, next), next.pc \notin Listening \cup {"assign"},
           UNCHANGED <<world, var, logger, cached>>
    PROVE  Follows'
  <1>1. \A d \in Callers : ~Setting(d)
    BY Sole DEF Setting, Listening
  <1>2. AllSuit /\ CopyIsKept /\ var["logs"] # None /\ Named(var["logs"])
    BY <1>1 DEF Follows
  <1>3. AllSuit' /\ CopyIsKept'
    BY <1>2 DEF AllSuit, CopyIsKept, Suits, Clean
  <1> QED
    BY <1>2, <1>3, FollowsStep

(* The listener of "logs" is told of a new value.                          *)
LEMMA FollowsChanged ==
    ASSUME Shape, Setters, Alone, Members, Follows, NEW c \in world.callers \cap Callers, MemberChanged(c)
    PROVE  Follows'
  <1> DEFINE m == Head(caller[c].todo)
  <1>1. /\ caller[c].pc = "keys" /\ caller[c].todo # <<>>
        /\ UNCHANGED <<world, var, logger>>
    BY ChangedIs
  <1>2. PICK k, v, next : Changes(c, m, k, v, next)
    BY ChangedIs
  <1>3. m \in MembersOf(world)
    BY <1>1, TailOf DEF Members
  <1> HIDE DEF m
  <1>4. \A d \in Callers : ~Setting(d)
    BY <1>1, Sole DEF Setting, Listening
  <1>5. AllSuit /\ CopyIsKept /\ var["logs"] # None /\ Named(var["logs"])
    BY <1>4 DEF Follows
  <1>6. AllSuit'
    BY <1>1, <1>5 DEF AllSuit, Suits, Clean
  <1>7. next.pc = "notify" /\ next.key = k /\ next.val = v /\ Step(c, next) /\ DOMAIN next = CallerFields
    BY <1>2 DEF Changes
  <1>8. CASE k = "timeout"
    <2>1. cached' = v /\ next.changed = {} /\ next.gone = {}
      BY <1>2, <1>8 DEF Changes
    <2> QED
      BY <1>1, <1>5, <1>6, <1>7, <1>8, <2>1, FollowsStep DEF Listening
  <1>9. CASE k = "logs"
    <2>1. /\ Named(v) /\ cached' = cached
          /\ next.changed = Changed(var["logs"], v) /\ next.gone = Gone(var["logs"], v)
      BY <1>2, <1>3, <1>9, ValueNamed DEF Changes
    <2>2. caller'[c] = next
      BY <1>7, StepKeeps
    <2>3. ASSUME NEW d \in v
          PROVE  d \in next.changed \/ Suits(logger[d.name], d)
      <3>1. CASE ~\E e \in var["logs"] : e.name = d.name /\ SameDefine(d, e)
        BY <2>1, <3>1 DEF Changed
      <3>2. CASE \E e \in var["logs"] : e.name = d.name /\ SameDefine(d, e)
        <4>1. PICK e \in var["logs"] : e.name = d.name /\ SameDefine(d, e)
          BY <3>2
        <4>2. Suits(logger[e.name], e)
          BY <1>5 DEF AllSuit
        <4> QED
          BY <4>1, <4>2 DEF Suits, SameDefine
      <3> QED
        BY <3>1, <3>2
    <2>4. ASSUME NEW n \in Loggers \ NamesOf(v)
          PROVE  n \in next.gone \/ Clean(n)
      BY <1>5, <2>1 DEF AllSuit, Gone, NamesOf
    <2>5. next.changed \subseteq v /\ next.gone \subseteq Loggers \ NamesOf(v)
      BY <1>5, <2>1 DEF Changed, Gone, NamesOf, Named
    <2>6. LogsChange(c)'
      <3>1. /\ \A d \in v : d \in next.changed \/ Suits(logger[d.name], d)'
            /\ \A n \in Loggers \ NamesOf(v) : n \in next.gone \/ Clean(n)'
        BY <1>1, <2>3, <2>4 DEF Suits, Clean
      <3>2. caller'[c].pc = "notify" /\ caller'[c].val = v
        BY <1>7, <2>2
      <3> QED
        BY <2>1, <2>2, <2>5, <3>1, <3>2 DEF LogsChange, Rebuilding
    <2>7. CopyIsKept'
      BY <1>1, <1>5, <2>1 DEF CopyIsKept
    <2>8. /\ var'["logs"] # None /\ Named(var'["logs"]) /\ world' = world /\ next.key = "logs"
          /\ Step(c, next) /\ DOMAIN next = CallerFields /\ next.pc \in Listening \cup {"assign"}
      BY <1>1, <1>5, <1>7, <1>9 DEF Listening
    <2> QED
      BY <2>6, <2>7, <2>8, FollowsStep
  <1>10. k \in Keys
    BY <1>2 DEF Changes
  <1> QED
    BY <1>8, <1>9, <1>10 DEF Keys

(* The new value is assigned when every logger follows it.                 *)
LEMMA FollowsAssign ==
    ASSUME Shape, Setters, Alone, Follows, NEW c \in world.callers \cap Callers, Assign(c)
    PROVE  Follows'
  <1> DEFINE next == [caller[c] EXCEPT !.pc = "keys", !.key = None, !.val = None, !.old = None, !.by = None]
             k == caller[c].key
             v == caller[c].val
  <1>1. /\ caller[c].pc = "assign" /\ Setting(c) /\ UNCHANGED <<world, logger, cached>>
        /\ var' = [var EXCEPT ![k] = v] /\ Step(c, next)
    BY DEF Assign, Store, Setting
  <1>2. DOMAIN next = CallerFields /\ next.pc = "keys"
    BY DEF Shape, CallerFields
  <1>3. k \in Keys /\ v # None
    BY <1>1 DEF Setters
  <1>4. \A q \in Keys : var'[q] = IF q = k THEN v ELSE var[q]
    BY <1>1, <1>3 DEF Shape
  <1>5. \A d \in Callers : Setting(d) => d = c
    BY Sole DEF Setting, Listening
  <1>6. CASE k = "logs"
    <2>1. LogsChange(c) /\ CopyIsKept
      BY <1>1, <1>5, <1>6 DEF Follows
    <2>2. var'["logs"] = v /\ var'["timeout"] = var["timeout"]
      BY <1>4, <1>6 DEF Keys
    <2>3. /\ Named(v)
          /\ \A d \in v : Suits(logger[d.name], d)
          /\ \A n \in Loggers \ NamesOf(v) : Clean(n)
      BY <1>1, <2>1 DEF LogsChange, Applying, Dismissing
    <2> HIDE DEF next, k, v
    <2>4. AllSuit' /\ CopyIsKept'
      BY <1>1, <2>1, <2>2, <2>3 DEF AllSuit, CopyIsKept, Suits, Clean
    <2> QED
      BY <1>1, <1>2, <1>3, <2>2, <2>3, <2>4, FollowsStep DEF Listening
  <1>7. CASE k = "timeout"
    <2>1. cached = v /\ AllSuit /\ var["logs"] # None /\ Named(var["logs"])
      BY <1>1, <1>5, <1>7 DEF Follows
    <2>2. var'["timeout"] = v /\ var'["logs"] = var["logs"]
      BY <1>4, <1>7 DEF Keys
    <2> HIDE DEF next, k, v
    <2>3. AllSuit' /\ CopyIsKept'
      BY <1>1, <1>3, <2>1, <2>2 DEF AllSuit, CopyIsKept, Suits, Clean
    <2> QED
      BY <1>1, <1>2, <2>1, <2>2, <2>3, FollowsStep DEF Listening
  <1> QED
    BY <1>3, <1>6, <1>7 DEF Keys

(* The listener rebuilds a logger n as l: what remains to be done for it,  *)
(* and nothing for the others.                                             *)
LEMMA FollowsRebuild ==
    ASSUME Shape, Setters, Alone, Follows, NEW c \in world.callers \cap Callers, Rebuilding(c),
           UNCHANGED <<world, var, cached>>,
           NEW n \in Loggers, n = caller[c].define.name, NEW l,
           \A m \in Loggers : logger'[m] = IF m = n THEN l ELSE logger[m],
           NEW next, DOMAIN next = CallerFields, Step(c, next),
           next.pc \in Listening, next.key = caller[c].key, next.val = caller[c].val,
           next.changed = caller[c].changed, next.gone = caller[c].gone, next.define = caller[c].define,
           next.pc \in {"level", "formatter", "clear", "add"} =>
              \/ next.define \in next.val
              \/ next.pc \in {"level", "clear"} /\ next.apps = caller[c].apps,
           \A d \in caller[c].val : d.name = n /\ d \notin caller[c].changed =>
              \/ next.define = d /\ (next.pc = "level" \/ (next.pc = "formatter" /\ l.level = d.level))
              \/ Suits(l, d),
           n \notin NamesOf(caller[c].val) =>
              (next.define = Dismissal(n) /\ next.pc \in {"level", "clear"}) \/ Tags(l) \subseteq {None}
    PROVE  Follows'
  <1>1. Setting(c) /\ caller[c].key = "logs" /\ LogsChange(c) /\ CopyIsKept /\ var["logs"] # None /\ Named(var["logs"])
    <2>1. Setting(c)
      BY DEF Setting, Rebuilding, Listening
    <2>2. caller[c].key = "logs"
      BY <2>1 DEF Follows, Rebuilding
    <2>3. \A d \in Callers : Setting(d) => d = c
      BY Sole DEF Setting, Listening
    <2> QED
      BY <2>1, <2>2, <2>3 DEF Follows
  <1>2. caller'[c] = next
    BY StepKeeps
  <1>3. \A m \in Loggers : logger'[m] = IF m = n THEN l ELSE logger[m]
    OBVIOUS
  <1>4. ASSUME NEW d \in caller[c].val, d \notin caller[c].changed
        PROVE  Applying(c, d)' \/ Suits(logger'[d.name], d)
    <2>1. d.name \in Loggers
      BY <1>1 DEF LogsChange, Named, NamesOf
    <2>2. CASE d.name = n
      BY <1>2, <1>3, <1>4, <2>1, <2>2 DEF Applying
    <2>3. CASE d.name # n
      <3>1. Suits(logger[d.name], d)
        BY <1>1, <1>4, <2>3 DEF LogsChange, Applying
      <3> QED
        BY <1>3, <2>1, <2>3, <3>1
    <2> QED
      BY <2>2, <2>3
  <1>5. ASSUME NEW m \in Loggers \ NamesOf(caller[c].val), m \notin caller[c].gone
        PROVE  Dismissing(c, m)' \/ Tags(logger'[m]) \subseteq {None}
    <2>1. CASE m = n
      BY <1>2, <1>3, <2>1 DEF Dismissing
    <2>2. CASE m # n
      <3>1. ~Dismissing(c, m)
        BY <2>2 DEF Dismissing, Dismissal
      <3> QED
        BY <1>1, <1>3, <1>5, <2>2, <3>1 DEF LogsChange, Clean
    <2> QED
      BY <2>1, <2>2
  <1>6. ASSUME Rebuilding(c)'
        PROVE  \/ next.define \in next.val
               \/ /\ next.pc \in {"level", "clear"} /\ next.apps = <<>>
                  /\ \E m \in Loggers \ NamesOf(next.val) : next.define = Dismissal(m)
    BY <1>1, <1>2, <1>6 DEF LogsChange, Rebuilding
  <1>7. LogsChange(c)'
    <2>1. \A d \in caller[c].val : Suits(logger'[d.name], d) => Suits(logger[d.name], d)'
      BY DEF Suits
    <2>2. \A d \in next.val : d \in next.changed \/ Applying(c, d)' \/ Suits(logger[d.name], d)'
      BY <1>4, <2>1
    <2>3. \A m \in Loggers \ NamesOf(next.val) : m \in next.gone \/ Dismissing(c, m)' \/ Clean(m)'
      BY <1>5 DEF Clean
    <2>4. /\ Named(next.val) /\ next.changed \subseteq next.val
          /\ next.gone \subseteq Loggers \ NamesOf(next.val)
      BY <1>1 DEF LogsChange
    <2>5. next.pc # "assign"
      BY DEF Listening
    <2> QED
      BY <1>2, <1>6, <2>2, <2>3, <2>4, <2>5 DEF LogsChange
  <1>8. CopyIsKept' /\ var'["logs"] # None /\ Named(var'["logs"])
    BY <1>1 DEF CopyIsKept
  <1> QED
    BY <1>1, <1>7, <1>8, FollowsStep

(* The definition that is being applied, and the logger that it is for.    *)
LEMMA ApplyingOne ==
    ASSUME Setters, Alone, Follows, NEW c \in world.callers \cap Callers, Rebuilding(c)
    PROVE  /\ caller[c].define.name \in Loggers /\ LogsChange(c)
           /\ \A d \in caller[c].val : d.name = caller[c].define.name =>
                 d = caller[c].define /\ caller[c].define \in caller[c].val
  <1>1. LogsChange(c)
    BY DEF Follows, Setting, Rebuilding, Listening
  <1>2. CASE caller[c].define \in caller[c].val
    BY <1>1, <1>2 DEF LogsChange, Named, NamesOf
  <1>3. CASE \E n \in Loggers \ NamesOf(caller[c].val) : caller[c].define = Dismissal(n)
    BY <1>1, <1>3 DEF Dismissal, NamesOf
  <1> QED
    BY <1>1, <1>2, <1>3 DEF LogsChange

LEMMA FollowsLevel ==
    ASSUME Shape, Setters, Alone, Rows, Follows, NEW c \in world.callers \cap Callers, NotifyLevel(c)
    PROVE  Follows'
  <1> DEFINE def == caller[c].define
             n == def.name
             l == [logger[n] EXCEPT !.level = def.level]
             next == [caller[c] EXCEPT !.pc = IF def.formatter = <<>> THEN "clear" ELSE "formatter"]
  <1>1. /\ caller[c].pc = "level" /\ Rebuilding(c) /\ logger' = [logger EXCEPT ![n] = l] /\ Step(c, next)
        /\ UNCHANGED <<world, var, cached>>
    BY DEF NotifyLevel, Rebuilds, Rebuilt, Rebuilding
  <1>2. /\ DOMAIN next = CallerFields /\ next.pc = IF def.formatter = <<>> THEN "clear" ELSE "formatter"
        /\ next.key = caller[c].key /\ next.val = caller[c].val
        /\ next.changed = caller[c].changed /\ next.gone = caller[c].gone /\ next.define = def
        /\ next.apps = caller[c].apps
    BY DEF Shape, CallerFields
  <1>3. /\ n \in Loggers /\ LogsChange(c) /\ \A d \in caller[c].val : d.name = n => d = def /\ def \in caller[c].val
    BY <1>1, ApplyingOne
  <1>4. l.level = def.level
    BY <1>3 DEF Shape
  <1> HIDE DEF l, next
  <1>5. def \in caller[c].val \/ (def.formatter = <<>> /\ def = Dismissal(n))
    <2>1. def \in caller[c].val \/ \E m \in Loggers : def = Dismissal(m)
      BY <1>1, <1>3 DEF LogsChange
    <2>2. ASSUME NEW m, def = Dismissal(m) PROVE def.formatter = <<>> /\ def = Dismissal(n)
      BY <2>2 DEF Dismissal
    <2> HIDE DEF def, n
    <2> QED
      BY <2>1, <2>2
  <1>6. \A d \in caller[c].val : d.name = n =>
              \/ next.define = d /\ next.pc = "formatter" /\ l.level = d.level
              \/ Suits(l, d)
    BY <1>2, <1>3, <1>4 DEF Suits
  <1>7. n \notin NamesOf(caller[c].val) => next.define = Dismissal(n) /\ next.pc = "clear"
    BY <1>2, <1>5 DEF NamesOf
  <1>8. /\ next.pc \in Listening
        /\ next.define \in next.val \/ (next.pc = "clear" /\ next.apps = caller[c].apps)
    BY <1>2, <1>5 DEF Listening
  <1>9. \A m \in Loggers : logger'[m] = IF m = n THEN l ELSE logger[m]
    BY <1>1, <1>3 DEF Shape
  <1> HIDE DEF n, def
  <1> QED
    BY <1>9, <1>1, <1>2, <1>3, <1>6, <1>7, <1>8, FollowsRebuild DEF n, def

LEMMA FollowsFormatter ==
    ASSUME Shape, Setters, Alone, Rows, Follows, NEW c \in world.callers \cap Callers, NotifyFormatter(c)
    PROVE  Follows'
  <1> DEFINE def == caller[c].define
             n == def.name
             l == SetFormatter(logger[n], def.formatter)
             next == [caller[c] EXCEPT !.pc = "clear"]
  <1>1. /\ caller[c].pc = "formatter" /\ Rebuilding(c) /\ logger' = [logger EXCEPT ![n] = l] /\ Step(c, next)
        /\ UNCHANGED <<world, var, cached>>
    BY DEF NotifyFormatter, Rebuilds, Rebuilt, Rebuilding
  <1>2. /\ DOMAIN next = CallerFields /\ next.pc = "clear"
        /\ next.key = caller[c].key /\ next.val = caller[c].val
        /\ next.changed = caller[c].changed /\ next.gone = caller[c].gone /\ next.define = def
        /\ next.apps = caller[c].apps
    BY DEF Shape, CallerFields
  <1>3. /\ n \in Loggers /\ LogsChange(c) /\ \A d \in caller[c].val : d.name = n => d = def /\ def \in caller[c].val
    BY <1>1, ApplyingOne
  <1>4. l.level = logger[n].level /\ (~Formatter!IsError(def.formatter) => l.pattern = def.formatter)
    <2>1. IsLogger(logger[n])
      BY <1>3 DEF Rows
    <2> HIDE DEF n, def
    <2> QED
      BY <2>1, SetFormatterIs
  <1> HIDE DEF l, next
  <1>5. def \in caller[c].val
    BY <1>1, <1>3 DEF LogsChange
  <1>6. \A d \in caller[c].val : d.name = n /\ d \notin caller[c].changed => Suits(l, d)
    <2>1. def \notin caller[c].changed => logger[n].level = def.level
      <3>1. def \in caller[c].changed \/ Applying(c, def) \/ Suits(logger[n], def)
        BY <1>3, <1>5 DEF LogsChange
      <3> QED
        BY <1>1, <3>1 DEF Applying, Suits
    <2> QED
      BY <1>3, <1>4, <2>1 DEF Suits
  <1>7. n \in NamesOf(caller[c].val)
    BY <1>5 DEF NamesOf
  <1>8. next.pc \in Listening /\ next.define \in next.val
    BY <1>2, <1>5 DEF Listening
  <1>9. \A m \in Loggers : logger'[m] = IF m = n THEN l ELSE logger[m]
    BY <1>1, <1>3 DEF Shape
  <1> HIDE DEF n, def
  <1> QED
    BY <1>9, <1>1, <1>2, <1>3, <1>6, <1>7, <1>8, FollowsRebuild DEF n, def

LEMMA FollowsClear ==
    ASSUME Shape, Setters, Alone, Rows, Follows, NEW c \in world.callers \cap Callers, NotifyClear(c)
    PROVE  Follows'
  <1> DEFINE def == caller[c].define
             n == def.name
             l == ClearAppenders(logger[n])
             next == [caller[c] EXCEPT !.pc = IF caller[c].apps = <<>> THEN "notify" ELSE "add"]
  <1>1. /\ caller[c].pc = "clear" /\ Rebuilding(c) /\ logger' = [logger EXCEPT ![n] = l] /\ Step(c, next)
        /\ UNCHANGED <<world, var, cached>>
    BY DEF NotifyClear, Rebuilds, Rebuilt, Rebuilding
  <1>2. /\ DOMAIN next = CallerFields /\ next.pc = IF caller[c].apps = <<>> THEN "notify" ELSE "add"
        /\ next.key = caller[c].key /\ next.val = caller[c].val
        /\ next.changed = caller[c].changed /\ next.gone = caller[c].gone /\ next.define = def
        /\ next.apps = caller[c].apps
    BY DEF Shape, CallerFields
  <1>3. /\ n \in Loggers /\ LogsChange(c) /\ \A d \in caller[c].val : d.name = n => d = def /\ def \in caller[c].val
    BY <1>1, ApplyingOne
  <1>4. l.level = logger[n].level /\ l.pattern = logger[n].pattern /\ Tags(l) = {}
    <2>1. IsLogger(logger[n])
      BY <1>3 DEF Rows
    <2> HIDE DEF n
    <2> QED
      BY <2>1, ClearIs
  <1> HIDE DEF l, next
  <1>5. next.pc = "notify" \/ next.define \in next.val
    BY <1>2, <1>3, <1>1 DEF LogsChange
  <1>6. \A d \in caller[c].val : d.name = n /\ d \notin caller[c].changed => Suits(l, d)
    BY <1>1, <1>3, <1>4 DEF LogsChange, Applying, Suits
  <1>7. next.pc \in Listening
    BY <1>2 DEF Listening
  <1>9. \A m \in Loggers : logger'[m] = IF m = n THEN l ELSE logger[m]
    BY <1>1, <1>3 DEF Shape
  <1> HIDE DEF n, def
  <1> QED
    BY <1>9, <1>1, <1>2, <1>3, <1>4, <1>5, <1>6, <1>7, FollowsRebuild DEF n, def

LEMMA FollowsAdd ==
    ASSUME Shape, Setters, Alone, Rows, Follows, NEW c \in world.callers \cap Callers, NotifyAdd(c)
    PROVE  Follows'
  <1> DEFINE def == caller[c].define
             n == def.name
             added == AddAppender(logger[n], Head(caller[c].apps), caller[c].by)
             next == [caller[c] EXCEPT !.apps = Tail(caller[c].apps),
                                       !.pc = IF Tail(caller[c].apps) = <<>> THEN "notify" ELSE "add"]
  <1>1. /\ caller[c].pc = "add" /\ Rebuilding(c) /\ Step(c, next) /\ UNCHANGED <<world, var, cached>>
        /\ logger' = logger \/ logger' = [logger EXCEPT ![n] = added]
    BY DEF NotifyAdd, Rebuilding
  <1>2. /\ DOMAIN next = CallerFields /\ next.pc \in {"notify", "add"}
        /\ next.key = caller[c].key /\ next.val = caller[c].val
        /\ next.changed = caller[c].changed /\ next.gone = caller[c].gone /\ next.define = def
    BY DEF Shape, CallerFields
  <1>3. /\ n \in Loggers /\ LogsChange(c) /\ \A d \in caller[c].val : d.name = n => d = def /\ def \in caller[c].val
    BY <1>1, ApplyingOne
  <1>4. added.level = logger[n].level /\ added.pattern = logger[n].pattern
    <2>1. IsLogger(logger[n])
      BY <1>3 DEF Rows
    <2> HIDE DEF n
    <2> QED
      BY <2>1, AddAppenderIs
  <1> HIDE DEF added, next
  <1>5. PICK l : /\ \A m \in Loggers : logger'[m] = IF m = n THEN l ELSE logger[m]
                 /\ l.level = logger[n].level /\ l.pattern = logger[n].pattern
    <2>1. CASE logger' = logger
      <3>1. \A m \in Loggers : logger'[m] = IF m = n THEN logger[n] ELSE logger[m]
        BY <2>1
      <3> QED
        BY <3>1
    <2>2. CASE logger' = [logger EXCEPT ![n] = added]
      <3>1. \A m \in Loggers : logger'[m] = IF m = n THEN added ELSE logger[m]
        BY <2>2 DEF Shape
      <3> QED
        BY <1>4, <3>1
    <2> QED
      BY <1>1, <2>1, <2>2
  <1>6. def \in caller[c].val
    BY <1>1, <1>3 DEF LogsChange
  <1>7. \A d \in caller[c].val : d.name = n /\ d \notin caller[c].changed => Suits(l, d)
    BY <1>1, <1>3, <1>5 DEF LogsChange, Applying, Suits
  <1>8. next.pc \in Listening /\ next.define \in next.val /\ n \in NamesOf(caller[c].val)
    BY <1>2, <1>6 DEF Listening, NamesOf
  <1> HIDE DEF n, def
  <1> QED
    BY <1>1, <1>2, <1>3, <1>5, <1>7, <1>8, FollowsRebuild DEF n, def

(* The listener takes the next definition, or the next logger to dismiss.  *)
LEMMA FollowsTurn ==
    ASSUME Shape, Setters, Alone, Follows, NEW c \in world.callers \cap Callers, NotifyNext(c)
    PROVE  Follows'
  <1>1. /\ caller[c].pc = "notify" /\ Setting(c) /\ UNCHANGED <<world, var, cached, logger>>
        /\ DOMAIN caller[c] = CallerFields
    BY DEF NotifyNext, Setting, Listening, Shape
  <1>2. caller[c].key = "logs" /\ LogsChange(c)
    <2>1. caller[c].changed # {} \/ caller[c].gone # {}
      BY DEF NotifyNext
    <2> QED
      BY <1>1, <2>1 DEF Follows
  <1>3. CopyIsKept /\ var["logs"] # None /\ Named(var["logs"])
    <2>1. \A d \in Callers : Setting(d) => d = c
      BY Sole DEF Setting, Listening
    <2> QED
      BY <1>2, <2>1 DEF Follows
  <1>4. CopyIsKept'
    BY <1>1, <1>3 DEF CopyIsKept
  <1>5. ASSUME NEW next, Step(c, next), DOMAIN next = CallerFields, next.pc = "level", next.key = "logs",
               LogsChange(c)'
        PROVE  Follows'
    BY <1>1, <1>3, <1>4, <1>5, FollowsStep DEF Listening
  <1>6. ASSUME NEW d \in caller[c].changed, Turns(c, [caller[c] EXCEPT !.changed = @ \ {d}], d)
        PROVE  Follows'
    <2> DEFINE next == [[caller[c] EXCEPT !.changed = @ \ {d}] EXCEPT !.pc = "level", !.define = d, !.apps = d.appenders]
    <2>1. Step(c, next)
      BY <1>6 DEF Turns
    <2>2. /\ DOMAIN next = CallerFields /\ next.pc = "level" /\ next.key = caller[c].key /\ next.val = caller[c].val
          /\ next.changed = caller[c].changed \ {d} /\ next.gone = caller[c].gone /\ next.define = d
      BY <1>1 DEF CallerFields
    <2> HIDE DEF next
    <2>3. caller'[c] = next
      BY <2>1, <2>2, StepKeeps
    <2>4. ASSUME NEW e \in next.val PROVE e \in next.changed \/ Applying(c, e)' \/ Suits(logger[e.name], e)'
      <3>1. e \in caller[c].changed \/ Suits(logger[e.name], e)
        BY <1>1, <1>2, <2>2 DEF LogsChange, Applying
      <3>2. e = d => Applying(c, e)'
        BY <2>2, <2>3 DEF Applying
      <3>3. Suits(logger[e.name], e) => Suits(logger[e.name], e)'
        BY <1>1 DEF Suits
      <3> QED
        BY <2>2, <3>1, <3>2, <3>3
    <2>5. ASSUME NEW n \in Loggers \ NamesOf(next.val) PROVE n \in next.gone \/ Dismissing(c, n)' \/ Clean(n)'
      BY <1>1, <1>2, <2>2 DEF LogsChange, Dismissing, Clean
    <2>6. d \in next.val
      BY <1>2, <2>2 DEF LogsChange
    <2>7. LogsChange(c)'
      BY <1>2, <2>2, <2>3, <2>4, <2>5, <2>6 DEF LogsChange, Rebuilding
    <2> QED
      BY <1>2, <1>5, <2>1, <2>2, <2>7
  <1>7. ASSUME NEW n \in caller[c].gone, Turns(c, [caller[c] EXCEPT !.gone = @ \ {n}], Dismissal(n))
        PROVE  Follows'
    <2> DEFINE next == [[caller[c] EXCEPT !.gone = @ \ {n}] EXCEPT !.pc = "level", !.define = Dismissal(n),
                                                                  !.apps = Dismissal(n).appenders]
    <2>1. Step(c, next)
      BY <1>7 DEF Turns
    <2>2. /\ DOMAIN next = CallerFields /\ next.pc = "level" /\ next.key = caller[c].key /\ next.val = caller[c].val
          /\ next.gone = caller[c].gone \ {n} /\ next.changed = caller[c].changed /\ next.define = Dismissal(n)
          /\ next.apps = <<>>
      BY <1>1 DEF CallerFields, Dismissal
    <2> HIDE DEF next
    <2>3. caller'[c] = next
      BY <2>1, <2>2, StepKeeps
    <2>4. ASSUME NEW e \in next.val PROVE e \in next.changed \/ Suits(logger[e.name], e)'
      BY <1>1, <1>2, <2>2 DEF LogsChange, Applying, Suits
    <2>5. ASSUME NEW m \in Loggers \ NamesOf(next.val) PROVE m \in next.gone \/ Dismissing(c, m)' \/ Clean(m)'
      <3>1. m \in caller[c].gone \/ Clean(m)
        BY <1>1, <1>2, <2>2 DEF LogsChange, Dismissing
      <3>2. m = n => Dismissing(c, m)'
        BY <2>2, <2>3 DEF Dismissing
      <3>3. Clean(m) => Clean(m)'
        BY <1>1 DEF Clean
      <3> QED
        BY <2>2, <3>1, <3>2, <3>3
    <2>6. n \in Loggers \ NamesOf(next.val)
      BY <1>2, <2>2 DEF LogsChange
    <2>7. LogsChange(c)'
      BY <1>2, <2>2, <2>3, <2>4, <2>5, <2>6 DEF LogsChange, Rebuilding
    <2> QED
      BY <1>2, <1>5, <2>1, <2>2, <2>7
  <1> QED
    BY <1>6, <1>7 DEF NotifyNext

(* The listeners have returned.                                            *)
LEMMA FollowsNotified ==
    ASSUME Shape, Setters, Alone, Follows, NEW c \in world.callers \cap Callers, Notified(c)
    PROVE  Follows'
  <1> DEFINE next == [caller[c] EXCEPT !.pc = "assign", !.define = None]
  <1>1. /\ caller[c].pc = "notify" /\ caller[c].changed = {} /\ caller[c].gone = {} /\ Setting(c)
        /\ UNCHANGED <<world, var, cached, logger>> /\ Step(c, next)
    BY DEF Notified, Setting, Listening
  <1>2. /\ DOMAIN next = CallerFields /\ next.pc = "assign" /\ next.key = caller[c].key /\ next.val = caller[c].val
        /\ next.changed = caller[c].changed /\ next.gone = caller[c].gone
    BY DEF Shape, CallerFields
  <1> HIDE DEF next
  <1>3. caller'[c] = next
    BY <1>1, <1>2, StepKeeps
  <1>4. \A d \in Callers : Setting(d) => d = c
    BY Sole DEF Setting, Listening
  <1>5. var["logs"] # None /\ Named(var["logs"])
    BY DEF Follows
  <1>6. CASE caller[c].key = "logs"
    <2>1. LogsChange(c) /\ CopyIsKept
      BY <1>1, <1>4, <1>6 DEF Follows
    <2>2. \A d \in next.val : Suits(logger[d.name], d)'
      BY <1>1, <1>2, <2>1 DEF LogsChange, Applying, Suits
    <2>3. \A n \in Loggers \ NamesOf(next.val) : Clean(n)'
      BY <1>1, <1>2, <2>1 DEF LogsChange, Dismissing, Clean
    <2>4. LogsChange(c)'
      BY <1>1, <1>2, <1>3, <2>1, <2>2, <2>3 DEF LogsChange, Rebuilding
    <2>5. CopyIsKept'
      BY <1>1, <2>1 DEF CopyIsKept
    <2> QED
      BY <1>1, <1>2, <1>5, <1>6, <2>4, <2>5, FollowsStep
  <1>7. CASE caller[c].key # "logs"
    <2>1. AllSuit /\ cached = caller[c].val /\ caller[c].key = "timeout"
      BY <1>1, <1>4, <1>7 DEF Follows, Setters, Keys
    <2>2. AllSuit'
      BY <1>1, <2>1 DEF AllSuit, Suits, Clean
    <2> QED
      BY <1>1, <1>2, <1>5, <2>1, <2>2, FollowsStep
  <1> QED
    BY <1>6, <1>7

(* A library brings a variable.                                            *)
LEMMA FollowsLibrary ==
    ASSUME Shape, Setters, Alone, Follows, NEW c \in world.callers \cap Callers, NEW m, LoadLibrary(c, m)
    PROVE  Follows'
  <1> DEFINE next == [Resting EXCEPT !.pc = "loaded", !.module = m]
  <1>1. /\ caller[c].pc = "idle" /\ UNCHANGED <<world, cached, logger>> /\ Step(c, next)
        /\ var' = IF m.key = None THEN var ELSE Lookup(m.key)
    BY DEF LoadLibrary
  <1>2. DOMAIN next = CallerFields /\ next.pc = "loaded"
    BY DEF Resting, CallerFields
  <1> HIDE DEF next
  <1>3. \A d \in Callers : ~Setting(d)
    BY <1>1, Sole DEF Setting, Listening
  <1>4. AllSuit /\ CopyIsKept /\ var["logs"] # None /\ Named(var["logs"])
    BY <1>3 DEF Follows
  <1>5. var'["logs"] = var["logs"] /\ var'["timeout"] \in {var["timeout"], IF var["timeout"] = None THEN 0 ELSE var["timeout"]}
    BY <1>1, <1>4 DEF Lookup, DefaultOf, Shape, Keys
  <1>6. AllSuit'
    BY <1>1, <1>4, <1>5 DEF AllSuit, Suits, Clean
  <1>7. CopyIsKept'
    BY <1>1, <1>4, <1>5 DEF CopyIsKept
  <1> QED
    BY <1>1, <1>2, <1>4, <1>5, <1>6, <1>7, FollowsStep DEF Listening

(* Which steps of a caller that is changing nothing leave it so.           *)
LEMMA NoneSets ==
    ASSUME Shape, NEW c \in Callers,
           LoadStep(c) \/ (\E k \in Keys : \E text \in world.texts[k] : Sets(c, k, text)) \/ MemberSkipped(c)
           \/ (ModuleStep(c) /\ ~\E m \in world.modules : LoadLibrary(c, m))
    PROVE  /\ ~Setting(c) /\ caller'[c].pc \notin Listening \cup {"assign"}
           /\ Moves(c) /\ UNCHANGED <<world, var, logger, cached>>
  <1> USE DEF Step, Shape, CallerFields
  <1> DEFINE Calm(pc) == pc \notin Listening \cup {"assign"}
  <1>f. Calm(Finished(c).pc)
    BY DEF Finished, Resting, Listening
  <1>g. ASSUME Step(c, Finished(c)) PROVE Calm(caller'[c].pc)
    BY <1>f, <1>g
  <1>q. ASSUME Calm(caller[c].pc), Calm(caller'[c].pc)
        PROVE  ~Setting(c) /\ caller'[c].pc \notin Listening \cup {"assign"}
    BY <1>q DEF Setting
  <1>1. CASE LoadStep(c)
    <2>0. Moves(c) /\ UNCHANGED <<world, var, logger, cached>>
      BY <1>1, LoadMoves
    <2>1. ASSUME NEW force, Loads(c, force) PROVE Calm(caller[c].pc) /\ Calm(caller'[c].pc)
      BY <2>1 DEF Loads, LoadBegins, Resting, Listening
    <2>2. ASSUME LoadsNothing(c) \/ LoadEnds(c) PROVE Calm(caller[c].pc) /\ Calm(caller'[c].pc)
      <3>1. Calm(caller[c].pc) /\ Step(c, Finished(c))
        BY <2>2 DEF LoadsNothing, LoadEnds, Ends, Listening
      <3> HIDE DEF Calm, Step
      <3> QED
        BY <1>g, <3>1
    <2>3. ASSUME LoadChecks(c) PROVE Calm(caller[c].pc) /\ Calm(caller'[c].pc)
      <3>1. Calm(caller[c].pc) /\ (Step(c, Finished(c)) \/ Step(c, [caller[c] EXCEPT !.pc = "read"]))
        BY <2>3 DEF LoadChecks, Ends, Listening
      <3>2. ASSUME Step(c, [caller[c] EXCEPT !.pc = "read"]) PROVE Calm(caller'[c].pc)
        BY <3>2 DEF Listening
      <3> HIDE DEF Calm, Step
      <3> QED
        BY <1>g, <3>1, <3>2
    <2>4. ASSUME LoadReads(c) PROVE Calm(caller[c].pc) /\ Calm(caller'[c].pc)
      <3>0. Calm(caller[c].pc)
        BY <2>4 DEF LoadReads, Listening
      <3>1. \/ Step(c, [caller[c] EXCEPT !.pc = "keys", !.todo = file.root])
            \/ Step(c, Finished(c))
        BY <2>4 DEF LoadReads, Ends
      <3>3. ASSUME NEW root, Step(c, [caller[c] EXCEPT !.pc = "keys", !.todo = root])
            PROVE  Calm(caller'[c].pc)
        BY <3>3 DEF Listening
      <3> HIDE DEF Calm, Step
      <3> QED
        BY <1>g, <3>0, <3>1, <3>3
    <2> QED
      BY <1>1, <1>q, <2>0, <2>1, <2>2, <2>3, <2>4 DEF LoadStep
  <1>2. ASSUME NEW k \in Keys, NEW text \in world.texts[k], Sets(c, k, text)
        PROVE  /\ Calm(caller[c].pc) /\ Calm(caller'[c].pc)
               /\ Moves(c) /\ UNCHANGED <<world, var, logger, cached>>
    <2>1. SetStep(c)
      BY <1>2 DEF SetStep
    <2>2. Calm(caller[c].pc) /\ Calm(caller'[c].pc)
      BY <1>2 DEF Sets, Resting, Listening
    <2> QED
      BY <1>2, <2>1, <2>2, SetMoves DEF Sets
  <1>3. CASE MemberSkipped(c)
    <2>1. SetStep(c)
      BY <1>3 DEF SetStep
    <2>2. Calm(caller[c].pc) /\ Calm(caller'[c].pc)
      BY <1>3 DEF MemberSkipped, Skips, Listening
    <2> QED
      BY <1>3, <1>q, <2>1, <2>2, SetMoves DEF MemberSkipped
  <1>4. CASE ModuleStep(c) /\ ~\E m \in world.modules : LoadLibrary(c, m)
    <2>0. Moves(c) /\ UNCHANGED <<world, logger, cached>>
      BY <1>4, ModuleMoves
    <2>1. CASE LoadsAgain(c)
      BY <2>1, <2>0, <1>q DEF LoadsAgain, LoadBegins, Listening
    <2>2. CASE Dels(c)
      <3>1. /\ caller[c].pc \in {"idle", "del", "delall", "unload"}
            /\ caller'[c].pc \in {"idle", "insert", "delall", "unload"} /\ var' = var
        BY <2>2, DelMoves
      <3> HIDE DEF Step, CallerFields, Shape
      <3> QED
        BY <3>1, <2>0, <1>q DEF Listening
    <2>3. CASE AddInserts(c)
      BY <2>3, <2>0, <1>q DEF AddInserts, Resting, Listening
    <2>4. CASE DelAllBegins(c)
      BY <2>4, <2>0, <1>q DEF DelAllBegins, Resting, Listening
    <2> QED
      BY <1>4, <2>1, <2>2, <2>3, <2>4 DEF ModuleStep, Dels
  <1> QED
    BY <1>1, <1>2, <1>3, <1>4, <1>q

LEMMA FollowsNext == Shape /\ Setters /\ UnmixedInv /\ Members /\ FollowsInv /\ [Next]_vars => FollowsInv'
  <1> SUFFICES ASSUME Shape, Setters, UnmixedInv, Members, FollowsInv, [Next]_vars, Alone'
               PROVE  Follows'
    BY DEF FollowsInv
  <1>w. world' = world
    BY WorldStays DEF vars
  <1>1. Alone /\ Follows /\ Rows
    BY <1>w DEF Alone, FollowsInv, UnmixedInv
  <1> USE <1>1
  (* Nothing that matters here is changed. *)
  <1>2. ASSUME UNCHANGED <<var, logger, cached>>,
               \A c \in Callers : \A f \in CallerFields \ {"due"} : caller'[c][f] = caller[c][f]
        PROVE  Follows'
    <2>1. \A c \in Callers :
             /\ caller'[c].pc = caller[c].pc /\ caller'[c].key = caller[c].key /\ caller'[c].val = caller[c].val
             /\ caller'[c].changed = caller[c].changed /\ caller'[c].gone = caller[c].gone
             /\ caller'[c].define = caller[c].define /\ caller'[c].apps = caller[c].apps
      BY <1>2 DEF CallerFields
    <2>2. /\ AllSuit' <=> AllSuit
          /\ CopyIsKept' <=> CopyIsKept
      BY <1>w, <1>2 DEF AllSuit, CopyIsKept, Suits, Clean
    <2>3. \A c \in Callers : Setting(c)' <=> Setting(c)
      BY <2>1 DEF Setting
    <2>4. ASSUME NEW c \in Callers, LogsChange(c) PROVE LogsChange(c)'
      <3>1. /\ \A d : Applying(c, d)' <=> Applying(c, d)
            /\ \A d : Suits(logger[d.name], d)' <=> Suits(logger[d.name], d)
            /\ \A n : (Dismissing(c, n)' <=> Dismissing(c, n)) /\ (Clean(n)' <=> Clean(n))
        BY <1>w, <1>2, <2>1 DEF Applying, Dismissing, Suits, Clean
      <3>2. \A d \in caller[c].val : d \in caller[c].changed \/ Applying(c, d)' \/ Suits(logger[d.name], d)'
        BY <2>4, <3>1 DEF LogsChange
      <3>3. \A n \in Loggers \ NamesOf(caller[c].val) : n \in caller[c].gone \/ Dismissing(c, n)' \/ Clean(n)'
        BY <2>4, <3>1 DEF LogsChange
      <3> QED
        BY <2>1, <2>4, <3>2, <3>3 DEF LogsChange, Rebuilding
    <2> QED
      BY <1>2, <2>1, <2>2, <2>3, <2>4 DEF Follows
  <1>3. CASE UNCHANGED vars
    BY <1>2, <1>3 DEF vars
  <1>4. CASE Write
    BY <1>2, <1>4 DEF Write, Shape, CallerFields
  <1>5. ASSUME NEW e \in Events, LogStep(e) PROVE Follows'
    BY <1>2, <1>5 DEF LogStep, Log, WriteOwn, WriteRoot
  <1>6. ASSUME NEW n \in Loggers, NEW p \in Patterns[world.patterns], Reformat(n, p)
        PROVE  Follows'
    <2>1. UNCHANGED <<caller, var, cached>> /\ logger' = [logger EXCEPT ![n] = SetFormatter(logger[n], p)]
      BY <1>6 DEF Reformat
    <2>2. /\ Tags(SetFormatter(logger[n], p)) = Tags(logger[n])
          /\ SetFormatter(logger[n], p).level = logger[n].level
      BY SetFormatterIs DEF Rows
    <2>3. \A m \in Loggers : Tags(logger'[m]) = Tags(logger[m]) /\ logger'[m].level = logger[m].level
      BY <2>1, <2>2 DEF Shape
    <2>4. \A d : d.name \in Loggers => (Suits(logger[d.name], d)' <=> Suits(logger[d.name], d))
      BY <1>w, <2>3 DEF Suits
    <2>5. \A m \in Loggers : Clean(m)' <=> Clean(m)
      BY <2>3 DEF Clean
    <2>6. (AllSuit => AllSuit') /\ (CopyIsKept => CopyIsKept')
      BY <2>1, <2>4, <2>5 DEF AllSuit, CopyIsKept, Follows, Named, NamesOf
    <2>7. \A c \in Callers : LogsChange(c) => LogsChange(c)'
      <3> SUFFICES ASSUME NEW c \in Callers, LogsChange(c) PROVE LogsChange(c)'
        OBVIOUS
      <3>1. \A d \in caller[c].val : d.name \in Loggers
        BY DEF LogsChange, Named, NamesOf
      <3>2. \A d \in caller[c].val : d \in caller[c].changed \/ Applying(c, d)' \/ Suits(logger[d.name], d)'
        BY <2>1, <2>3, <2>4, <3>1 DEF LogsChange, Applying
      <3>3. \A m \in Loggers \ NamesOf(caller[c].val) : m \in caller[c].gone \/ Dismissing(c, m)' \/ Clean(m)'
        BY <2>1, <2>5 DEF LogsChange, Dismissing
      <3> QED
        BY <2>1, <3>2, <3>3 DEF LogsChange, Rebuilding
    <2>8. \A c \in Callers : Setting(c)' <=> Setting(c)
      BY <2>1 DEF Setting
    <2> QED
      BY <2>1, <2>6, <2>7, <2>8 DEF Follows
  <1>7. ASSUME NEW c \in Callers, LoadStep(c) \/ SetStep(c) \/ ModuleStep(c)
        PROVE  Follows'
    <2>1. c \in world.callers \cap Callers
      BY <1>7, Acting
    <2>2. CASE \/ LoadStep(c) \/ (\E k \in Keys : \E text \in world.texts[k] : Sets(c, k, text)) \/ MemberSkipped(c)
               \/ (ModuleStep(c) /\ ~\E m \in world.modules : LoadLibrary(c, m))
      <3>1. /\ ~Setting(c) /\ caller'[c].pc \notin Listening \cup {"assign"}
            /\ Moves(c) /\ UNCHANGED <<world, var, logger, cached>>
        BY <2>2, NoneSets
      <3> QED
        BY <2>1, <3>1, StepKeeps, FollowsQuiet DEF Moves
    <2>3. ASSUME NEW m, LoadLibrary(c, m) PROVE Follows'
      BY <2>1, <2>3, FollowsLibrary
    <2>4. CASE MemberChanged(c)
      BY <2>1, <2>4, FollowsChanged
    <2>5. CASE Notify(c)
      BY <2>1, <2>5, FollowsTurn, FollowsLevel, FollowsFormatter, FollowsClear, FollowsAdd DEF Notify
    <2>6. CASE Notified(c)
      BY <2>1, <2>6, FollowsNotified
    <2>7. CASE Assign(c)
      BY <2>1, <2>7, FollowsAssign
    <2> QED
      BY <1>7, <2>2, <2>3, <2>4, <2>5, <2>6, <2>7 DEF SetStep
  <1> QED
    BY <1>3, <1>4, <1>5, <1>6, <1>7 DEF Next

(* Loggers and copies follow the configuration (log.cpp:714-778,           *)
(* hook.cpp:62).                                                           *)
THEOREM ConfigurationIsFollowed == Spec => []LoggersFollow
  <1>1. Setters /\ FollowsInv => LoggersFollow
    <2> SUFFICES ASSUME Setters, Follows, \A c \in Callers : caller[c].pc \notin Listening \cup {"assign"}
                 PROVE  /\ \A d \in var["logs"] :
                              /\ logger[d.name].level = d.level
                              /\ Patterns[world.patterns] = {} /\ d.formatter # <<>> /\ ~Formatter!IsError(d.formatter)
                                    => logger[d.name].pattern = d.formatter
                        /\ \A n \in Loggers \ {d.name : d \in var["logs"]} :
                              \A a \in ToSet(logger[n].apps) : a.by = None
                        /\ var["timeout"] # None => cached = var["timeout"]
      BY DEF FollowsInv, LoggersFollow
    <2>1. \A c \in Callers : ~Setting(c)
      BY DEF Setting
    <2>2. AllSuit /\ CopyIsKept
      BY <2>1 DEF Follows
    <2>3. \A n : Clean(n) => \A a \in ToSet(logger[n].apps) : a.by = None
      BY DEF Clean, Tags
    <2> QED
      BY <2>2, <2>3 DEF AllSuit, CopyIsKept, Suits, NamesOf
  <1> QED
    BY <1>1, ShapeInit, SettersInit, UnmixedInit, MembersInit, FollowsInit,
       ShapeNext, SettersNext, UnmixedNext, MembersNext, FollowsNext, PTL DEF Spec

-----------------------------------------------------------------------------
(* Loads. A load whose due is not empty began after the last edit of the   *)
(* file, so that what it reads is what the file contains.                  *)
Busy == {"keys", "assign"} \cup Listening

Timed(x) ==
    /\ x.mtime \in Nat /\ x.mtime <= file.mtime
    /\ x.due \subseteq {k \in Keys : var[k] # None}
    /\ x.due # {} => x.mtime = file.mtime /\ world.known \subseteq x.due
    /\ x.pc = "check" /\ x.due = {} => x.mtime < file.mtime \/ file.noted
    /\ x.pc = "check" /\ ~x.force => x.due \subseteq world.known /\ (x.due # {} => ~file.noted)
    /\ x.pc \notin Busy => x.todo = <<>>

Times ==
    /\ file.mtime \in Nat /\ seen \in Nat /\ seen <= file.mtime
    /\ world.known \cup fresh \subseteq {k \in Keys : var[k] # None}
    /\ \A c \in Callers : Timed(caller[c])

Untouched == {k \in Keys : world.texts[k] = {}}

Given(k) == {m \in ToSet(file.root) : Listed(m) /\ m.key = PathOf(k)}

Conforms(k, m) == LET v == FromString(k, m.text) IN v = None \/ SameValue(k, v, var[k])

Served(k) == \A m \in Given(k) : Conforms(k, m)

(* What a caller is about to assign comes from this member.                *)
Gives(c, k, m) == Setting(c) /\ caller[c].key = k /\ caller[c].val = FromString(k, m.text)

(* The file was edited after this load began, or in a second noted before. *)
Stale(c) == caller[c].due = {} /\ fresh = {} /\ (file.noted \/ seen # file.mtime)

(* When the file has been loaded since its last edit, or is known to be no *)
(* newer than what was loaded, every variable has the file's value, or the *)
(* load that will see to it is under way; and no load that began before    *)
(* the edit is mistaken for one that began after it.                       *)
Serves ==
    /\ file.ok => \A k \in fresh \cap Untouched : Served(k)
    /\ file.ok /\ ~file.noted /\ seen = file.mtime =>
          \A k \in world.known \cap Untouched :
             Served(k) \/ \E c \in Callers : caller[c].pc \in Busy \cup {"read"} /\ caller[c].due # {}
    /\ \A c \in Callers : \A k \in Untouched :
          /\ \A m \in ToSet(caller[c].todo) : m.key = PathOf(k) => m \in ToSet(file.root) \/ Stale(c)
          /\ Setting(c) /\ caller[c].key = k => (\E m \in Given(k) : Gives(c, k, m)) \/ Stale(c)
    /\ \A c \in Callers : file.ok /\ caller[c].pc \in Busy =>
          \A k \in caller[c].due \cap Untouched : \A m \in Given(k) :
             m \in ToSet(caller[c].todo) \/ Conforms(k, m) \/ Gives(c, k, m)

ServesInv == Alone => Serves

LEMMA TimesInit == Init => Times
  <1> SUFFICES ASSUME Init
               PROVE  Times
    OBVIOUS
  <1>1. /\ file.mtime = 1 /\ seen = 0 /\ fresh = {} /\ world \in Worlds /\ file.noted = FALSE
        /\ \A k \in Keys : var[k] = IF k \in world.known THEN DefaultOf(k) ELSE None
    BY DEF Init
  <1>2. \A c \in Callers : /\ caller[c].mtime = 0 /\ caller[c].due = {} /\ caller[c].pc = "idle"
                           /\ caller[c].todo = <<>>
    BY DEF Init, Resting
  <1>3. \A k \in Keys : DefaultOf(k) # None
    BY NoneAssumption DEF DefaultOf
  <1>4. world.known \subseteq Keys
    BY <1>1, WorldsAssumption
  <1>5. world.known \cup fresh \subseteq {k \in Keys : var[k] # None}
    BY <1>1, <1>3, <1>4
  <1>6. ASSUME NEW c \in Callers PROVE Timed(caller[c])
    <2>1. caller[c].mtime = 0 /\ caller[c].due = {} /\ caller[c].pc = "idle" /\ caller[c].todo = <<>>
      BY <1>2
    <2> QED
      BY <1>1, <2>1 DEF Timed
  <1> QED
    BY <1>1, <1>5, <1>6 DEF Times

(* Variables that exist stay.                                              *)
LEMMA VariablesStay ==
    ASSUME Shape, Setters, Next
    PROVE  \A k \in Keys : var[k] # None => var'[k] # None
  <1>1. ASSUME NEW c \in Callers, SetStep(c) PROVE \A k \in Keys : var[k] # None => var'[k] # None
    <2>1. CASE Assign(c)
      BY <2>1 DEF Assign, Store, Setters, Setting, Shape
    <2>2. ~Assign(c) => var' = var
      BY <1>1 DEF SetStep, Sets, MemberSkipped, MemberChanged, Notify, NotifyNext, NotifyLevel, NotifyFormatter,
                  NotifyClear, NotifyAdd, Rebuilds, Notified
    <2> QED
      BY <2>1, <2>2
  <1>2. ASSUME NEW c \in Callers, ModuleStep(c) PROVE \A k \in Keys : var[k] # None => var'[k] # None
    BY <1>2, DelMoves DEF ModuleStep, Dels, LoadLibrary, Lookup, LoadsAgain, LoadBegins, AddInserts, DelAllBegins, Shape
  <1> QED
    BY <1>1, <1>2, LoadMoves DEF Next, Write, LogStep, Log, WriteOwn, WriteRoot, Reformat

LEMMA TimesStep ==
    ASSUME Shape, Times, UNCHANGED <<world, file>>, \A k \in Keys : var[k] # None => var'[k] # None,
           NEW c \in Callers, NEW next, DOMAIN next = CallerFields, Step(c, next),
           seen' \in {seen, caller[c].mtime}, fresh' \subseteq fresh \cup caller[c].due, Timed(next)
    PROVE  Times'
  <1>1. \A d \in Callers : caller'[d] = IF d = c THEN next ELSE caller[d]
    BY StepKeeps
  <1>2. \A x : Timed(x) => Timed(x)'
    BY DEF Timed
  <1>3. \A d \in Callers : Timed(caller'[d])
    BY <1>1 DEF Times
  <1>4. \A d \in Callers : Timed(caller[d])'
    BY <1>3 DEF Timed
  <1>5. Timed(caller[c])
    BY DEF Times
  <1> QED
    BY <1>4, <1>5 DEF Times, Timed

(* A caller that goes on with what it had.                                 *)
LEMMA TimedOn ==
    ASSUME Times, NEW c \in Callers, NEW next, next.mtime = caller[c].mtime, next.due = caller[c].due,
           next.pc # "check", next.pc \in Busy \/ next.todo = <<>>
    PROVE  Timed(next)
  BY DEF Times, Timed

LEMMA TimedResting ==
    ASSUME Times, NEW next, next.mtime = 0, next.due = {}, next.pc # "check", next.pc \in Busy \/ next.todo = <<>>
    PROVE  Timed(next)
  BY DEF Times, Timed

LEMMA TimesLoad ==
    ASSUME Shape, Setters, Times, NEW c \in Callers, LoadStep(c)
    PROVE  Times'
  <1>0. UNCHANGED <<world, file, var>>
    BY LoadMoves
  <1>1. DOMAIN caller[c] = CallerFields /\ Timed(caller[c])
    BY DEF Shape, Times
  <1>2. Timed(Finished(c))
    <2>1. /\ Finished(c).mtime = 0 /\ Finished(c).due = {} /\ Finished(c).pc # "check" /\ Finished(c).todo = <<>>
      BY DEF Finished, Resting
    <2> HIDE DEF Finished
    <2> QED
      BY <2>1, TimedResting
  <1>3. ASSUME Step(c, Finished(c)), seen' = seen, fresh' \subseteq fresh \cup caller[c].due PROVE Times'
    BY <1>0, <1>2, <1>3, FinishedFields, TimesStep
  <1>4. ASSUME NEW force, Loads(c, force) PROVE Times'
    <2> DEFINE due == DueTo(force)
               next == [Resting EXCEPT !.pc = "check", !.force = force, !.path = Env!getAbsolutePath(<<"config">>),
                          !.mtime = file.mtime, !.due = due]
    <2>1. Step(c, next) /\ seen' = seen /\ fresh' = fresh
      BY <1>4 DEF Loads, LoadBegins
    <2>2. /\ DOMAIN next = CallerFields /\ next.mtime = file.mtime /\ next.due = due /\ next.force = force
          /\ next.pc = "check" /\ next.todo = <<>>
      BY DEF Resting, CallerFields
    <2>3. /\ due \subseteq {k \in Keys : var[k] # None}
          /\ due # {} => world.known \subseteq due
          /\ ~force => due \subseteq world.known /\ (due # {} => ~file.noted)
          /\ due = {} => file.noted
      BY WorldsAssumption DEF DueTo, Shape, Times, Keys
    <2>4. Timed(next)
      <3> HIDE DEF next, due
      <3> QED
        BY <2>2, <2>3 DEF Timed, Times
    <2> HIDE DEF next
    <2> QED
      BY <1>0, <2>1, <2>2, <2>4, TimesStep
  <1>5. CASE LoadsNothing(c) \/ LoadEnds(c)
    BY <1>3, <1>5 DEF LoadsNothing, LoadEnds, Ends
  <1>6. CASE LoadChecks(c)
    <2> DEFINE next == [caller[c] EXCEPT !.pc = "read"]
    <2>1. \/ Step(c, Finished(c)) /\ seen' = seen /\ fresh' = fresh \cup caller[c].due
          \/ Step(c, next) /\ seen' = caller[c].mtime /\ fresh' = fresh
      BY <1>6 DEF LoadChecks, Ends
    <2>2. /\ DOMAIN next = CallerFields /\ next.mtime = caller[c].mtime /\ next.due = caller[c].due
          /\ next.pc = "read" /\ next.todo = caller[c].todo
      BY <1>1 DEF CallerFields
    <2>3. caller[c].todo = <<>>
      BY <1>1, <1>6 DEF LoadChecks, Timed, Busy, Listening
    <2> HIDE DEF next
    <2> QED
      BY <1>0, <1>3, <2>1, <2>2, <2>3, TimedOn, TimesStep
  <1>7. CASE LoadReads(c)
    <2> DEFINE next == [caller[c] EXCEPT !.pc = "keys", !.todo = file.root]
    <2>1. \/ Step(c, Finished(c)) /\ seen' = seen /\ fresh' = fresh \cup caller[c].due
          \/ Step(c, next) /\ seen' = seen /\ fresh' = fresh
      BY <1>7 DEF LoadReads, Ends
    <2>2. /\ DOMAIN next = CallerFields /\ next.mtime = caller[c].mtime /\ next.due = caller[c].due
          /\ next.pc \in Busy /\ next.pc # "check"
      BY <1>1 DEF CallerFields, Busy
    <2> HIDE DEF next
    <2> QED
      BY <1>0, <1>3, <2>1, <2>2, TimedOn, TimesStep
  <1> QED
    BY <1>4, <1>5, <1>6, <1>7 DEF LoadStep

LEMMA TimesSet ==
    ASSUME Shape, Setters, Times, \A k \in Keys : var[k] # None => var'[k] # None, NEW c \in Callers, SetStep(c)
    PROVE  Times'
  <1>0. UNCHANGED <<world, file, seen>> /\ fresh' = fresh
    BY SetMoves DEF SetStep, Sets, MemberSkipped, MemberChanged, Notify, NotifyNext, NotifyLevel, NotifyFormatter,
                    NotifyClear, NotifyAdd, Rebuilds, Notified, Assign, Store
  <1>1. DOMAIN caller[c] = CallerFields /\ Timed(caller[c])
    BY DEF Shape, Times
  <1>2. ASSUME NEW next, Step(c, next), DOMAIN next = CallerFields, next.mtime = caller[c].mtime,
               next.due = caller[c].due, next.pc \in Busy
        PROVE  Times'
    <2>1. Timed(next)
      BY <1>2, TimedOn DEF Busy, Listening
    <2> QED
      BY <1>0, <1>2, <2>1, TimesStep
  <1>3. ASSUME NEW k, NEW text, Sets(c, k, text) PROVE Times'
    <2> DEFINE next == [Resting EXCEPT !.pc = "keys", !.todo = <<Member(k, text)>>]
    <2>1. Step(c, next)
      BY <1>3 DEF Sets
    <2>2. DOMAIN next = CallerFields /\ next.mtime = 0 /\ next.due = {} /\ next.pc \in Busy /\ next.pc # "check"
      BY DEF Resting, CallerFields, Busy
    <2> HIDE DEF next
    <2> QED
      BY <1>0, <2>1, <2>2, TimedResting, TimesStep
  <1>4. CASE MemberSkipped(c)
    BY <1>1, <1>2, <1>4 DEF MemberSkipped, Skips, CallerFields, Busy
  <1>5. CASE MemberChanged(c)
    <2>1. PICK k, v, next : Changes(c, Head(caller[c].todo), k, v, next)
      BY <1>5, ChangedIs
    <2> QED
      BY <1>2, <2>1 DEF Changes, Busy, Listening
  <1>6. CASE Notify(c)
    <2>1. CASE NotifyNext(c)
      BY <1>1, <1>2, <2>1 DEF NotifyNext, Turns, CallerFields, Busy, Listening
    <2>2. CASE NotifyLevel(c)
      BY <1>1, <1>2, <2>2 DEF NotifyLevel, Rebuilds, CallerFields, Busy, Listening
    <2>3. CASE NotifyFormatter(c)
      BY <1>1, <1>2, <2>3 DEF NotifyFormatter, Rebuilds, CallerFields, Busy, Listening
    <2>4. CASE NotifyClear(c)
      BY <1>1, <1>2, <2>4 DEF NotifyClear, Rebuilds, CallerFields, Busy, Listening
    <2>5. CASE NotifyAdd(c)
      BY <1>1, <1>2, <2>5 DEF NotifyAdd, CallerFields, Busy, Listening
    <2> QED
      BY <1>6, <2>1, <2>2, <2>3, <2>4, <2>5 DEF Notify
  <1>7. CASE Notified(c)
    BY <1>1, <1>2, <1>7 DEF Notified, CallerFields, Busy
  <1>8. CASE Assign(c)
    BY <1>1, <1>2, <1>8 DEF Assign, Store, CallerFields, Busy
  <1> QED
    BY <1>3, <1>4, <1>5, <1>6, <1>7, <1>8 DEF SetStep

LEMMA TimesModule ==
    ASSUME Shape, Setters, Times, \A k \in Keys : var[k] # None => var'[k] # None, NEW c \in Callers, ModuleStep(c)
    PROVE  Times'
  <1>0. UNCHANGED <<world, file, seen, fresh>>
    BY ModuleMoves
  <1>1. DOMAIN caller[c] = CallerFields /\ Timed(caller[c])
    BY DEF Shape, Times
  <1>2. ASSUME NEW next, Step(c, next), DOMAIN next = CallerFields, next.mtime = 0, next.due = {},
               next.pc # "check", next.todo = <<>>
        PROVE  Times'
    BY <1>0, <1>2, TimedResting, TimesStep
  <1>3. ASSUME NEW m, LoadLibrary(c, m) PROVE Times'
    BY <1>2, <1>3 DEF LoadLibrary, Resting, CallerFields
  <1>4. CASE LoadsAgain(c)
    <2> DEFINE due == DueTo(TRUE)
               next == [caller[c] EXCEPT !.pc = "check", !.force = TRUE,
                          !.path = Env!getAbsolutePath(Env!getConfigPath(Args)), !.mtime = file.mtime, !.due = due]
    <2>1. Step(c, next) /\ caller[c].pc = "loaded"
      BY <1>4 DEF LoadsAgain, LoadBegins
    <2>2. /\ DOMAIN next = CallerFields /\ next.mtime = file.mtime /\ next.due = due /\ next.force = TRUE
          /\ next.pc = "check" /\ next.todo = caller[c].todo
      BY <1>1 DEF CallerFields
    <2>3. world.known \subseteq due /\ due \subseteq {k \in Keys : var[k] # None} /\ "logs" \in due
      BY WorldsAssumption DEF DueTo, Shape, Times, Keys
    <2>4. Timed(next)
      <3>1. caller[c].todo = <<>>
        BY <1>1, <2>1 DEF Timed, Busy, Listening
      <3> HIDE DEF next, due
      <3> QED
        BY <2>2, <2>3, <3>1 DEF Timed, Times
    <2> HIDE DEF next
    <2> QED
      BY <1>0, <2>1, <2>2, <2>4, TimesStep
  (* Where del() is called from and returns to. *)
  <1>5. CASE Dels(c)
    <2>1. /\ Step(c, caller'[c]) /\ DOMAIN caller'[c] = CallerFields
          /\ caller[c].pc \in {"idle", "del", "delall", "unload"}
          /\ caller'[c].pc \in {"idle", "insert", "delall", "unload"}
          /\ \/ caller'[c].mtime = 0 /\ caller'[c].due = {} /\ caller'[c].todo = <<>>
             \/ /\ caller'[c].mtime = caller[c].mtime /\ caller'[c].due = caller[c].due
                /\ caller'[c].todo = caller[c].todo
      BY <1>5, DelMoves
    <2>2. caller[c].todo = <<>>
      BY <1>1, <2>1 DEF Timed, Busy, Listening
    <2>3. PICK next : next = caller'[c]
      OBVIOUS
    <2>4. Timed(next)
      BY <2>1, <2>2, <2>3, TimedOn, TimedResting
    <2> QED
      BY <1>0, <2>1, <2>3, <2>4, TimesStep
  <1>6. CASE AddInserts(c)
    BY <1>2, <1>6, RestingFields DEF AddInserts, Resting
  <1>7. CASE DelAllBegins(c)
    BY <1>2, <1>7 DEF DelAllBegins, Resting, CallerFields
  <1> QED
    BY <1>3, <1>4, <1>5, <1>6, <1>7 DEF ModuleStep, Dels

LEMMA TimesNext == Shape /\ Setters /\ Times /\ [Next]_vars => Times'
  <1> SUFFICES ASSUME Shape, Setters, Times, [Next]_vars
               PROVE  Times'
    OBVIOUS
  <1>1. CASE UNCHANGED <<world, file, seen, fresh, var, caller>>
    BY <1>1 DEF Times, Timed
  <1>2. CASE Write
    <2>1. /\ UNCHANGED <<world, seen, var>> /\ fresh' = {}
          /\ file'.mtime \in {file.mtime, file.mtime + 1} /\ file'.noted = Noted(file'.mtime)
      BY <1>2 DEF Write
    <2>2. ASSUME NEW c \in Callers
          PROVE  /\ caller'[c].due = {} /\ caller'[c].mtime = caller[c].mtime /\ caller'[c].pc = caller[c].pc
                 /\ caller'[c].todo = caller[c].todo
      BY <1>2 DEF Write, Shape, CallerFields
    <2>3. ASSUME NEW c \in Callers, caller[c].pc = "check" PROVE caller[c].mtime < file'.mtime \/ file'.noted
      <3>1. Timed(caller[c]) /\ file.mtime \in Nat
        BY DEF Times
      <3>2. caller[c].mtime = file'.mtime => file'.noted
        BY <2>1, <2>3 DEF Noted
      <3> QED
        BY <2>1, <3>1, <3>2 DEF Timed
    <2>4. file'.noted \in BOOLEAN
      BY <2>1 DEF Noted
    <2>5. \A c \in Callers : Timed(caller[c])'
      BY <2>1, <2>2, <2>3 DEF Times, Timed
    <2> QED
      BY <2>1, <2>4, <2>5 DEF Times
  <1> QED
    BY <1>1, <1>2, VariablesStay, TimesLoad, TimesSet, TimesModule
    DEF Next, vars, LogStep, Log, WriteOwn, WriteRoot, Reformat

LEMMA ServesInit == Init => ServesInv
  <1> SUFFICES ASSUME Init
               PROVE  Serves
    BY DEF ServesInv
  <1>1. file.mtime = 1 /\ seen = 0 /\ fresh = {} /\ ToSet(file.root) = {}
    BY EmptyIs DEF Init
  <1>2. \A c \in Callers : /\ caller[c].due = {} /\ caller[c].pc = "idle" /\ ToSet(caller[c].todo) = {}
    BY EmptyIs DEF Init, Resting
  <1> QED
    BY <1>1, <1>2 DEF Serves, Setting, Busy, Listening

(* A step of the only caller: what has to hold afterwards.                 *)
LEMMA ServesStep ==
    ASSUME Shape, Setters, Alone, Times, UNCHANGED <<world, file>>,
           NEW c \in world.callers \cap Callers, NEW next, DOMAIN next = CallerFields, Step(c, next),
           file.ok => \A k \in fresh' \cap Untouched : Served(k)',
           file.ok /\ ~file.noted /\ seen' = file.mtime =>
              \A k \in world.known \cap Untouched : Served(k)' \/ (next.pc \in Busy \cup {"read"} /\ next.due # {}),
           \A k \in Untouched : \A m \in ToSet(next.todo) :
              m.key = PathOf(k) => m \in ToSet(file.root) \/ (next.due = {} /\ fresh' = {} /\ (file.noted \/ seen' # file.mtime)),
           \A k \in Untouched : next.pc \in Listening \cup {"assign"} /\ next.key = k =>
              (\E m \in Given(k) : next.val = FromString(k, m.text))
              \/ (next.due = {} /\ fresh' = {} /\ (file.noted \/ seen' # file.mtime)),
           file.ok /\ next.pc \in Busy => \A k \in next.due \cap Untouched : \A m \in Given(k) :
              \/ m \in ToSet(next.todo)
              \/ Conforms(k, m)'
              \/ next.pc \in Listening \cup {"assign"} /\ next.key = k /\ next.val = FromString(k, m.text)
    PROVE  Serves'
  <1>1. \A d \in Callers : caller'[d] = IF d = c THEN next ELSE caller[d]
    BY StepKeeps
  <1>2. ASSUME NEW d \in Callers, d # c
        PROVE  caller'[d].pc = "idle" /\ ToSet(caller'[d].todo) = {}
    <2>1. caller[d].pc = "idle"
      BY <1>2, Sole
    <2>2. caller[d].todo = <<>>
      BY <2>1 DEF Times, Timed, Busy, Listening
    <2> QED
      BY <1>1, <1>2, <2>1, <2>2, EmptyIs
  <1>3. caller'[c] = next
    BY <1>1
  <1>4. \A d \in Callers : (Setting(d)' \/ caller'[d].pc \in Busy \cup {"read"} \/ ToSet(caller'[d].todo) # {}) => d = c
    BY <1>2 DEF Setting, Busy, Listening
  <1>5. Untouched' = Untouched /\ \A k : Given(k)' = Given(k)
    BY DEF Untouched, Given
  <1>6. Setting(c)' <=> next.pc \in Listening \cup {"assign"}
    BY <1>3 DEF Setting
  <1>7. \A k, m : Gives(c, k, m)' <=> (next.pc \in Listening \cup {"assign"} /\ next.key = k /\ next.val = FromString(k, m.text))
    BY <1>3, <1>6 DEF Gives
  <1>8. Stale(c)' <=> (next.due = {} /\ fresh' = {} /\ (file.noted \/ seen' # file.mtime))
    BY <1>3 DEF Stale
  <1>a. file'.ok => \A k \in fresh' \cap Untouched' : Served(k)'
    BY <1>5
  <1>b. file'.ok /\ ~file'.noted /\ seen' = file'.mtime =>
          \A k \in world'.known \cap Untouched' :
             Served(k)' \/ \E d \in Callers : caller'[d].pc \in Busy \cup {"read"} /\ caller'[d].due # {}
    BY <1>3, <1>5
  <1>c. ASSUME NEW d \in Callers, NEW k \in Untouched'
        PROVE  /\ \A m \in ToSet(caller'[d].todo) : m.key = PathOf(k) => m \in ToSet(file'.root) \/ Stale(d)'
               /\ Setting(d)' /\ caller'[d].key = k => (\E m \in Given(k)' : Gives(d, k, m)') \/ Stale(d)'
    <2>1. CASE d = c
      <3>1. \A m \in ToSet(caller'[d].todo) : m.key = PathOf(k) => m \in ToSet(file'.root) \/ Stale(d)'
        BY <1>3, <1>5, <1>8, <2>1
      <3>2. Setting(d)' /\ caller'[d].key = k => (\E m \in Given(k)' : Gives(d, k, m)') \/ Stale(d)'
        BY <1>3, <1>5, <1>6, <1>7, <1>8, <2>1
      <3> QED
        BY <3>1, <3>2
    <2>2. CASE d # c
      BY <1>4, <2>2
    <2> QED
      BY <2>1, <2>2
  <1>d. ASSUME NEW d \in Callers, file'.ok, caller'[d].pc \in Busy,
               NEW k \in caller'[d].due \cap Untouched', NEW m \in Given(k)'
        PROVE  m \in ToSet(caller'[d].todo) \/ Conforms(k, m)' \/ Gives(d, k, m)'
    <2>1. d = c
      BY <1>4, <1>d
    <2> QED
      BY <1>3, <1>5, <1>7, <1>d, <2>1
  <1> QED
    BY <1>a, <1>b, <1>c, <1>d DEF Serves

(* What is known while nothing is being loaded.                            *)
LEMMA ServedAtRest ==
    ASSUME Shape, Setters, Alone, Times, Serves, NEW c \in world.callers \cap Callers,
           caller[c].pc \notin Busy \cup {"read"}
    PROVE  /\ caller[c].todo = <<>> /\ ToSet(caller[c].todo) = {}
           /\ file.ok => \A k \in fresh \cap Untouched : Served(k)
           /\ file.ok /\ ~file.noted /\ seen = file.mtime => \A k \in world.known \cap Untouched : Served(k)
  <1>1. \A d \in Callers : caller[d].pc \notin Busy \cup {"read"}
    BY Sole DEF Busy, Listening
  <1> QED
    BY <1>1, EmptyIs DEF Serves, Times, Timed

(* A step that begins or ends outside a load, and changes no variable that *)
(* exists.                                                                 *)
LEMMA ServesQuiet ==
    ASSUME Shape, Setters, Alone, Times, Serves, UNCHANGED <<world, file, seen, fresh>>,
           NEW c \in world.callers \cap Callers, NEW next, DOMAIN next = CallerFields, Step(c, next),
           caller[c].pc \notin Busy \cup {"read"}, next.pc \notin Busy, next.todo = <<>>,
           \A k \in Keys : var[k] # None => var'[k] = var[k]
    PROVE  Serves'
  <1>1. /\ file.ok => \A k \in fresh \cap Untouched : Served(k)
        /\ file.ok /\ ~file.noted /\ seen = file.mtime => \A k \in world.known \cap Untouched : Served(k)
    BY ServedAtRest
  <1>2. \A k \in fresh \cup world.known : Served(k) => Served(k)'
    <2>1. \A k \in fresh \cup world.known : var'[k] = var[k]
      BY DEF Times
    <2>2. \A k : Given(k)' = Given(k)
      BY DEF Given
    <2>3. \A k \in fresh \cup world.known : \A m : Conforms(k, m)' <=> Conforms(k, m)
      BY <2>1 DEF Conforms
    <2> QED
      BY <2>2, <2>3 DEF Served
  <1>3. ToSet(next.todo) = {}
    BY EmptyIs
  <1>4. next.pc \notin Listening \cup {"assign"}
    BY DEF Busy
  <1> QED
    BY <1>1, <1>2, <1>3, <1>4, ServesStep

LEMMA ServesLoad ==
    ASSUME Shape, Setters, Alone, Times, Serves, NEW c \in world.callers \cap Callers, LoadStep(c)
    PROVE  Serves'
  <1>0. UNCHANGED <<world, file, var>>
    BY LoadMoves
  <1>1. DOMAIN caller[c] = CallerFields /\ Timed(caller[c])
    BY DEF Shape, Times
  <1>f. /\ DOMAIN Finished(c) = CallerFields /\ Finished(c).pc \in {"idle", "del"} /\ Finished(c).due = {}
        /\ Finished(c).todo = <<>>
    BY FinishedFields DEF Finished, Resting
  <1>s. \A k : /\ Served(k)' <=> Served(k)
               /\ \A m : Conforms(k, m)' <=> Conforms(k, m)
    <2>1. \A k : Given(k)' = Given(k)
      BY <1>0 DEF Given
    <2>2. \A k, m : Conforms(k, m)' <=> Conforms(k, m)
      BY <1>0 DEF Conforms
    <2> QED
      BY <2>1, <2>2 DEF Served
  (* A load ends, and what it was to do is done. *)
  <1>2. ASSUME Step(c, Finished(c)), seen' = seen, fresh' = fresh \cup caller[c].due,
               file.ok => \A k \in caller[c].due \cap Untouched : Served(k)
        PROVE  Serves'
    <2> DEFINE next == Finished(c)
    <2>1. file.ok => \A k \in fresh' \cap Untouched : Served(k)'
      BY <1>2, <1>s DEF Serves
    <2>2. file.ok /\ ~file.noted /\ seen = file.mtime => \A k \in world.known \cap Untouched : Served(k)'
      <3> SUFFICES ASSUME file.ok, ~file.noted, seen = file.mtime, NEW k \in world.known \cap Untouched PROVE Served(k)'
        OBVIOUS
      <3>1. Served(k) \/ \E d \in Callers : caller[d].pc \in Busy \cup {"read"} /\ caller[d].due # {}
        BY DEF Serves
      <3>2. ASSUME NEW d \in Callers, caller[d].pc \in Busy \cup {"read"}, caller[d].due # {} PROVE Served(k)
        <4>1. d = c
          BY <3>2, Sole DEF Busy, Listening
        <4>2. k \in caller[c].due
          BY <1>1, <3>2, <4>1 DEF Timed
        <4> QED
          BY <1>2, <4>2
      <3> QED
        BY <1>s, <3>1, <3>2
    <2>3. ToSet(next.todo) = {} /\ next.pc \notin Busy /\ next.pc \notin Listening \cup {"assign"}
      BY <1>f, EmptyIs DEF Busy, Listening
    <2> HIDE DEF next
    <2>4. DOMAIN next = CallerFields /\ Step(c, next)
      BY <1>2, <1>f DEF next
    <2> QED
      BY <1>0, <1>2, <2>1, <2>2, <2>3, <2>4, ServesStep
  <1>3. ASSUME NEW force, Loads(c, force) PROVE Serves'
    <2> DEFINE due == DueTo(force)
               next == [Resting EXCEPT !.pc = "check", !.force = force, !.path = Env!getAbsolutePath(<<"config">>),
                          !.mtime = file.mtime, !.due = due]
    <2>1. Step(c, next) /\ seen' = seen /\ fresh' = fresh /\ caller[c].pc = "idle"
      BY <1>3 DEF Loads, LoadBegins
    <2>2. DOMAIN next = CallerFields /\ next.pc = "check" /\ next.todo = <<>>
      BY DEF Resting, CallerFields
    <2> HIDE DEF next
    <2> QED
      BY <1>0, <2>1, <2>2, ServesQuiet DEF Busy, Listening
  <1>4. CASE LoadsNothing(c)
    BY <1>0, <1>4, <1>f, ServesQuiet DEF LoadsNothing, Busy, Listening
  <1>5. CASE LoadChecks(c)
    <2> DEFINE next == [caller[c] EXCEPT !.pc = "read"]
    <2>0. caller[c].pc = "check" /\ caller[c].todo = <<>>
      BY <1>1, <1>5 DEF LoadChecks, Timed, Busy, Listening
    <2>1. CASE ~caller[c].force /\ seen = caller[c].mtime /\ Ends(c) /\ seen' = seen
      <3>1. ASSUME file.ok, NEW k \in caller[c].due \cap Untouched PROVE Served(k)
        <4>1. seen = file.mtime /\ ~file.noted /\ k \in world.known
          BY <1>1, <2>0, <2>1 DEF Timed
        <4> QED
          BY <2>0, <3>1, <4>1, ServedAtRest DEF Busy, Listening
      <3> QED
        BY <1>2, <2>1, <3>1 DEF Ends
    <2>2. CASE Step(c, next) /\ seen' = caller[c].mtime /\ fresh' = fresh
      <3>1. /\ DOMAIN next = CallerFields /\ next.pc = "read" /\ next.due = caller[c].due
            /\ next.todo = caller[c].todo
        BY <1>1 DEF CallerFields
      <3> HIDE DEF next
      <3>2. ~file.noted /\ seen' = file.mtime => next.due # {}
        BY <1>1, <2>0, <2>2, <3>1 DEF Timed, Times
      <3>3. ToSet(next.todo) = {} /\ next.pc \notin Busy /\ next.pc \notin Listening \cup {"assign"}
        BY <2>0, <3>1, EmptyIs DEF Busy, Listening
      <3>4. file.ok => \A k \in fresh' \cap Untouched : Served(k)'
        BY <1>s, <2>2 DEF Serves
      <3> QED
        BY <1>0, <2>2, <3>1, <3>2, <3>3, <3>4, ServesStep
    <2>3. \/ ~caller[c].force /\ seen = caller[c].mtime /\ Ends(c) /\ seen' = seen
          \/ Step(c, next) /\ seen' = caller[c].mtime /\ fresh' = fresh
      BY <1>5 DEF LoadChecks
    <2> QED
      BY <2>1, <2>2, <2>3
  <1>6. CASE LoadReads(c)
    <2> DEFINE next == [caller[c] EXCEPT !.pc = "keys", !.todo = file.root]
    <2>1. CASE file.ok /\ Step(c, next) /\ fresh' = fresh /\ seen' = seen /\ caller[c].pc = "read"
      <3>1. /\ DOMAIN next = CallerFields /\ next.pc = "keys" /\ next.due = caller[c].due
            /\ next.todo = file.root
        BY <1>1 DEF CallerFields
      <3> HIDE DEF next
      <3>2. next.pc \in Busy /\ next.pc \notin Listening \cup {"assign"}
        BY <3>1 DEF Busy, Listening
      <3>3. \A k \in fresh' \cap Untouched : Served(k)'
        BY <1>s, <2>1 DEF Serves
      <3>4. ~file.noted /\ seen = file.mtime => \A k \in world.known \cap Untouched : Served(k)' \/ next.due # {}
        <4>1. \A d \in Callers : caller[d].pc \in Busy \cup {"read"} => d = c
          BY Sole DEF Busy, Listening
        <4> QED
          BY <1>s, <2>1, <3>1, <4>1 DEF Serves
      <3>5. \A k : \A m \in Given(k) : m \in ToSet(next.todo)
        BY <3>1 DEF Given
      <3> QED
        BY <1>0, <2>1, <3>1, <3>2, <3>3, <3>4, <3>5, ServesStep
    <2>2. CASE ~file.ok /\ Ends(c) /\ seen' = seen
      BY <1>2, <2>2 DEF Ends
    <2>3. \/ file.ok /\ Step(c, next) /\ fresh' = fresh /\ seen' = seen /\ caller[c].pc = "read"
          \/ ~file.ok /\ Ends(c) /\ seen' = seen
      BY <1>6 DEF LoadReads
    <2> QED
      BY <2>1, <2>2, <2>3
  <1>7. CASE LoadEnds(c)
    <2>1. /\ caller[c].pc = "keys" /\ caller[c].todo = <<>> /\ seen' = seen
          /\ Step(c, Finished(c)) /\ fresh' = fresh \cup caller[c].due
      BY <1>7 DEF LoadEnds, Ends
    <2>2. ASSUME file.ok, NEW k \in caller[c].due \cap Untouched PROVE Served(k)
      <3>1. ASSUME NEW m \in Given(k) PROVE Conforms(k, m)
        <4>1. m \in ToSet(caller[c].todo) \/ Conforms(k, m) \/ Gives(c, k, m)
          BY <2>1, <2>2 DEF Serves, Busy
        <4> QED
          BY <2>1, <4>1, EmptyIs DEF Gives, Setting, Listening
      <3> QED
        BY <3>1 DEF Served
    <2> QED
      BY <1>2, <2>1, <2>2
  <1> QED
    BY <1>3, <1>4, <1>5, <1>6, <1>7 DEF LoadStep

LEMMA PathsDiffer == ASSUME NEW k \in Keys, NEW q \in Keys, PathOf(k) = PathOf(q) PROVE k = q
  BY DEF Keys, PathOf

(* A step within a load, or within a direct call, that changes no variable *)
(* and drops from the list what is not needed any more.                    *)
LEMMA ServesOn ==
    ASSUME Shape, Setters, Alone, Times, Serves, UNCHANGED <<world, file, seen, fresh, var>>,
           NEW c \in world.callers \cap Callers, NEW next, DOMAIN next = CallerFields, Step(c, next),
           caller[c].pc \in Busy, next.pc \in Busy, next.due = caller[c].due,
           ToSet(next.todo) \subseteq ToSet(caller[c].todo),
           \A k \in Untouched : next.pc \in Listening \cup {"assign"} /\ next.key = k =>
              (\E m \in Given(k) : next.val = FromString(k, m.text)) \/ Stale(c),
           file.ok => \A k \in caller[c].due \cap Untouched : \A m \in Given(k) :
              (m \in ToSet(caller[c].todo) \/ Gives(c, k, m)) =>
              \/ m \in ToSet(next.todo)
              \/ Conforms(k, m)
              \/ next.pc \in Listening \cup {"assign"} /\ next.key = k /\ next.val = FromString(k, m.text)
    PROVE  Serves'
  <1>1. \A k : /\ Served(k)' <=> Served(k)
               /\ \A m : Conforms(k, m)' <=> Conforms(k, m)
    <2>1. \A k : Given(k)' = Given(k)
      BY DEF Given
    <2>2. \A k, m : Conforms(k, m)' <=> Conforms(k, m)
      BY DEF Conforms
    <2> QED
      BY <2>1, <2>2 DEF Served
  <1>2. file.ok => \A k \in fresh' \cap Untouched : Served(k)'
    BY <1>1 DEF Serves
  <1>3. file.ok /\ ~file.noted /\ seen' = file.mtime =>
              \A k \in world.known \cap Untouched : Served(k)' \/ (next.pc \in Busy \cup {"read"} /\ next.due # {})
    <2>1. \A d \in Callers : caller[d].pc \in Busy \cup {"read"} => d = c
      BY Sole DEF Busy, Listening
    <2> QED
      BY <1>1, <2>1 DEF Serves
  <1>4. Stale(c) <=> (next.due = {} /\ fresh' = {} /\ (file.noted \/ seen' # file.mtime))
    BY DEF Stale
  <1>5. \A k \in Untouched : \A m \in ToSet(next.todo) :
              m.key = PathOf(k) => m \in ToSet(file.root) \/ (next.due = {} /\ fresh' = {} /\ (file.noted \/ seen' # file.mtime))
    BY <1>4 DEF Serves
  <1>6. file.ok /\ next.pc \in Busy => \A k \in next.due \cap Untouched : \A m \in Given(k) :
              \/ m \in ToSet(next.todo)
              \/ Conforms(k, m)'
              \/ next.pc \in Listening \cup {"assign"} /\ next.key = k /\ next.val = FromString(k, m.text)
    BY <1>1 DEF Serves
  <1> QED
    BY <1>2, <1>3, <1>4, <1>5, <1>6, ServesStep

(* The value that is assigned is that of the file, which gives a key once, *)
(* or the load began before the file was edited.                           *)
LEMMA ServesAssign ==
    ASSUME Shape, Setters, Alone, Members, Times, Serves, NEW c \in world.callers \cap Callers, Assign(c)
    PROVE  Serves'
  <1> DEFINE next == [caller[c] EXCEPT !.pc = "keys", !.key = None, !.val = None, !.old = None, !.by = None]
  <1>p. PICK q, v : q = caller[c].key /\ v = caller[c].val
    OBVIOUS
  <1>1. /\ caller[c].pc = "assign" /\ Setting(c) /\ UNCHANGED <<world, file, seen, fresh>>
        /\ var' = [var EXCEPT ![q] = v] /\ Step(c, next)
    BY <1>p, SetMoves DEF Assign, Store, Setting, SetStep
  <1>2. DOMAIN next = CallerFields /\ next.pc = "keys" /\ next.due = caller[c].due /\ next.todo = caller[c].todo
    BY DEF Shape, CallerFields
  <1>3. q \in Keys
    BY <1>p, <1>1 DEF Setters
  <1>4. \A k \in Keys : var'[k] = IF k = q THEN v ELSE var[k]
    BY <1>1, <1>3 DEF Shape
  <1>5. next.pc \in Busy /\ caller[c].pc \in Busy /\ next.pc \notin Listening \cup {"assign"}
    BY <1>1, <1>2 DEF Busy, Listening
  <1> HIDE DEF next
  <1>6. \A k : Given(k)' = Given(k)
    BY <1>1 DEF Given
  <1>7. ASSUME NEW k \in Keys, k # q
        PROVE  (Served(k)' <=> Served(k)) /\ \A m : Conforms(k, m)' <=> Conforms(k, m)
    <2>1. var'[k] = var[k]
      BY <1>4, <1>7
    <2>2. \A m : Conforms(k, m)' <=> Conforms(k, m)
      BY <2>1 DEF Conforms
    <2> QED
      BY <1>6, <2>2 DEF Served
  <1>8. ASSUME NEW m \in Given(q), v = FromString(q, m.text)
        PROVE  Served(q)'
    <2>1. \A o \in Given(q) : o = m
      BY DEF Given, Members
    <2>2. var'[q] = v
      BY <1>3, <1>4
    <2>3. SameValue(q, v, v)
      BY DEF SameValue, SameDefine
    <2>4. Conforms(q, m)'
      BY <1>8, <2>2, <2>3 DEF Conforms
    <2> QED
      BY <1>6, <2>1, <2>4 DEF Served
  <1>9. Stale(c) <=> (next.due = {} /\ fresh' = {} /\ (file.noted \/ seen' # file.mtime))
    BY <1>1, <1>2 DEF Stale
  <1>10. q \in Untouched => Served(q)' \/ Stale(c)
    <2>1. q \in Untouched => (\E m \in Given(q) : Gives(c, q, m)) \/ Stale(c)
      BY <1>p, <1>1 DEF Serves
    <2> QED
      BY <1>p, <1>8, <2>1 DEF Gives
  <1>u. \A k \in Untouched : k \in Keys
    BY DEF Untouched
  <1>11. file.ok => \A k \in fresh' \cap Untouched : Served(k)'
    <2> SUFFICES ASSUME file.ok, NEW k \in fresh' \cap Untouched PROVE Served(k)'
      OBVIOUS
    <2>1. CASE k = q
      BY <1>9, <1>10, <2>1
    <2>2. CASE k # q
      BY <1>1, <1>7, <1>u, <2>2 DEF Serves
    <2> QED
      BY <2>1, <2>2
  <1>12. file.ok /\ ~file.noted /\ seen' = file.mtime =>
              \A k \in world.known \cap Untouched : Served(k)' \/ (next.pc \in Busy \cup {"read"} /\ next.due # {})
    <2> SUFFICES ASSUME file.ok, ~file.noted, seen' = file.mtime, NEW k \in world.known \cap Untouched
                 PROVE  Served(k)' \/ (next.pc \in Busy \cup {"read"} /\ next.due # {})
      OBVIOUS
    <2>0. \A d \in Callers : caller[d].pc \in Busy \cup {"read"} => d = c
      BY Sole DEF Busy, Listening
    <2>1. CASE k = q
      BY <1>9, <1>10, <2>1
    <2>2. CASE k # q
      BY <1>1, <1>2, <1>5, <1>7, <1>u, <2>0, <2>2 DEF Serves
    <2> QED
      BY <2>1, <2>2
  <1>13. \A k \in Untouched : \A m \in ToSet(next.todo) :
              m.key = PathOf(k) => m \in ToSet(file.root) \/ (next.due = {} /\ fresh' = {} /\ (file.noted \/ seen' # file.mtime))
    BY <1>2, <1>9 DEF Serves
  <1>14. file.ok => \A k \in next.due \cap Untouched : \A m \in Given(k) : m \in ToSet(next.todo) \/ Conforms(k, m)'
    <2> SUFFICES ASSUME file.ok, NEW k \in next.due \cap Untouched, NEW m \in Given(k)
                 PROVE  m \in ToSet(next.todo) \/ Conforms(k, m)'
      OBVIOUS
    <2>1. CASE k = q
      BY <1>2, <1>6, <1>9, <1>10, <2>1 DEF Served
    <2>2. CASE k # q
      <3>1. m \in ToSet(caller[c].todo) \/ Conforms(k, m) \/ Gives(c, k, m)
        BY <1>2, <1>5 DEF Serves
      <3>2. ~Gives(c, k, m)
        BY <1>p, <2>2 DEF Gives
      <3> QED
        BY <1>2, <1>7, <1>u, <2>2, <3>1, <3>2
    <2> QED
      BY <2>1, <2>2
  <1> QED
    BY <1>1, <1>2, <1>5, <1>11, <1>12, <1>13, <1>14, ServesStep

LEMMA ServesSet ==
    ASSUME Shape, Setters, Alone, Members, Times, Serves, NEW c \in world.callers \cap Callers, SetStep(c)
    PROVE  Serves'
  <1>0. DOMAIN caller[c] = CallerFields
    BY DEF Shape
  <1>1. ASSUME NEW k \in Keys, NEW text \in world.texts[k], Sets(c, k, text) PROVE Serves'
    <2> DEFINE m == Member(k, text)
               next == [Resting EXCEPT !.pc = "keys", !.todo = <<m>>]
    <2>1. Step(c, next) /\ caller[c].pc = "idle" /\ UNCHANGED <<world, file, seen, fresh, var>>
      BY <1>1 DEF Sets
    <2>2. DOMAIN next = CallerFields /\ next.pc = "keys" /\ next.due = {} /\ next.todo = <<m>>
      BY DEF Resting, CallerFields
    <2> HIDE DEF next
    <2>3. ToSet(next.todo) = {m}
      BY <2>2, SingleIs
    <2>4. ASSUME NEW q \in Untouched PROVE m.key # PathOf(q)
      <3>1. k \notin Untouched /\ q \in Keys /\ m.key = PathOf(k)
        BY DEF Untouched, Member
      <3> QED
        BY <3>1, PathsDiffer
    <2>5. /\ file.ok => \A q \in fresh \cap Untouched : Served(q)
          /\ file.ok /\ ~file.noted /\ seen = file.mtime => \A q \in world.known \cap Untouched : Served(q)
      BY <2>1, ServedAtRest DEF Busy, Listening
    <2>6. \A q : Served(q)' <=> Served(q)
      BY <2>1 DEF Served, Given, Conforms
    <2>7. next.pc \notin Listening \cup {"assign"}
      BY <2>2 DEF Listening
    <2> HIDE DEF m
    <2> QED
      BY <2>1, <2>2, <2>3, <2>4, <2>5, <2>6, <2>7, ServesStep
  <1>2. CASE MemberSkipped(c)
    <2> DEFINE m == Head(caller[c].todo)
               next == Skips(c)
    <2>1. /\ caller[c].pc = "keys" /\ caller[c].todo # <<>> /\ Step(c, next)
          /\ UNCHANGED <<world, file, seen, fresh, var>>
          /\ \A k \in KeyAt(m) : Conforms(k, m)
      BY <1>2 DEF MemberSkipped, Conforms
    <2>2. /\ DOMAIN next = CallerFields /\ next.pc = caller[c].pc /\ next.due = caller[c].due
          /\ next.todo = Tail(caller[c].todo)
      BY <1>0 DEF Skips, CallerFields
    <2>3. ToSet(caller[c].todo) = {m} \cup ToSet(Tail(caller[c].todo))
      BY <2>1, TailOf DEF Members
    <2>4. ASSUME NEW k \in caller[c].due, NEW o \in Given(k), o = m PROVE Conforms(k, o)
      <3>1. k \in KeyAt(m)
        BY <2>4 DEF KeyAt, Given, Times, Timed
      <3> QED
        BY <2>1, <2>4, <3>1
    <2>5. next.pc \in Busy /\ caller[c].pc \in Busy /\ next.pc \notin Listening \cup {"assign"} /\ ~Setting(c)
      BY <2>1, <2>2 DEF Busy, Listening, Setting
    <2> HIDE DEF next, m
    <2>6. \A k \in caller[c].due : \A o \in Given(k) :
             (o \in ToSet(caller[c].todo) \/ Gives(c, k, o)) => o \in ToSet(next.todo) \/ Conforms(k, o)
      BY <2>2, <2>3, <2>4, <2>5 DEF Gives
    <2> QED
      BY <2>1, <2>2, <2>3, <2>5, <2>6, ServesOn
  <1>3. CASE MemberChanged(c)
    <2> DEFINE m == Head(caller[c].todo)
    <2>1. /\ caller[c].pc = "keys" /\ caller[c].todo # <<>>
          /\ UNCHANGED <<world, file, seen, fresh, var>>
      BY <1>3, ChangedIs
    <2>2. PICK q, v, next : Changes(c, m, q, v, next)
      BY <1>3, ChangedIs
    <2>3. /\ q \in Keys /\ Listed(m) /\ m.key = PathOf(q) /\ v = FromString(q, m.text)
          /\ Step(c, next) /\ DOMAIN next = CallerFields /\ next.pc = "notify" /\ next.key = q /\ next.val = v
          /\ next.due = caller[c].due /\ next.todo = Tail(caller[c].todo)
      BY <2>2 DEF Changes
    <2>4. ToSet(caller[c].todo) = {m} \cup ToSet(Tail(caller[c].todo))
      BY <2>1, TailOf DEF Members
    <2>5. /\ next.pc \in Busy /\ caller[c].pc \in Busy /\ next.pc \in Listening \cup {"assign"} /\ ~Setting(c)
      BY <2>1, <2>3 DEF Busy, Listening, Setting
    <2> HIDE DEF m
    <2>6. ASSUME NEW k \in Untouched, next.key = k
          PROVE  (\E o \in Given(k) : next.val = FromString(k, o.text)) \/ Stale(c)
      <3>1. m \in ToSet(file.root) \/ Stale(c)
        BY <2>3, <2>4, <2>6 DEF Serves
      <3>2. m \in ToSet(file.root) => m \in Given(k)
        BY <2>3, <2>6 DEF Given
      <3> QED
        BY <2>3, <2>6, <3>1, <3>2
    <2>7. ASSUME NEW k \in Untouched, NEW o \in Given(k), o = m
          PROVE  next.key = k /\ next.val = FromString(k, o.text)
      <3>1. k \in Keys /\ PathOf(k) = PathOf(q)
        BY <2>3, <2>7 DEF Given, Untouched
      <3> QED
        BY <2>3, <2>7, <3>1, PathsDiffer
    <2>8. \A k \in caller[c].due \cap Untouched : \A o \in Given(k) :
             (o \in ToSet(caller[c].todo) \/ Gives(c, k, o)) =>
             o \in ToSet(next.todo) \/ (next.key = k /\ next.val = FromString(k, o.text))
      BY <2>3, <2>4, <2>5, <2>7 DEF Gives
    <2> QED
      BY <2>1, <2>3, <2>4, <2>5, <2>6, <2>8, ServesOn
  (* The listeners change neither variables nor what is to be assigned. *)
  <1>4. ASSUME NEW next, Step(c, next), DOMAIN next = CallerFields, UNCHANGED <<world, file, seen, fresh, var>>,
               caller[c].pc \in Listening, next.pc \in Listening \cup {"assign"}, next.key = caller[c].key,
               next.val = caller[c].val, next.due = caller[c].due, next.todo = caller[c].todo
        PROVE  Serves'
    <2>1. next.pc \in Busy /\ caller[c].pc \in Busy /\ Setting(c)
      BY <1>4 DEF Busy, Setting
    <2>2. ASSUME NEW k \in Untouched, next.key = k
          PROVE  (\E m \in Given(k) : next.val = FromString(k, m.text)) \/ Stale(c)
      <3>1. (\E m \in Given(k) : Gives(c, k, m)) \/ Stale(c)
        BY <1>4, <2>1, <2>2 DEF Serves
      <3> QED
        BY <1>4, <3>1 DEF Gives
    <2>3. \A k, m : Gives(c, k, m) => next.key = k /\ next.val = FromString(k, m.text)
      BY <1>4 DEF Gives
    <2> QED
      BY <1>4, <2>1, <2>2, <2>3, ServesOn
  <1>5. CASE Notify(c)
    <2>0. UNCHANGED <<world, file, seen, fresh, var>> /\ caller[c].pc \in Listening
      BY <1>5 DEF Notify, NotifyNext, NotifyLevel, NotifyFormatter, NotifyClear, NotifyAdd, Rebuilds, Listening
    <2>1. CASE NotifyNext(c)
      BY <1>0, <1>4, <2>0, <2>1 DEF NotifyNext, Turns, CallerFields, Listening
    <2>2. CASE NotifyLevel(c)
      BY <1>0, <1>4, <2>0, <2>2 DEF NotifyLevel, Rebuilds, CallerFields, Listening
    <2>3. CASE NotifyFormatter(c)
      BY <1>0, <1>4, <2>0, <2>3 DEF NotifyFormatter, Rebuilds, CallerFields, Listening
    <2>4. CASE NotifyClear(c)
      BY <1>0, <1>4, <2>0, <2>4 DEF NotifyClear, Rebuilds, CallerFields, Listening
    <2>5. CASE NotifyAdd(c)
      BY <1>0, <1>4, <2>0, <2>5 DEF NotifyAdd, CallerFields, Listening
    <2> QED
      BY <1>5, <2>1, <2>2, <2>3, <2>4, <2>5 DEF Notify
  <1>6. CASE Notified(c)
    BY <1>0, <1>4, <1>6 DEF Notified, CallerFields, Listening
  <1>7. CASE Assign(c)
    BY <1>7, ServesAssign
  <1> QED
    BY <1>1, <1>2, <1>3, <1>5, <1>6, <1>7 DEF SetStep

LEMMA ServesModule ==
    ASSUME Shape, Setters, Alone, Times, Serves, NEW c \in world.callers \cap Callers, ModuleStep(c)
    PROVE  Serves'
  <1>0. UNCHANGED <<world, file, seen, fresh>> /\ DOMAIN caller[c] = CallerFields
    BY ModuleMoves DEF Shape
  <1>1. ASSUME NEW pc, caller[c].pc = pc, pc \notin Busy \cup {"read"},
               NEW next, Step(c, next), DOMAIN next = CallerFields, next.pc \notin Busy,
               next.todo \in {<<>>, caller[c].todo}, \A k \in Keys : var[k] # None => var'[k] = var[k]
        PROVE  Serves'
    <2>1. caller[c].todo = <<>>
      BY <1>1 DEF Times, Timed
    <2> QED
      BY <1>0, <1>1, <2>1, ServesQuiet
  <1>2. ASSUME NEW m, LoadLibrary(c, m) PROVE Serves'
    <2>1. \A k \in Keys : var[k] # None => var'[k] = var[k]
      BY <1>2 DEF LoadLibrary, Lookup, Shape
    <2> DEFINE next == [Resting EXCEPT !.pc = "loaded", !.module = m]
    <2>2. Step(c, next) /\ DOMAIN next = CallerFields /\ next.pc = "loaded" /\ next.todo = <<>> /\ caller[c].pc = "idle"
      BY <1>2 DEF LoadLibrary, Resting, CallerFields
    <2> HIDE DEF next
    <2> QED
      BY <1>1, <2>1, <2>2 DEF Busy, Listening
  <1>3. CASE LoadsAgain(c)
    BY <1>0, <1>1, <1>3 DEF LoadsAgain, LoadBegins, CallerFields, Busy, Listening
  <1>4. CASE Dels(c)
    <2>1. /\ Step(c, caller'[c]) /\ DOMAIN caller'[c] = CallerFields
          /\ caller[c].pc \in {"idle", "del", "delall", "unload"}
          /\ caller'[c].pc \in {"idle", "insert", "delall", "unload"}
          /\ caller'[c].todo \in {<<>>, caller[c].todo} /\ var' = var
      BY <1>4, DelMoves
    <2>2. PICK next : next = caller'[c]
      OBVIOUS
    <2> QED
      BY <1>1, <2>1, <2>2 DEF Busy, Listening
  <1>5. CASE AddInserts(c)
    BY <1>1, <1>5, RestingFields DEF AddInserts, Resting, Busy, Listening
  <1>6. CASE DelAllBegins(c)
    BY <1>1, <1>6 DEF DelAllBegins, Resting, CallerFields, Busy, Listening
  <1> QED
    BY <1>2, <1>3, <1>4, <1>5, <1>6 DEF ModuleStep, Dels

LEMMA ServesNext == Shape /\ Setters /\ Members /\ Times /\ ServesInv /\ [Next]_vars => ServesInv'
  <1> SUFFICES ASSUME Shape, Setters, Members, Times, ServesInv, [Next]_vars, Alone'
               PROVE  Serves'
    BY DEF ServesInv
  <1>w. world' = world
    BY WorldStays DEF vars
  <1>1. Alone /\ Serves
    BY <1>w DEF Alone, ServesInv
  <1>2. CASE UNCHANGED <<file, seen, fresh, var, caller>>
    <2>1. Untouched' = Untouched /\ \A k : Given(k)' = Given(k)
      BY <1>w, <1>2 DEF Untouched, Given
    <2>2. \A k : /\ Served(k)' <=> Served(k)
                 /\ \A m : Conforms(k, m)' <=> Conforms(k, m)
      BY <1>2, <2>1 DEF Served, Conforms
    <2>3. \A c : (Setting(c)' <=> Setting(c)) /\ (Stale(c)' <=> Stale(c))
      BY <1>2 DEF Setting, Stale
    <2>4. \A c, k, m : Gives(c, k, m)' <=> Gives(c, k, m)
      BY <1>2, <2>3 DEF Gives
    <2> QED
      BY <1>w, <1>1, <1>2, <2>1, <2>2, <2>3, <2>4 DEF Serves
  <1>3. CASE Write
    <2>0. PICK f, t, n : file' = [root |-> f.root, ok |-> f.ok, mtime |-> t, edits |-> n, noted |-> Noted(t)]
      BY <1>3 DEF Write
    <2>1. fresh' = {} /\ seen' = seen /\ (seen = file'.mtime => file'.noted)
      BY <1>3, <2>0 DEF Write, Noted
    <2>2. \A c \in Callers : caller'[c].due = {}
      BY <1>3 DEF Write, Shape, CallerFields
    <2>3. file'.noted \/ seen' # file'.mtime
      BY <2>1
    <2>4. \A c \in Callers : Stale(c)'
      BY <2>1, <2>2, <2>3 DEF Stale
    <2> QED
      BY <2>1, <2>2, <2>3, <2>4 DEF Serves
  <1>4. ASSUME NEW c \in Callers, LoadStep(c) \/ SetStep(c) \/ ModuleStep(c) PROVE Serves'
    BY <1>1, <1>4, Acting, ServesLoad, ServesSet, ServesModule
  <1> QED
    BY <1>2, <1>3, <1>4 DEF Next, vars, LogStep, Log, WriteOwn, WriteRoot, Reformat

(* When a load that began after the file was last written has ended, each  *)
(* variable that nothing else sets has the value the file gives it, as far *)
(* as operator== tells values apart, unless the load was not forced and    *)
(* the file was last written in a second noted before (config.cpp:70-78).  *)
THEOREM FileTakesEffect == Spec => []LatestTakesEffect
  <1>1. Times /\ ServesInv => LatestTakesEffect
    <2> SUFFICES ASSUME Times, Serves, file.ok, NEW k \in fresh, world.texts[k] = {}, NEW m \in ToSet(file.root),
                        Listed(m), m.key = PathOf(k)
                 PROVE  FromString(k, m.text) = None \/ SameValue(k, FromString(k, m.text), var[k])
      BY DEF ServesInv, LatestTakesEffect
    <2>1. k \in Keys /\ k \in Untouched /\ m \in Given(k)
      BY DEF Times, Untouched, Given
    <2>2. Served(k)
      BY <2>1 DEF Serves
    <2> QED
      BY <2>1, <2>2 DEF Served, Conforms
  <1> QED
    BY <1>1, ShapeInit, SettersInit, MembersInit, TimesInit, ServesInit,
       ShapeNext, SettersNext, MembersNext, TimesNext, ServesNext, PTL DEF Spec
=============================================================================
