------------------------------ MODULE Settings ------------------------------
(* Config (config.h, config.cpp), the logging system that follows it (log.cpp)
   and the modules that bring variables with them (module.cpp, library.cpp). A
   configuration file and direct calls change ConfigVars; the listener of "logs"
   rebuilds loggers while other threads write events.

   A critical section of a Spinlock or of the table's lock is one action; the
   shared lock of a ConfigVar, which setValue gives up between the listeners
   and the assignment, is modelled as such. *)
EXTENDS Naturals, Sequences, FiniteSets, SequencesExt

CONSTANTS
    Worlds,     \* what happens: see WorldsAssumption
    Callers,    \* threads that load the file or set a value
    Events,     \* log events
    Names,      \* loggers besides "root"
    Patterns,   \* sets of patterns, by name, that a program may give to setFormatter
    DefaultPattern,
    Letters, ItemNames,     \* of LogFormatter
    Refused,    \* names with a character that a key may not have
    None

Formatter == INSTANCE LogFormatter
Env == INSTANCE Environment

Loggers == Names \cup {"root"}

(* Keys of ConfigVars: "logs", and "timeout" for a variable with a listener that
   keeps a copy, as tcp.connect.timeout has (hook.cpp:62). *)
Keys == {"logs", "timeout"}

PathOf(k) == IF k = "logs" THEN <<"logs">> ELSE <<"tcp", "timeout">>

Member(k, text) == [key |-> PathOf(k), text |-> text]

IsSequence(s) == s \in Seq(ToSet(s))

(* The members of files, and those that are set directly. *)
MembersOf(w) == (UNION {ToSet(f.root) : f \in w.files})
                \cup (UNION {{Member(k, text) : text \in w.texts[k]} : k \in Keys})

(* A world: how many threads change the configuration, the events written
   meanwhile, what files may contain, what is set directly, the variables that
   exist when the program starts, the modules in libraries, the patterns given to
   setFormatter, the command line, and bounds on edits of the file and on calls. A
   file gives a key once; the text of "logs" is a sequence of entries. *)
ASSUME WorldsAssumption ==
    \A w \in Worlds : /\ w.callers \subseteq Callers /\ w.events \subseteq Events
                      /\ w.known \subseteq Keys /\ "logs" \in w.known
                      /\ w.patterns \in DOMAIN Patterns
                      /\ w.writes \in Nat /\ w.calls \in Nat
                      /\ None \notin w.modules
                      /\ \A f \in w.files :
                            /\ IsSequence(f.root)
                            /\ \A m, o \in ToSet(f.root) : m.key = o.key => m = o
                      /\ \A m \in MembersOf(w) : m.key = PathOf("logs") =>
                            /\ IsSequence(m.text)
                            /\ \A e \in ToSet(m.text) : e.name \in Loggers \cup {None}

ASSUME NoneAssumption == None \notin {0, {}}

ASSUME DefaultParses == ~Formatter!IsError(DefaultPattern)

VARIABLES
    world,
    file,       \* the .yml file: what it contains, the second in which it was modified,
                \* how often it was edited, and whether that second was known to the
                \* program when it was edited last (history)
    seen,       \* s_file2modifytime
    var,        \* s_datas: the value of each ConfigVar
    cached,     \* s_connect_timeout, the copy its listener keeps
    logger,     \* LoggerManager::m_loggers
    caller,     \* where each thread is
    event,      \* where each event is and which appenders have written it
    modules,    \* ModuleManager::m_modules and m_type2Modules
    calls,      \* calls so far
    fresh       \* keys for which the file's contents have been read (history)

vars == <<world, file, seen, var, cached, logger, caller, event, modules, calls, fresh>>

-----------------------------------------------------------------------------
(* LexicalCast. The text of "logs" is a sequence of entries; one without a name
   throws, and so does what is no number (None) for "timeout". An appender of an
   unknown type or a file appender without a file is left out; its level is not
   read. *)
Unset == 0          \* LogLevel::UNKNOW
Debug == 1

AppenderOf(a) == [type |-> a.type, file |-> a.file, formatter |-> a.formatter, level |-> Unset]

IsAppender(a) == a.type = "stdout" \/ (a.type = "file" /\ a.file # None)

DefineOf(e) ==
    LET read == SelectSeq(e.appenders, IsAppender) IN
    [name |-> e.name, level |-> e.level, formatter |-> e.formatter,
     appenders |-> [i \in DOMAIN read |-> AppenderOf(read[i])]]

(* std::set::insert keeps the first of two definitions with one name. *)
FromString(k, text) ==
    IF k = "timeout" THEN text
    ELSE IF \E e \in ToSet(text) : e.name = None THEN None
    ELSE {DefineOf(text[i]) : i \in {j \in DOMAIN text :
                                        \A h \in 1..(j - 1) : text[h].name # text[j].name}}

(* What is not set is not written. *)
TextOfDefine(d) ==
    LET text(a) == [type |-> a.type, file |-> IF a.type = "file" THEN a.file ELSE None,
                    formatter |-> a.formatter, level |-> a.level]
    IN  [name |-> d.name, level |-> d.level, formatter |-> d.formatter,
         appenders |-> [i \in DOMAIN d.appenders |-> text(d.appenders[i])]]

TextOfSet(v) ==
    LET seq == SetToSeq(v) IN [i \in DOMAIN seq |-> TextOfDefine(seq[i])]

(* ConfigVar::toString. *)
TextOf(k, v) == IF k = "timeout" THEN v ELSE TextOfSet(v)

(* A mutant: a comparison that forgets the level. *)
SameDefineButLevel(d, e) ==
    d.name = e.name /\ d.formatter = e.formatter

(* LogDefine's operator==, which compares the appenders with themselves. *)
SameDefine(d, e) ==
    d.name = e.name /\ d.level = e.level /\ d.formatter = e.formatter

SameValue(k, v, w) ==
    IF k = "timeout" THEN v = w
    ELSE /\ Cardinality(v) = Cardinality(w)
         /\ \A d \in v : \E e \in w : SameDefine(d, e)

-----------------------------------------------------------------------------
(* What the listener of "logs" has to do: apply the definitions that are new or
   have changed, then dismiss the loggers of those that are gone. *)
Changed(old, new) == {d \in new : ~\E e \in old : e.name = d.name /\ SameDefine(d, e)}

Gone(old, new) == {e.name : e \in old} \ {d.name : d \in new}

(* A logger is dismissed like by a definition that says nothing. *)
Dismissal(name) == [name |-> name, level |-> Unset, formatter |-> <<>>, appenders |-> <<>>]

(* The command line, of which main() replaces the directory (main.cpp:36). *)
Args == Env!add(Env!init(world.argv).args, "c", <<"config">>)

IsBuilt(a) == ~(a.type = "stdout" /\ Env!has(Args, "d"))

-----------------------------------------------------------------------------
(* Logger and LogAppender. *)

(* getLogger makes a logger like this when it is asked for the first time, which is
   as good as a logger that has always been there. *)
NewLogger == [level |-> Debug, pattern |-> DefaultPattern, apps |-> <<>>]

(* setFormatter: an erroneous pattern is refused; appenders without a formatter
   of their own take the logger's. *)
SetFormatter(l, pattern) ==
    IF Formatter!IsError(pattern) THEN l
    ELSE [l EXCEPT !.pattern = pattern,
                   !.apps = [i \in DOMAIN l.apps |->
                               IF l.apps[i].own THEN l.apps[i]
                               ELSE [l.apps[i] EXCEPT !.pattern = pattern]]]

(* The new appender takes its own formatter if that parses, else the logger's; by
   is the change that it belongs to (history). *)
AddAppender(l, a, by) ==
    LET own == a.formatter # <<>> /\ ~Formatter!IsError(a.formatter) IN
    [l EXCEPT !.apps = Append(@, [dest |-> <<a.type, a.file>>, by |-> by, level |-> a.level, own |-> own,
                                  pattern |-> IF own THEN a.formatter ELSE l.pattern])]

(* A mutant: the appenders stay. *)
KeepAppenders(l) == l

ClearAppenders(l) == [l EXCEPT !.apps = <<>>]

-----------------------------------------------------------------------------
Resting == [pc |-> "idle", force |-> FALSE, path |-> <<>>, mtime |-> 0, due |-> {},
            todo |-> <<>>, key |-> None, val |-> None, old |-> None, by |-> None,
            changed |-> {}, gone |-> {}, define |-> None, apps |-> <<>>,
            module |-> None, ids |-> {}, out |-> {}]

Quiet == [pc |-> "none", name |-> None, level |-> Unset, to |-> {}]

(* The places of a caller whose listeners run, under the shared lock. *)
Listening == {"notify", "level", "formatter", "clear", "add"}

DefaultOf(k) == IF k = "logs" THEN {} ELSE 0

Init ==
    /\ world \in Worlds
    /\ file = [root |-> <<>>, ok |-> TRUE, mtime |-> 1, edits |-> 0, noted |-> FALSE]
    /\ seen = 0
    /\ var = [k \in Keys |-> IF k \in world.known THEN DefaultOf(k) ELSE None]
    /\ cached = DefaultOf("timeout")
    /\ logger = [n \in Loggers |->
                    IF n # "root" THEN NewLogger
                    ELSE [NewLogger EXCEPT !.apps =
                            <<[dest |-> <<"stdout", None>>, by |-> None, level |-> Debug,
                               own |-> FALSE, pattern |-> DefaultPattern]>>]]
    /\ caller = [c \in Callers |-> Resting]
    /\ event = [e \in Events |-> Quiet]
    /\ modules = [byId |-> {}, byType |-> {}, loaded |-> {}, unloaded |-> {}]
    /\ calls = 0
    /\ fresh = {}

(* A load has noted this time, or is about to. *)
Noted(t) == seen = t \/ \E c \in Callers : caller[c].pc = "check" /\ caller[c].mtime = t

(* Somebody edits the file. Its time of modification is in seconds: it moves on,
   or the second is the same. *)
Write ==
    /\ file.edits < world.writes
    /\ \E f \in world.files : \E t \in {file.mtime, file.mtime + 1} :
          file' = [root |-> f.root, ok |-> f.ok, mtime |-> t, edits |-> file.edits + 1, noted |-> Noted(t)]
    /\ fresh' = {}
    /\ caller' = [c \in Callers |-> [caller[c] EXCEPT !.due = {}]]
    /\ UNCHANGED <<world, seen, var, cached, logger, event, modules, calls>>

-----------------------------------------------------------------------------
(* Config::LoadFromConfDir. *)

(* ListAllMember: a file is the list of its members in the order of the walk, each
   with the path that leads to it. The walk ends at a name with a character that
   is refused; names that are valid are in lower case, so that the transformation
   of the key changes nothing. *)
Listed(m) == ToSet(m.key) \cap Refused = {}

KeyAt(m) == {k \in Keys : Listed(m) /\ PathOf(k) = m.key /\ var[k] # None}

Step(c, next) == caller' = [caller EXCEPT ![c] = next]

(* What a load has to do, history: it reads for the keys that exist; without force,
   those that came later may be left out, and everything is when the time of the
   last edit was noted before it. *)
DueTo(force) == {k \in Keys : var[k] # None /\ (force \/ (k \in world.known /\ ~file.noted))}

(* The loop over the files takes the file's time outside the lock. *)
LoadBegins(c, from, force, path) ==
    /\ Step(c, [from EXCEPT !.pc = "check", !.force = force, !.path = Env!getAbsolutePath(path),
                  !.mtime = file.mtime, !.due = DueTo(force)])
    /\ UNCHANGED <<world, file, seen, var, cached, logger, event, modules, fresh>>

(* main() gives the name of the directory. *)
Loads(c, force) ==
    /\ caller[c].pc = "idle" /\ c \in world.callers /\ calls < world.calls
    /\ calls' = calls + 1
    /\ LoadBegins(c, Resting, force, <<"config">>)

(* What is loaded for a module is followed by the module's entry. *)
Finished(c) ==
    IF caller[c].module = None THEN Resting
    ELSE [Resting EXCEPT !.pc = "del", !.module = caller[c].module]

Ends(c) ==
    /\ Step(c, Finished(c))
    /\ fresh' = fresh \cup caller[c].due

(* ListAllFile of a directory that does not exist. *)
LoadsNothing(c) ==
    /\ caller[c].pc = "check" /\ caller[c].path # Env!Cwd \o <<"config">>
    /\ Step(c, Finished(c))
    /\ UNCHANGED <<world, file, seen, var, cached, logger, event, modules, calls, fresh>>

(* A file that is no newer than before is skipped. The time is noted before the
   file is read. *)
LoadChecks(c) ==
    /\ caller[c].pc = "check" /\ caller[c].path = Env!Cwd \o <<"config">>
    /\ \/ /\ ~caller[c].force /\ seen = caller[c].mtime
          /\ Ends(c) /\ UNCHANGED seen
       \/ /\ caller[c].force \/ seen # caller[c].mtime
          /\ Step(c, [caller[c] EXCEPT !.pc = "read"])
          /\ seen' = caller[c].mtime
          /\ UNCHANGED fresh
    /\ UNCHANGED <<world, file, var, cached, logger, event, modules, calls>>

(* YAML::LoadFile throws when the file is no YAML. *)
LoadReads(c) ==
    /\ caller[c].pc = "read"
    /\ \/ /\ file.ok
          /\ Step(c, [caller[c] EXCEPT !.pc = "keys", !.todo = file.root])
          /\ UNCHANGED fresh
       \/ ~file.ok /\ Ends(c)
    /\ UNCHANGED <<world, file, seen, var, cached, logger, event, modules, calls>>

(* A mutant: the time of the file is noted when it has been read. *)
LoadEndsNoting(c) ==
    /\ caller[c].pc = "keys" /\ caller[c].todo = <<>>
    /\ Ends(c)
    /\ seen' = file.mtime
    /\ UNCHANGED <<world, file, var, cached, logger, event, modules, calls>>

LoadEnds(c) ==
    /\ caller[c].pc = "keys" /\ caller[c].todo = <<>>
    /\ Ends(c)
    /\ UNCHANGED <<world, file, seen, var, cached, logger, event, modules, calls>>

(* LookupBase(key)->fromString(text), called by a program. *)
Sets(c, k, text) ==
    /\ caller[c].pc = "idle" /\ c \in world.callers /\ calls < world.calls
    /\ calls' = calls + 1
    /\ Step(c, [Resting EXCEPT !.pc = "keys", !.todo = <<Member(k, text)>>])
    /\ UNCHANGED <<world, file, seen, var, cached, logger, event, modules, fresh>>

-----------------------------------------------------------------------------
(* ConfigVar::setValue by way of fromString, for the next member of the list. *)

Skips(c) == [caller[c] EXCEPT !.todo = Tail(@)]

(* The member is not listed, there is no such variable, the text does not convert,
   or the value is the one it has. *)
MemberSkipped(c) ==
    LET m == Head(caller[c].todo) IN
    /\ caller[c].pc = "keys" /\ caller[c].todo # <<>>
    /\ \A k \in KeyAt(m) : LET v == FromString(k, m.text) IN
                                  IF v = None THEN TRUE ELSE SameValue(k, v, var[k])
    /\ Step(c, Skips(c))
    /\ UNCHANGED <<world, file, seen, var, cached, logger, event, modules, calls, fresh>>

(* The listeners are called under the shared lock, with a reference to the value. *)
MemberChanged(c) ==
    LET m == Head(caller[c].todo) IN
    /\ caller[c].pc = "keys" /\ caller[c].todo # <<>>
    /\ \E k \in KeyAt(m) :
          LET v == FromString(k, m.text) IN
          /\ IF v = None THEN FALSE ELSE ~SameValue(k, v, var[k])
          /\ Step(c, [Skips(c) EXCEPT !.pc = "notify", !.key = k, !.val = v, !.old = var[k],
                        !.by = <<c, calls>>,
                        !.changed = IF k = "logs" THEN Changed(var[k], v) ELSE {},
                        !.gone = IF k = "logs" THEN Gone(var[k], v) ELSE {}])
          /\ cached' = IF k = "timeout" THEN v ELSE cached
    /\ UNCHANGED <<world, file, seen, var, logger, event, modules, calls, fresh>>

(* The listener of "logs" calls the methods of a logger one by one, each of which
   takes the logger's lock. The order of the loggers is that of their names. *)
Turns(c, next, d) == Step(c, [next EXCEPT !.pc = "level", !.define = d, !.apps = d.appenders])

NotifyNext(c) ==
    /\ caller[c].pc = "notify"
    /\ \/ \E d \in caller[c].changed : Turns(c, [caller[c] EXCEPT !.changed = @ \ {d}], d)
       \/ /\ caller[c].changed = {}
          /\ \E n \in caller[c].gone : Turns(c, [caller[c] EXCEPT !.gone = @ \ {n}], Dismissal(n))
    /\ UNCHANGED <<world, file, seen, var, cached, logger, event, modules, calls, fresh>>

Rebuilds(c, l, pc) ==
    /\ logger' = [logger EXCEPT ![caller[c].define.name] = l]
    /\ Step(c, [caller[c] EXCEPT !.pc = pc])
    /\ UNCHANGED <<world, file, seen, var, cached, event, modules, calls, fresh>>

Rebuilt(c) == logger[caller[c].define.name]

NotifyLevel(c) ==
    /\ caller[c].pc = "level"
    /\ Rebuilds(c, [Rebuilt(c) EXCEPT !.level = caller[c].define.level],
                IF caller[c].define.formatter = <<>> THEN "clear" ELSE "formatter")

NotifyFormatter(c) ==
    /\ caller[c].pc = "formatter"
    /\ Rebuilds(c, SetFormatter(Rebuilt(c), caller[c].define.formatter), "clear")

NotifyClear(c) ==
    /\ caller[c].pc = "clear"
    /\ Rebuilds(c, ClearAppenders(Rebuilt(c)), IF caller[c].apps = <<>> THEN "notify" ELSE "add")

(* A daemon has no appenders of the console. *)
NotifyAdd(c) ==
    LET a == Head(caller[c].apps)
        left == Tail(caller[c].apps)
    IN
    /\ caller[c].pc = "add"
    /\ logger' = IF IsBuilt(a)
                 THEN [logger EXCEPT ![caller[c].define.name] = AddAppender(@, a, caller[c].by)]
                 ELSE logger
    /\ Step(c, [caller[c] EXCEPT !.apps = left, !.pc = IF left = <<>> THEN "notify" ELSE "add"])
    /\ UNCHANGED <<world, file, seen, var, cached, event, modules, calls, fresh>>

Notify(c) == NotifyNext(c) \/ NotifyLevel(c) \/ NotifyFormatter(c) \/ NotifyClear(c) \/ NotifyAdd(c)

Notified(c) ==
    /\ caller[c].pc = "notify" /\ caller[c].changed = {} /\ caller[c].gone = {}
    /\ Step(c, [caller[c] EXCEPT !.pc = "assign", !.define = None])
    /\ UNCHANGED <<world, file, seen, var, cached, logger, event, modules, calls, fresh>>

Store(c) ==
    /\ caller[c].pc = "assign"
    /\ var' = [var EXCEPT ![caller[c].key] = caller[c].val]
    /\ Step(c, [caller[c] EXCEPT !.pc = "keys", !.key = None, !.val = None, !.old = None, !.by = None])
    /\ UNCHANGED <<world, file, seen, cached, logger, event, modules, calls, fresh>>

(* A mutant: the value is assigned without the exclusive lock. *)
AssignUnlocked(c) == Store(c)

(* The exclusive lock waits for the listeners of the others. *)
Assign(c) ==
    /\ \A d \in Callers : caller[d].pc \in Listening => caller[d].key # caller[c].key
    /\ Store(c)

-----------------------------------------------------------------------------
(* ModuleManager. Modules are found by their identity, which is their name and
   version, and by their type. *)

Same(m, n) == m.id = n.id

Leaving(id) == {m \in modules.byId : m.id = id}

(* A mutant: the table by type is left as it is. *)
ErasedById(id) == [modules EXCEPT !.byId = @ \ Leaving(id)]

(* Both tables, under the lock. *)
Erased(id) ==
    [modules EXCEPT !.byId = @ \ Leaving(id),
                    !.byType = {m \in @ : \A n \in Leaving(id) : m.type # n.type \/ ~Same(m, n)}]

Inserted(m) ==
    [modules EXCEPT !.byId = {n \in @ : ~Same(m, n)} \cup {m},
                    !.byType = {n \in @ : n.type # m.type \/ ~Same(m, n)} \cup {m}]

(* Config::Lookup: the variable, made with its default value if there is none. *)
Lookup(k) == [var EXCEPT ![k] = IF @ = None THEN DefaultOf(k) ELSE @]

(* GetModule returns null, and initModule does nothing: the library cannot be
   loaded; or it has no DestoryModule and, in the model, no variable of its own. *)
LibraryFails(c, m) ==
    /\ caller[c].pc = "idle" /\ c \in world.callers /\ calls < world.calls
    /\ m \in world.modules \ modules.loaded
    /\ calls' = calls + 1
    /\ Step(c, Resting)
    /\ UNCHANGED <<world, file, seen, var, cached, logger, event, modules, fresh>>

(* Library::GetModule: what is static in the library is initialised, the lookup
   of a variable and its listener included, and CreateModule makes the module. *)
LoadLibrary(c, m) ==
    /\ caller[c].pc = "idle" /\ c \in world.callers /\ calls < world.calls
    /\ m \in world.modules \ modules.loaded
    /\ calls' = calls + 1
    /\ var' = IF m.key = None THEN var ELSE Lookup(m.key)
    /\ modules' = [modules EXCEPT !.loaded = @ \cup {m}]
    /\ Step(c, [Resting EXCEPT !.pc = "loaded", !.module = m])
    /\ UNCHANGED <<world, file, seen, cached, logger, event, fresh>>

(* The configuration is loaded again, from getConfigPath(). *)
LoadsAgain(c) ==
    /\ caller[c].pc = "loaded"
    /\ LoadBegins(c, caller[c], TRUE, Env!getConfigPath(Args))
    /\ UNCHANGED calls

(* ModuleManager::del takes the module out of the tables and, when there is one,
   calls its onUnload after the lock is given up. *)
Erases(c, id, next) ==
    /\ modules' = Erased(id)
    /\ Step(c, IF Leaving(id) = {} THEN next ELSE [next EXCEPT !.pc = "unload", !.out = Leaving(id)])
    /\ UNCHANGED <<world, file, seen, var, cached, logger, event, calls, fresh>>

(* Where del returns to: add() has a module to insert, delAll() goes on. *)
Returned(next) ==
    IF next.module # None THEN [next EXCEPT !.pc = "insert"]
    ELSE IF next.ids # {} THEN [next EXCEPT !.pc = "delall"] ELSE Resting

Unloads(c) ==
    /\ caller[c].pc = "unload"
    /\ modules' = [modules EXCEPT !.unloaded = @ \cup caller[c].out]
    /\ Step(c, Returned([caller[c] EXCEPT !.out = {}]))
    /\ UNCHANGED <<world, file, seen, var, cached, logger, event, calls, fresh>>

(* ModuleManager::add: del, and a critical section of its own. *)
AddErases(c) ==
    /\ caller[c].pc = "del"
    /\ Erases(c, caller[c].module.id, Returned(caller[c]))

AddInserts(c) ==
    /\ caller[c].pc = "insert"
    /\ modules' = Inserted(caller[c].module)
    /\ Step(c, Resting)
    /\ UNCHANGED <<world, file, seen, var, cached, logger, event, calls, fresh>>

(* delAll: the identities there are, and del for one after the other. *)
DelAllBegins(c) ==
    /\ caller[c].pc = "idle" /\ c \in world.callers /\ calls < world.calls
    /\ modules.byId # {}
    /\ calls' = calls + 1
    /\ Step(c, [Resting EXCEPT !.pc = "delall", !.ids = {m.id : m \in modules.byId}])
    /\ UNCHANGED <<world, file, seen, var, cached, logger, event, modules, fresh>>

DelAllErases(c) ==
    /\ caller[c].pc = "delall"
    /\ \E id \in caller[c].ids : Erases(c, id, Returned([caller[c] EXCEPT !.ids = @ \ {id}]))

-----------------------------------------------------------------------------
(* Logger::log, and setFormatter called by a program. *)

(* The level is read without the lock. *)
Log(e, n, level) ==
    /\ event[e].pc = "none" /\ e \in world.events
    /\ event' = [event EXCEPT ![e] = [Quiet EXCEPT !.pc = IF level >= logger[n].level THEN "own" ELSE "done",
                                                   !.name = n, !.level = level]]
    /\ UNCHANGED <<world, file, seen, var, cached, logger, caller, modules, calls, fresh>>

(* The appenders that let an event through. *)
Taken(n, level) == {a \in ToSet(logger[n].apps) : level >= a.level}

(* Under the logger's lock: the appenders, or the root logger if there are none. *)
WriteOwn(e) ==
    LET n == event[e].name
        next == IF logger[n].apps = <<>> /\ n # "root" THEN "root" ELSE "done"
    IN
    /\ event[e].pc = "own"
    /\ event' = [event EXCEPT ![e].pc = next, ![e].to = Taken(n, event[e].level)]
    /\ UNCHANGED <<world, file, seen, var, cached, logger, caller, modules, calls, fresh>>

WriteRoot(e) ==
    /\ event[e].pc = "root"
    /\ event' = [event EXCEPT ![e].pc = "done",
                              ![e].to = IF event[e].level >= logger["root"].level
                                        THEN Taken("root", event[e].level) ELSE {}]
    /\ UNCHANGED <<world, file, seen, var, cached, logger, caller, modules, calls, fresh>>

Reformat(n, pattern) ==
    /\ calls < world.calls
    /\ calls' = calls + 1
    /\ logger' = [logger EXCEPT ![n] = SetFormatter(logger[n], pattern)]
    /\ UNCHANGED <<world, file, seen, var, cached, caller, event, modules, fresh>>

-----------------------------------------------------------------------------
LoadStep(c) ==
    \/ \E force \in BOOLEAN : Loads(c, force)
    \/ LoadsNothing(c) \/ LoadChecks(c) \/ LoadReads(c) \/ LoadEnds(c)

SetStep(c) ==
    \/ \E k \in Keys : \E text \in world.texts[k] : Sets(c, k, text)
    \/ MemberSkipped(c) \/ MemberChanged(c) \/ Notify(c) \/ Notified(c) \/ Assign(c)

ModuleStep(c) ==
    \/ \E m \in world.modules : LoadLibrary(c, m) \/ LibraryFails(c, m)
    \/ LoadsAgain(c) \/ AddErases(c) \/ AddInserts(c) \/ DelAllBegins(c) \/ DelAllErases(c)
    \/ Unloads(c)

LogStep(e) ==
    \/ \E n \in Loggers : \E level \in world.levels : Log(e, n, level)
    \/ WriteOwn(e) \/ WriteRoot(e)

Next ==
    \/ Write
    \/ \E c \in Callers : LoadStep(c) \/ SetStep(c) \/ ModuleStep(c)
    \/ \E e \in Events : LogStep(e)
    \/ \E n \in Loggers : \E p \in Patterns[world.patterns] : Reformat(n, p)

Spec == Init /\ [][Next]_vars

-----------------------------------------------------------------------------
Alone == \A c, d \in world.callers : c = d

(* The value a listener is told to be the old one, by reference, is the stored one
   until every listener has returned, however many threads set the variable
   (config.h:320-333). *)
OldStaysStored ==
    \A c \in Callers : caller[c].pc \in Listening => var[caller[c].key] = caller[c].old

(* One thread at a time changes the configuration: between two changes every
   configured logger has the level and the pattern of its definition, no logger
   keeps appenders of a definition that is gone, and a listener's copy is the
   value (log.cpp:714-778, hook.cpp:62). With two threads the last one notified
   need not be the last one to assign. *)
LoggersFollow ==
    Alone /\ (\A c \in Callers : caller[c].pc \notin Listening \cup {"assign"}) =>
        /\ \A d \in var["logs"] :
              /\ logger[d.name].level = d.level
              /\ Patterns[world.patterns] = {} /\ d.formatter # <<>> /\ ~Formatter!IsError(d.formatter)
                    => logger[d.name].pattern = d.formatter
        /\ \A n \in Loggers \ {d.name : d \in var["logs"]} :
              \A a \in ToSet(logger[n].apps) : a.by = None
        /\ var["timeout"] # None => cached = var["timeout"]

(* One thread at a time changes the configuration: no event is written by
   appenders of two configurations, though clearAppenders and addAppender take
   the logger's lock one by one (log.cpp:740-765). *)
NeverMixed ==
    Alone => \A e \in Events : \A a, b \in event[e].to : a.by = b.by

(* One thread at a time changes the configuration: when a load that began after
   the file was last written has ended, each variable that is set by nothing else
   has the value the file gives it, if that converts, as far as operator== tells
   values apart. The time that is noted before the file is read hides an edit only
   from loads without force, and only if that time, which is in seconds, was noted
   already when the edit was made (config.cpp:70-78). *)
LatestTakesEffect ==
    Alone /\ file.ok =>
        \A k \in fresh : world.texts[k] = {} => \A m \in ToSet(file.root) :
            LET v == FromString(k, m.text) IN
            Listed(m) /\ m.key = PathOf(k) => v = None \/ SameValue(k, v, var[k])

(* Unless two threads add modules of one identity at a time, a module is found by
   its identity exactly when it is found by its type, and every module is in one
   place only: with the one thread that is about to add it, in the tables, with the
   one thread that has taken it out and is about to call its onUnload, or done with.
   None is lost and none is told twice, though add() replaces one in two critical
   sections, delAll() works from a copy, and onUnload is called without the lock
   (module.cpp:110-146). *)
ModulesAgree ==
    LET held == [c \in Callers |-> ({caller[c].module} \ {None}) \cup caller[c].out]
        coming == {caller[c].module : c \in Callers} \ {None}
        leaving == UNION {caller[c].out : c \in Callers}
    IN
    (Alone \/ \A m, n \in world.modules : m # n => ~Same(m, n)) =>
        /\ modules.byType = modules.byId
        /\ modules.loaded = coming \cup modules.byId \cup leaving \cup modules.unloaded
        /\ coming \cap leaving = {} /\ modules.byId \cap modules.unloaded = {}
        /\ (coming \cup leaving) \cap (modules.byId \cup modules.unloaded) = {}
        /\ \A c, d \in Callers : c # d => held[c] \cap held[d] = {}

(* No logger or appender has a pattern that does not parse; the items of a pattern
   without "%%" spell the whole pattern, in order; and an appender without a
   formatter of its own has the logger's, whatever was set before or after it was
   added (log.cpp:242-298, 441-552). *)
PatternsHold ==
    \A n \in Loggers :
        LET l == logger[n] IN
        /\ \A p \in {l.pattern} \cup {a.pattern : a \in ToSet(l.apps)} :
              /\ ~Formatter!IsError(p)
              /\ Formatter!HasEscape(p) \/ p \in Formatter!SpelledBy(Formatter!Parse(p))
        /\ \A a \in ToSet(l.apps) : ~a.own => a.pattern = l.pattern

(* A legal command line is accepted, and its arguments are what it says; no other
   one is accepted (env.cpp:12-68). *)
ArgumentsFound ==
    LET e == Env!init(world.argv) IN
    /\ e.ok <=> Env!Legal(world.argv)
    /\ e.ok => e.args = Env!Meaning(world.argv)

(* Whatever value a variable has taken, the text it is written as (toString) is
   read as that value, the appenders of loggers in their order included. *)
ReadsBack ==
    \A k \in Keys : var[k] # None => FromString(k, TextOf(k, var[k])) = var[k]

(* The syntax of log.cpp:440 names "%%" an escape. This does NOT hold, and no run
   states it: the second percent sign is looked at again (log.cpp:451-455), so that
   "%%m" is a percent sign and the message, where the comment has the text "%m". *)
EscapesHold ==
    \A n \in Loggers : logger[n].pattern \in Formatter!SpelledBy(Formatter!Parse(logger[n].pattern))

(* What is read means what is written: patterns without "%%", the command line, and the values
   of variables. *)
TextsAreKept == PatternsHold /\ ArgumentsFound /\ ReadsBack
=============================================================================
