----------------------------- MODULE ConfigReader -----------------------------
(***************************************************************************)
(* The reading of a configuration file: ParseFile, ParseText, ParseLine    *)
(* and Validate of manager/src/ConfigParser.cpp, a line a step, and then   *)
(* the search for dependency cycles of DependencyCycles.                   *)
(*                                                                         *)
(* A line is a record: its kind, and the word and name of a section header *)
(* or the key and value of a pair.  means is what the author of the file   *)
(* meant by a value, Unparsed when it is none; the reader never looks at   *)
(* it, and the properties compare it with what was read.                   *)
(***************************************************************************)
EXTENDS DependencyCycles, ConfigText

VARIABLES
  file,    \* the lines of the file
  at,      \* the line read next
  phase,   \* "open", "lines", "cycles" or "done"
  state,   \* ParseState: what the lines before at gave
  error,   \* ConfigError
  out      \* the caller's configuration; None until one is accepted

readerVars == <<file, at, phase, state, error, out>>

MaxDuration == 86400000   \* max_duration_ms
MaxWindow == 86400        \* max_window_s
MaxCount == 1000000       \* max_count
MaxCpuPercent == 409600   \* max_cpu_percent

\* ServiceConfig as it is before any line.
BuiltInService ==
  [name |-> <<>>, description |-> <<>>, binary |-> <<>>, arguments |-> <<>>,
   workingDirectory |-> <<>>, environment |-> <<>>, autostart |-> TRUE, restart |-> "on-failure",
   restartDelay |-> 1000, restartDelayMax |-> 30000, maxRestarts |-> 5, restartWindow |-> 60,
   startGrace |-> 1000, stopSignal |-> "TERM", stopTimeout |-> 5000, heartbeatInterval |-> 0,
   heartbeatTolerance |-> 3, unhealthyAction |-> "none", dependsOn |-> <<>>,
   output |-> "auto", outputPath |-> <<>>, memoryMax |-> 0, cpuMaxPercent |-> 0]

BuiltInManager ==
  [healthEndpoint |-> <<"tcp://*:6667">>, reportEndpoint |-> <<"tcp://*:6668">>,
   commandEndpoint |-> <<"tcp://*:5557">>, publishInterval |-> 1000, logLevel |-> "info",
   cgroups |-> "auto", gpu |-> "auto"]

\* The field each key sets.
ManagerField ==
  [health_endpoint |-> "healthEndpoint", report_endpoint |-> "reportEndpoint",
   command_endpoint |-> "commandEndpoint", publish_interval_ms |-> "publishInterval",
   log_level |-> "logLevel", cgroups |-> "cgroups", gpu |-> "gpu"]

ServiceField ==
  [description |-> "description", binary |-> "binary", args |-> "arguments",
   working_dir |-> "workingDirectory", env |-> "environment", autostart |-> "autostart",
   restart |-> "restart", restart_delay_ms |-> "restartDelay",
   restart_delay_max_ms |-> "restartDelayMax", max_restarts |-> "maxRestarts",
   restart_window_s |-> "restartWindow", start_grace_ms |-> "startGrace",
   stop_signal |-> "stopSignal", stop_timeout_ms |-> "stopTimeout",
   heartbeat_interval_ms |-> "heartbeatInterval", heartbeat_tolerance |-> "heartbeatTolerance",
   unhealthy_action |-> "unhealthyAction", depends_on |-> "dependsOn", output |-> "output",
   memory_max |-> "memoryMax", cpu_max |-> "cpuMaxPercent"]

\* The keys that [defaults] may not hold.
OnlyInService == {"binary", "args", "description", "depends_on"}

Allowed(section) ==
  CASE section = "manager" -> DOMAIN ManagerField
    [] section = "defaults" -> DOMAIN ServiceField \ OnlyInService
    [] section = "service" -> DOMAIN ServiceField

EmptyState ==
  [manager |-> BuiltInManager, services |-> <<>>, defaults |-> BuiltInService, section |-> "none",
   seenKeys |-> {}, managerSeen |-> FALSE, defaultsSeen |-> FALSE,
   serviceLines |-> <<>>, dependencyLines |-> <<>>]

NoError == [code |-> "Ok", line |-> 0]

\* The reading of some lines begins; the search rests until then.
Open(lines) ==
  /\ file = lines
  /\ at = 1
  /\ phase = "open"
  /\ state = EmptyState
  /\ error = NoError
  /\ out = None
  /\ Begin([n \in Nodes |-> <<>>])

----------------------------------------------------------------------------
(* Values *)

NumberRange ==
  [restart_delay_ms |-> 0..MaxDuration, restart_delay_max_ms |-> 0..MaxDuration,
   start_grace_ms |-> 0..MaxDuration, stop_timeout_ms |-> 0..MaxDuration,
   heartbeat_interval_ms |-> 0..MaxDuration, heartbeat_tolerance |-> 1..MaxCount,
   max_restarts |-> 0..MaxCount, restart_window_s |-> 1..MaxWindow,
   publish_interval_ms |-> 100..60000]

ReadNumber(key, number) ==
  IF number # Unparsed /\ number \in NumberRange[key] THEN number ELSE Unparsed

ReadWord(key, word) ==
  CASE key = "autostart" -> ParseBool(word)
    [] key = "restart" -> ParseRestartMode(word)
    [] key = "stop_signal" -> ParseStopSignal(word)
    [] key = "unhealthy_action" /\ word \in {"none", "restart"} -> word
    [] key = "log_level" /\ word \in {"error", "warning", "info", "debug"} -> word
    [] key = "cgroups" /\ word \in {"auto", "off", "required"} -> word
    [] key = "gpu" /\ word \in {"auto", "off"} -> word
    [] OTHER -> Unparsed

Words == {"autostart", "restart", "stop_signal", "unhealthy_action", "log_level", "cgroups", "gpu"}
Endpoints == {"health_endpoint", "report_endpoint", "command_endpoint"}

IsAbsolute(directory) == directory # <<>> /\ directory[1] = "/"

ReadOutput(text) ==
  IF text \in {<<"auto">>, <<"journal">>, <<"inherit">>, <<"null">>}
  THEN [mode |-> text[1], path |-> <<>>]
  ELSE IF IsAbsolute(Unquote(text)) THEN [mode |-> "file", path |-> Unquote(text)]
  ELSE Unparsed

ReadVariable(text) ==
  LET equals == FirstOf({i \in DOMAIN text : text[i] = "="}, text)
      name == Trim(SubSeq(text, 1, equals - 1))
  IN IF equals > Len(text) \/ name = <<>> THEN Unparsed
     ELSE [name |-> name, value |-> Unquote(Trim(SubSeq(text, equals + 1, Len(text))))]

\* A limit's value is None, or a number with its suffix or percent sign.
ReadLimit(key, value) ==
  CASE value = None -> 0
    [] value # None /\ key = "memory_max" -> ByteSize(value.number, value.power)
    [] value # None /\ key = "cpu_max" ->
         IF value.number # Unparsed /\ value.number \in 0..MaxCpuPercent THEN value.number
         ELSE Unparsed

\* What the code reads for the value of a key, Unparsed when it refuses it.
ReadValue(key, value) ==
  LET text == Trim(StripInlineComment(value, key \in {"args", "env"}))
  IN CASE key \in DOMAIN NumberRange -> ReadNumber(key, value)
       [] key \in {"memory_max", "cpu_max"} -> ReadLimit(key, value)
       [] key \in Words -> ReadWord(key, IF Len(text) = 1 THEN text[1] ELSE "")
       [] key \in Endpoints \cup {"binary", "description"} -> Unquote(text)
       [] key = "args" -> SplitArguments(text)
       [] key = "env" -> ReadVariable(text)
       [] key = "depends_on" -> SplitList(text)
       [] key = "output" -> ReadOutput(text)
       [] key = "working_dir" ->
            IF Unquote(text) = <<>> \/ IsAbsolute(Unquote(text)) THEN Unquote(text) ELSE Unparsed

----------------------------------------------------------------------------
(* Lines *)

Refuse(code, line) ==
  /\ error' = [code |-> code, line |-> line]
  /\ phase' = "done"
  /\ UNCHANGED <<file, at, state, out, vars>>

Accept(newState) ==
  /\ state' = newState
  /\ at' = at + 1
  /\ UNCHANGED <<file, phase, error, out, vars>>

CannotRead ==
  /\ phase = "open"
  /\ Refuse("Unreadable", 0)

ReadFile ==
  /\ phase = "open"
  /\ phase' = "lines"
  /\ UNCHANGED <<file, at, state, error, out, vars>>

Line == file[at]

AtLine(kind) == phase = "lines" /\ at <= Len(file) /\ Line.kind = kind

BlankLine == AtLine("blank") /\ Accept(state)

\* A header without its bracket, or a line without an equals sign.
BadLine ==
  /\ AtLine("open") \/ AtLine("bare")
  /\ Refuse("Syntax", at)

\* Mutant: the keys of the section before are still taken.
OpenedAmongOthers(section) == [state EXCEPT !.section = section]

Opened(section) == [state EXCEPT !.section = section, !.seenKeys = {}]

OpenManager ==
  /\ AtLine("section") /\ Line.word = "manager"
  /\ IF state.managerSeen THEN Refuse("DuplicateKey", at)
     ELSE Accept([Opened("manager") EXCEPT !.managerSeen = TRUE])

OpenDefaults ==
  /\ AtLine("section") /\ Line.word = "defaults"
  /\ IF state.services # <<>> THEN Refuse("Syntax", at)
     ELSE IF state.defaultsSeen THEN Refuse("DuplicateKey", at)
     ELSE Accept([Opened("defaults") EXCEPT !.defaultsSeen = TRUE])

Named(services, name) == {i \in DOMAIN services : services[i].name = name}

NewService(name) == [state.defaults EXCEPT !.name = name]

\* Mutant: a name is taken twice.
AlreadyNamedNever(name) == FALSE

AlreadyNamed(name) == Named(state.services, name) # {}

OpenService ==
  /\ AtLine("section") /\ Line.word = "service"
  /\ IF ~IsValidServiceName(Line.name) THEN Refuse("InvalidName", at)
     ELSE IF AlreadyNamed(Line.name) THEN Refuse("DuplicateService", at)
     ELSE Accept([Opened("service") EXCEPT
                    !.services = Append(@, NewService(Line.name)),
                    !.serviceLines = Append(@, at),
                    !.dependencyLines = Append(@, 0)])

OpenUnknown ==
  /\ AtLine("section") /\ Line.word \notin {"manager", "defaults", "service"}
  /\ Refuse("UnknownSection", at)

KeyFault ==
  IF Line.key = "" \/ state.section = "none" THEN "Syntax"
  ELSE IF Line.key # "env" /\ Line.key \in state.seenKeys THEN "DuplicateKey"
  ELSE IF Line.key \notin Allowed(state.section) THEN "UnknownKey"
  ELSE "Ok"

RefuseKey ==
  /\ AtLine("pair")
  /\ KeyFault # "Ok"
  /\ Refuse(KeyFault, at)

\* The manager, the defaults or the service with a value set.
With(record, key, value) ==
  CASE key \in DOMAIN ManagerField -> [record EXCEPT ![ManagerField[key]] = value]
    [] key = "env" -> [record EXCEPT !.environment = Append(@, value)]
    [] key = "output" ->
         [record EXCEPT !.output = value.mode,
                        !.outputPath = IF value.mode = "file" THEN value.path ELSE @]
    [] OTHER -> [record EXCEPT ![ServiceField[key]] = value]

\* The section the line is in with its value; the service is the last one opened.
Applied(key, value) ==
  CASE state.section = "manager" -> [state EXCEPT !.manager = With(@, key, value)]
    [] state.section = "defaults" -> [state EXCEPT !.defaults = With(@, key, value)]
    [] state.section = "service" ->
         [state EXCEPT !.services[Len(state.services)] = With(@, key, value),
                       !.dependencyLines[Len(state.services)] =
                          IF key = "depends_on" THEN at ELSE @]

ReadPair ==
  /\ AtLine("pair")
  /\ KeyFault = "Ok"
  /\ LET value == ReadValue(Line.key, Line.value)
     IN IF value = Unparsed THEN Refuse("InvalidValue", at)
        ELSE IF Line.key \in Endpoints \cup {"binary"} /\ value = <<>> THEN Refuse("MissingValue", at)
        ELSE Accept([Applied(Line.key, value) EXCEPT !.seenKeys = @ \cup {Line.key}])

----------------------------------------------------------------------------
(* Validation *)

DependencyFault(service, dependency, line) ==
  CASE dependency = service.name -> [code |-> "DependencyCycle", line |-> line]
    [] dependency # service.name /\ Named(state.services, dependency) = {} ->
         [code |-> "UnknownDependency", line |-> line]
    [] OTHER -> NoError

\* The faults of the i-th service in the order the code looks for them.
ServiceFaults(i) ==
  LET service == state.services[i]
      header == state.serviceLines[i]
      line == IF state.dependencyLines[i] # 0 THEN state.dependencyLines[i] ELSE header
  IN <<IF service.binary = <<>> THEN [code |-> "MissingValue", line |-> header] ELSE NoError,
       IF service.restartDelayMax < service.restartDelay
       THEN [code |-> "InvalidValue", line |-> header] ELSE NoError>>
     \o [k \in DOMAIN service.dependsOn |-> DependencyFault(service, service.dependsOn[k], line)]

Faulty == {i \in DOMAIN state.services : \E k \in DOMAIN ServiceFaults(i) : ServiceFaults(i)[k] # NoError}

FirstFault ==
  LET faults == ServiceFaults(Min(Faulty))
  IN faults[Min({k \in DOMAIN faults : faults[k] # NoError})]

LinesOver == phase = "lines" /\ at > Len(file)

RefuseServices ==
  /\ LinesOver
  /\ Faulty # {}
  /\ Refuse(FirstFault.code, FirstFault.line)

\* The place of a dependency in the file; places after the last service need nothing.
IndexOf(name) == CHOOSE i \in Named(state.services, name) : TRUE

Resolved ==
  [n \in Nodes |-> IF n \notin DOMAIN state.services THEN <<>>
                   ELSE [k \in DOMAIN state.services[n].dependsOn |-> IndexOf(state.services[n].dependsOn[k])]]

SearchServices ==
  /\ LinesOver
  /\ Faulty = {}
  /\ phase' = "cycles"
  /\ dependsOn' = Resolved
  /\ UNCHANGED <<file, at, state, error, out, mark, path, look, root, result, cycle>>

Search ==
  /\ phase = "cycles"
  /\ Next
  /\ UNCHANGED readerVars

RefuseCycle ==
  /\ phase = "cycles"
  /\ result = "cycle"
  /\ Refuse("DependencyCycle", 0)

EndpointsDiffer ==
  /\ state.manager.healthEndpoint # state.manager.reportEndpoint
  /\ state.manager.healthEndpoint # state.manager.commandEndpoint
  /\ state.manager.reportEndpoint # state.manager.commandEndpoint

RefuseEndpoints ==
  /\ phase = "cycles"
  /\ result = "none"
  /\ ~EndpointsDiffer
  /\ Refuse("InvalidValue", 0)

AcceptFile ==
  /\ phase = "cycles"
  /\ result = "none"
  /\ EndpointsDiffer
  /\ out' = [manager |-> state.manager, services |-> state.services]
  /\ error' = NoError
  /\ phase' = "done"
  /\ UNCHANGED <<file, at, state, vars>>

ReaderNext ==
  \/ CannotRead
  \/ ReadFile
  \/ BlankLine
  \/ BadLine
  \/ OpenManager
  \/ OpenDefaults
  \/ OpenService
  \/ OpenUnknown
  \/ RefuseKey
  \/ ReadPair
  \/ RefuseServices
  \/ SearchServices
  \/ Search
  \/ RefuseCycle
  \/ RefuseEndpoints
  \/ AcceptFile

HeadersNamed(word) == {h \in DOMAIN file : file[h].kind = "section" /\ file[h].word = word}

\* A file has some lines, with headers of at most Services services; only those hold a name.
IsFile ==
  /\ IsText(file)
  /\ Cardinality(HeadersNamed("service")) <= Services
  /\ \A h \in DOMAIN file : file[h].kind = "section" /\ file[h].word # "service" => file[h].name = <<>>
  /\ \A l \in DOMAIN file : file[l].kind = "pair" /\ file[l].key = "depends_on" => IsText(file[l].value)

ReaderSpec == (\E lines : Open(lines)) /\ IsFile /\ [][ReaderNext]_<<readerVars, vars>>

----------------------------------------------------------------------------
(* Properties *)

Accepted == phase = "done" /\ error.code = "Ok"

Distinct(S, F(_)) == \A x, y \in S : F(x) = F(y) => x = y

\* Whatever the lines and their order, [defaults] among them, a configuration that is accepted is
\* one the manager can run: services under names of their own, each with a binary and its numbers
\* in range, a delay that may grow, dependencies on others that are there and never in a circle,
\* and three different endpoints.
AcceptedIsUsable ==
  Accepted =>
    LET services == out.services
        NeededBy(i) == {j \in DOMAIN services : services[j].name \in ToSet(services[i].dependsOn)}
    IN /\ Distinct(DOMAIN services, LAMBDA i : services[i].name)
       /\ \A i \in DOMAIN services :
            /\ IsValidServiceName(services[i].name)
            /\ services[i].binary # <<>>
            /\ services[i].restartDelay <= services[i].restartDelayMax
            /\ services[i].restartWindow > 0 /\ services[i].heartbeatTolerance > 0
            /\ ToSet(services[i].dependsOn) \subseteq {services[j].name : j \in DOMAIN services \ {i}}
       /\ \A S \in SUBSET DOMAIN services : S # {} => \E i \in S : NeededBy(i) \cap S = {}
       /\ Distinct(DOMAIN ManagerField \cap Endpoints, LAMBDA k : out.manager[ManagerField[k]])

\* The header a line stands under, 0 when it is under none.
HeaderOf(l) == Max({h \in 1..l : file[h].kind = "section"} \cup {0})

\* The pairs under one header, or in [defaults], with a key, in the order of the file.
PairsUnder(header, key) ==
  {l \in DOMAIN file : file[l].kind = "pair" /\ HeaderOf(l) = header /\ file[l].key = key}

InDefaults(key) == UNION {PairsUnder(h, key) : h \in HeadersNamed("defaults")}

\* Some lines in the order of the file.
InOrder(lines) ==
  CHOOSE s \in [1..Cardinality(lines) -> lines] : \A i, j \in DOMAIN s : i < j => s[i] < s[j]

MeantBy(lines) == [k \in 1..Cardinality(lines) |-> file[InOrder(lines)[k]].means]

\* What is meant for a key of the service under a header: its own line, else that of [defaults].
Meant(header, key) ==
  LET own == PairsUnder(header, key)
  IN IF key = "env" THEN MeantBy(InDefaults(key)) \o MeantBy(own)
     ELSE IF own # {} THEN MeantBy(own)[1]
     ELSE IF InDefaults(key) # {} THEN MeantBy(InDefaults(key))[1]
     ELSE BuiltInService[ServiceField[key]]

ReadOf(service, key) ==
  IF key = "output" /\ service.output = "file" THEN service.outputPath
  ELSE service[ServiceField[key]]

MeantForManager(key) ==
  LET lines == UNION {PairsUnder(h, key) : h \in HeadersNamed("manager")}
  IN IF lines # {} THEN MeantBy(lines)[1] ELSE BuiltInManager[ManagerField[key]]

\* What is read is what was written: every service of an accepted file has, field by field, what
\* its own lines mean, else what [defaults] means, else what is built in; quotes, comments,
\* lists and sizes come out as meant.
ReadAsWritten ==
  Accepted =>
    LET headers == InOrder(HeadersNamed("service"))
    IN /\ Len(out.services) = Len(headers)
       /\ \A i \in DOMAIN headers :
            /\ out.services[i].name = file[headers[i]].name
            /\ \A key \in DOMAIN ServiceField :
                 ReadOf(out.services[i], key) = Meant(headers[i], key)
       /\ \A key \in DOMAIN ManagerField :
            out.manager[ManagerField[key]] = MeantForManager(key)

\* Whether an earlier line of the file opens the same section or sets the same key in it.
IsRepeated(l) ==
  \E e \in 1..(l - 1) :
    /\ file[e].kind = file[l].kind
    /\ IF file[l].kind = "section" THEN file[e].word = file[l].word /\ file[e].name = file[l].name
       ELSE file[e].key = file[l].key /\ HeaderOf(e) = HeaderOf(l)

\* Whether a refusal with some code shows the line where its author finds the reason.
IsReason(code, l) ==
  LET line == file[l]
  IN CASE code \in {"InvalidValue", "MissingValue"} /\ line.kind = "pair" -> line.means = Unparsed
       [] code = "MissingValue" /\ line.kind = "section" -> PairsUnder(l, "binary") = {}
       [] code = "InvalidValue" /\ line.kind = "section" ->
            Meant(l, "restart_delay_max_ms") < Meant(l, "restart_delay_ms")
       [] code \in {"DuplicateKey", "DuplicateService"} -> IsRepeated(l)
       [] code = "UnknownDependency" ->
            \E k \in DOMAIN line.means : \A h \in HeadersNamed("service") : file[h].name # line.means[k]
       [] code = "DependencyCycle" -> file[HeaderOf(l)].name \in ToSet(line.means)
       [] OTHER -> code \in {"Syntax", "UnknownSection", "UnknownKey", "InvalidName"}

\* A file is refused for what its author finds at the line shown: a value that means nothing, a
\* key or section that is there twice, a service that the file does not have.  A good file is
\* never refused for what an earlier section held.
RefusedForAReason == phase = "done" /\ error.line # 0 => IsReason(error.code, error.line)

=============================================================================
