------------------------------ MODULE MCReports ------------------------------
(***************************************************************************)
(* Small instances of ReportFeed and of Wire: a behaviour either follows a *)
(* subscriber or carries one payload to its readers.                       *)
(***************************************************************************)
EXTENDS ReportFeed, Wire

mcVars == <<vars, wire>>

----------------------------------------------------------------------------
(* What is sent *)

\* Texts of n bytes, the last character of which takes tail bytes.
Text(n, tail) == [i \in 1..n |-> IF i <= n - tail THEN Whole ELSE IF i = n - tail + 1 THEN Lead ELSE Continued]

ShortText == Text(5, 0)
LongTexts(width) ==
  {Text(n, tail) : n \in (width - 2)..(width + 2), tail \in {0, 2, 4}}

\* Each field with a value of its own; texts are short unless a case is about one.
Filled(layout, salt) ==
  [field \in Fields(layout) |->
     LET i == CHOOSE i \in DOMAIN layout : layout[i][1] = field
     IN  IF IsText(layout[i][3]) THEN ShortText ELSE Number(100 * salt + i)]

Status(salt, state, usage, cgroup, gpu, removing) ==
  [fields |-> [Filled(ServiceRecord, salt) EXCEPT !.state = Number(state), !.restartMode = Number(salt % 3)],
   autostart |-> salt = 1, heartbeat |-> salt = 2, usageValid |-> usage, cgroup |-> cgroup,
   gpuValid |-> gpu, removing |-> removing]

Plain == Status(1, 3, TRUE, TRUE, TRUE, FALSE)
Other == Status(2, 6, FALSE, FALSE, TRUE, TRUE)

Gpu == Filled(GpuRecord, 8)

StatusLists ==
  {<<>>, <<Plain>>, <<Plain, Other>>, <<Other, Plain, Other>>}
  \cup {<<Status(1, state, usage, cgroup, gpu, removing), Other>> :
          state \in 0..7, usage \in BOOLEAN, cgroup \in {TRUE}, gpu \in BOOLEAN, removing \in BOOLEAN}
  \cup {<<[Plain EXCEPT !.fields[field] = text]>> :
          field \in {"name"}, text \in {Text(1, 0), Text(31, 0), Text(31, 4)}}
  \cup {<<[Plain EXCEPT !.fields.description = text], Other>> : text \in LongTexts(64)}
  \cup {<<Other, [Plain EXCEPT !.fields.binary = text]>> : text \in LongTexts(128)}

GpuLists == {<<>>, <<Gpu>>, <<Gpu, Filled(GpuRecord, 9)>>}

\* Later versions, which append to the header or the records.
Appended == {OwnSizes, [OwnSizes EXCEPT !.header = @ + 8], [OwnSizes EXCEPT !.service = @ + 16],
             [header |-> 200, service |-> 376, gpu |-> 164]}

Snapshot(statuses, gpus, sizes) ==
  [statuses |-> statuses, header |-> Filled(ReportHeader, 7), gpus |-> gpus, sizes |-> sizes]

MCSnapshots ==
  {Snapshot(statuses, <<Gpu>>, OwnSizes) : statuses \in StatusLists}
  \cup {Snapshot(<<Plain, Other>>, gpus, sizes) : gpus \in GpuLists, sizes \in Appended}

MCCommands ==
  {[command |-> Number(command), serviceName |-> name, args |-> Zero] :
     command \in {78, 79, 80, 81, 90, 91}, name \in LongTexts(32) \cup {<<Whole>>, Zero}}

MCReplies ==
  {[command |-> Number(command), result |-> Number(result), serviceName |-> ShortText, message |-> message] :
     command \in {78, 91}, result \in 0..8, message \in LongTexts(94) \cup {Zero}}

\* Around the sizes of a header, of a command and its reply, and of two services and a GPU or
\* their health; a multiple of a record's after the count; and almost nothing.
MCLengths == {0, 6, 64, 66, 127, 132, 191, 192, 257, 260, 720, 928, 1087, 1089, 1456}

\* Another version and layouts, more services than there are or may be, or none.
MCNumbers == {0, 2, 3, 8, 184, 360, 376, MaxReportRecords + 1}

----------------------------------------------------------------------------
(* The runs *)

OlderVersion == [version |-> ReportVersion, sizes |-> OwnSizes]
LaterVersion == [version |-> ReportVersion, sizes |-> [OwnSizes EXCEPT !.header = @ + 8, !.service = @ + 8]]
NewLayout == [version |-> ReportVersion + 1, sizes |-> OwnSizes]
MCSenders == {OlderVersion, LaterVersion, NewLayout}

Nothing == [kind |-> "none"]

\* The GUI passes the reports on unread, so that one version stands for all.
MCInit ==
  /\ Init
  /\ ForGui => manager.sender = OlderVersion
  /\ \/ wire = Nothing
     \/ ~manager.up /\ ForGui /\ file = Max(Intervals) /\ wire \in Cases

MCNext ==
  \/ wire = Nothing /\ Next /\ UNCHANGED wire
  \/ ReadWire /\ UNCHANGED vars

MCSpec == MCInit /\ [][MCNext]_mcVars

=============================================================================
