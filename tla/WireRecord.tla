------------------------------ MODULE WireRecord ------------------------------
(***************************************************************************)
(* What the manager puts on the wire and what is read there: WireWriter,   *)
(* WireReader, the layouts of DetailedReport.cpp, HealthRecord.cpp and     *)
(* CommandMessage.cpp, ReportBuilder.cpp, and the GUI's health_structs.py. *)
(*                                                                         *)
(* A payload is its size and the values written into it, each at its       *)
(* offset with its width; a value is a sequence, of the bytes of a text or *)
(* of the one number.  Reading returns the value written just there, zero  *)
(* where nothing was written, and garbage where another write reaches into *)
(* it.                                                                     *)
(***************************************************************************)
EXTENDS Integers, Sequences, SequencesExt, FiniteSetsExt

Zero == <<>>
Garbage == <<-99>>
Number(n) == IF n = 0 THEN Zero ELSE <<n>>
AsNumber(value) == IF value = Zero THEN 0 ELSE value[1]

----------------------------------------------------------------------------
(* Texts: the bytes of a UTF-8 text, by what they are *)

Whole == 1       \* a character of one byte
Lead == 2        \* the first byte of a longer one
Continued == 3   \* one of the others

\* Mutant: cut where the field ends.
FitBytes(text, maxBytes) == SubSeq(text, 1, IF Len(text) < maxBytes THEN Len(text) ELSE maxBytes)

\* The text itself, or its start up to the last place a character begins.
FitUtf8(text, maxBytes) ==
  IF Len(text) <= maxBytes THEN text
  ELSE SubSeq(text, 1, Max({0} \cup {end \in 1..maxBytes : text[end + 1] # Continued}))

\* The GUI cuts, and drops the character the cut split.
GuiFit(text, maxBytes) ==
  LET raw == SubSeq(text, 1, IF Len(text) < maxBytes THEN Len(text) ELSE maxBytes)
      begin == Max({0} \cup {i \in DOMAIN raw : raw[i] # Continued})
      split == Len(raw) < Len(text) /\ begin > 0 /\ text[Len(raw) + 1] = Continued
  IN  IF split THEN SubSeq(raw, 1, begin - 1) ELSE raw

----------------------------------------------------------------------------
(* WireWriter and WireReader *)

\* Texts are the fields wider than a number.
IsText(width) == width > 8

Span(offset, width, value) == [at |-> offset, width |-> width, value |-> value]

Reach(span) == span.at + span.width

\* A write that does not fit is left out.
Payload(size, spans) ==
  [size |-> size, spans |-> {span \in spans : Reach(span) <= size}]

\* What can be read of the size bytes from base on.
Available(payload, base, size) ==
  IF base >= payload.size THEN 0 ELSE Min({size, payload.size - base})

Read(payload, base, size, offset, width) ==
  LET from == base + offset
      touched == {span \in payload.spans : from < Reach(span) /\ span.at < from + width}
      there == {span \in touched : span.at = from /\ span.width = width}
  IN  IF offset + width > Available(payload, base, size) \/ touched = {} THEN Zero
      ELSE IF \E span \in there : touched = {span} THEN (CHOOSE span \in touched : TRUE).value
      ELSE Garbage

\* A layout lists its fields as <<name, offset, width>>.
Fields(layout) == {layout[i][1] : i \in DOMAIN layout}

EncodeFields(layout, record, base) ==
  {LET width == layout[i][3]
       value == record[layout[i][1]]
   IN  Span(base + layout[i][2], width, IF IsText(width) THEN FitUtf8(value, width - 1) ELSE value) :
   i \in DOMAIN layout}

\* Records back to back from base on, of some size each.
EncodeRecords(layout, records, base, size) ==
  UNION {EncodeFields(layout, records[i], base + (i - 1) * size) : i \in DOMAIN records}

DecodeFields(layout, payload, base, size) ==
  [field \in Fields(layout) |->
     LET entry == layout[CHOOSE i \in DOMAIN layout : layout[i][1] = field]
     IN  Read(payload, base, size, entry[2], entry[3])]

----------------------------------------------------------------------------
(* DetailedReport *)

ReportMagic == 7
ReportVersion == 1
MaxReportRecords == 100000

OwnSizes == [header |-> 192, service |-> 368, gpu |-> 160]

CheckedHeader ==
  <<<<"magic", 0, 4>>, <<"version", 4, 2>>, <<"headerSize", 6, 2>>, <<"recordSize", 8, 2>>,
    <<"gpuSize", 10, 2>>, <<"serviceCount", 12, 4>>, <<"gpuCount", 16, 4>>>>

ReportHeader ==
  <<<<"managerPid", 20, 4>>, <<"snapshotTime", 24, 8>>, <<"managerStartTime", 32, 8>>,
    <<"publishIntervalMs", 40, 4>>, <<"flags", 44, 4>>, <<"cpuPercent", 48, 8>>,
    <<"memoryTotalBytes", 56, 8>>, <<"memoryAvailableBytes", 64, 8>>, <<"loadAverage1", 72, 8>>,
    <<"loadAverage5", 80, 8>>, <<"loadAverage15", 88, 8>>, <<"uptimeSeconds", 96, 8>>,
    <<"cpuCount", 104, 4>>, <<"hostName", 112, 64>>, <<"managerVersion", 176, 16>>>>

ServiceRecord ==
  <<<<"name", 0, 32>>, <<"binary", 32, 128>>, <<"description", 160, 64>>, <<"pid", 224, 4>>,
    <<"state", 228, 1>>, <<"restartMode", 229, 1>>, <<"flags", 230, 1>>, <<"restartCount", 232, 4>>,
    <<"missedBeats", 236, 4>>, <<"lastExitCode", 240, 4>>, <<"processCount", 244, 4>>,
    <<"threadCount", 248, 4>>, <<"openFiles", 252, 4>>, <<"startTime", 256, 8>>,
    <<"lastSeen", 264, 8>>, <<"lastExitTime", 272, 8>>, <<"nextRestartTime", 280, 8>>,
    <<"cpuTimeUsec", 288, 8>>, <<"cpuPercent", 296, 8>>, <<"memoryBytes", 304, 8>>,
    <<"memoryPeakBytes", 312, 8>>, <<"memoryLimitBytes", 320, 8>>, <<"ioReadBytes", 328, 8>>,
    <<"ioWriteBytes", 336, 8>>, <<"gpuPercent", 344, 8>>, <<"gpuMemoryBytes", 352, 8>>,
    <<"oomKills", 360, 4>>, <<"cpuLimitPercent", 364, 4>>>>

GpuRecord ==
  <<<<"name", 0, 64>>, <<"uuid", 64, 48>>, <<"index", 112, 4>>, <<"temperatureC", 116, 4>>,
    <<"utilizationPercent", 120, 8>>, <<"memoryUtilizationPercent", 128, 8>>,
    <<"memoryTotalBytes", 136, 8>>, <<"memoryUsedBytes", 144, 8>>, <<"powerMilliwatts", 152, 4>>>>

ReportSize(sizes, services, gpus) == sizes.header + services * sizes.service + gpus * sizes.gpu

\* What a payload states of its sender; a later one may append to the header and the records.
Checked(version, sizes, report) ==
  [magic |-> Number(ReportMagic), version |-> Number(version),
   headerSize |-> Number(sizes.header), recordSize |-> Number(sizes.service),
   gpuSize |-> Number(sizes.gpu), serviceCount |-> Number(Len(report.services)),
   gpuCount |-> Number(Len(report.gpus))]

EncodeStating(checked, sizes, report) ==
  LET services == Len(report.services)
  IN  Payload(ReportSize(sizes, services, Len(report.gpus)),
        EncodeFields(CheckedHeader, checked, 0)
        \cup EncodeFields(ReportHeader, report.header, 0)
        \cup EncodeRecords(ServiceRecord, report.services, sizes.header, sizes.service)
        \cup EncodeRecords(GpuRecord, report.gpus, ReportSize(sizes, services, 0), sizes.gpu))

EncodeAs(version, sizes, report) == EncodeStating(Checked(version, sizes, report), sizes, report)

EncodeReport(report) == EncodeAs(ReportVersion, OwnSizes, report)

\* ServiceStateFromByte and RestartModeFromByte, and what stands for an unknown value.
Known(record) ==
  [record EXCEPT !.state = IF AsNumber(@) > 7 THEN Zero ELSE @,
                 !.restartMode = IF AsNumber(@) > 2 THEN Zero ELSE @]

RightSize(payload, sizes, services, gpus) == payload.size = ReportSize(sizes, services, gpus)

Stated(payload) == DecodeFields(CheckedHeader, payload, 0, payload.size)

StatedSizes(stated) ==
  [header |-> AsNumber(stated.headerSize), service |-> AsNumber(stated.recordSize),
   gpu |-> AsNumber(stated.gpuSize)]

\* What is wrong with a payload, by the order of the checks.
ReportFault(payload) ==
  LET stated == Stated(payload)
      sizes == StatedSizes(stated)
      services == AsNumber(stated.serviceCount)
      gpus == AsNumber(stated.gpuCount)
  IN  IF payload.size < OwnSizes.header THEN "BadLength"
      ELSE IF stated.magic # Number(ReportMagic) THEN "BadMagic"
      ELSE IF stated.version # Number(ReportVersion) THEN "UnsupportedVersion"
      ELSE IF \E part \in DOMAIN sizes : sizes[part] < OwnSizes[part] THEN "BadLayout"
      ELSE IF Max({services, gpus}) > MaxReportRecords THEN "BadLength"
      ELSE IF ~RightSize(payload, sizes, services, gpus) THEN "BadLength"
      ELSE "Ok"

ReadReport(payload) ==
  LET stated == Stated(payload)
      sizes == StatedSizes(stated)
      services == AsNumber(stated.serviceCount)
  IN  [header |-> DecodeFields(ReportHeader, payload, 0, payload.size),
       services |-> [i \in 1..services |->
         Known(DecodeFields(ServiceRecord, payload, sizes.header + (i - 1) * sizes.service, sizes.service))],
       gpus |-> [i \in 1..AsNumber(stated.gpuCount) |->
         DecodeFields(GpuRecord, payload, ReportSize(sizes, services, i - 1), sizes.gpu)]]

Taken(content) == <<content>>
Refused == <<>>

DecodeReport(payload) == IF ReportFault(payload) = "Ok" THEN Taken(ReadReport(payload)) ELSE Refused

----------------------------------------------------------------------------
(* HealthRecord *)

HealthSize == 128
MaxHealthRecords == 10000
CountPrefix == 4

HealthRecord ==
  <<<<"processName", 0, 64>>, <<"pid", 64, 4>>, <<"memoryUsageInBytes", 72, 8>>,
    <<"cpuUsageInUsec", 80, 8>>, <<"state", 88, 1>>, <<"startTime", 96, 8>>, <<"lastSeen", 104, 8>>,
    <<"missedBeats", 112, 4>>, <<"restartCount", 116, 4>>, <<"snapshotTime", 120, 8>>>>

EncodeHealthRecords(records) ==
  Payload(Len(records) * HealthSize, EncodeRecords(HealthRecord, records, 0, HealthSize))

\* RuntimeStateFromByte.
KnownHealth(record) == [record EXCEPT !.state = IF AsNumber(@) > 4 THEN Zero ELSE @]

\* The count of a payload that starts with one, and -1 of any other.
PrefixedCount(payload) ==
  LET body == payload.size - CountPrefix
      count == body \div HealthSize
  IN  IF /\ body >= 0
         /\ body % HealthSize = 0
         /\ count < MaxHealthRecords
         /\ Read(payload, 0, CountPrefix, 0, CountPrefix) = Number(count)
      THEN count ELSE -1

\* By a layout, since the GUI has its own; parse_health_reports decides as the manager does.
DecodeHealthBy(layout, payload) ==
  LET prefixed == PrefixedCount(payload)
      base == IF prefixed >= 0 THEN CountPrefix ELSE 0
      count == IF prefixed >= 0 THEN prefixed ELSE payload.size \div HealthSize
  IN  IF prefixed < 0 /\ payload.size % HealthSize # 0 THEN Refused
      ELSE Taken([i \in 1..count |->
             KnownHealth(DecodeFields(layout, payload, base + (i - 1) * HealthSize, HealthSize))])

DecodeHealthRecords(payload) == DecodeHealthBy(HealthRecord, payload)

\* The layout C gives the members <<name, width, alignment>> of a struct.
StructLayout(members) ==
  LET RoundUp(n, to) == ((n + to - 1) \div to) * to
      From[i \in DOMAIN members] ==
        RoundUp(IF i = 1 THEN 0 ELSE From[i - 1] + members[i - 1][2], members[i][3])
  IN  [i \in DOMAIN members |-> <<members[i][1], From[i], members[i][2]>>]

\* DetailedHealthReport: state is the first member of a struct within.
GuiHealthReport ==
  StructLayout(<<<<"processName", 64, 1>>, <<"pid", 4, 4>>, <<"memoryUsageInBytes", 8, 8>>,
                 <<"cpuUsageInUsec", 8, 8>>, <<"state", 1, 8>>, <<"startTime", 8, 8>>,
                 <<"lastSeen", 8, 8>>, <<"missedBeats", 4, 4>>, <<"restartCount", 4, 4>>,
                 <<"snapshotTime", 8, 8>>>>)

ParseHealthReports(payload) == DecodeHealthBy(GuiHealthReport, payload)

----------------------------------------------------------------------------
(* CommandMessage *)

CommandSize == 65
ReplySize == 128

CommandMessage == <<<<"command", 0, 1>>, <<"serviceName", 1, 32>>, <<"args", 33, 32>>>>

CommandReply ==
  <<<<"command", 0, 1>>, <<"result", 1, 1>>, <<"serviceName", 2, 32>>, <<"message", 34, 94>>>>

EncodeCommand(message) == Payload(CommandSize, EncodeFields(CommandMessage, message, 0))
EncodeReply(reply) == Payload(ReplySize, EncodeFields(CommandReply, reply, 0))

GuiCommandMessage == StructLayout(<<<<"command", 1, 1>>, <<"serviceName", 32, 1>>, <<"args", 32, 1>>>>)

GuiCommandReply ==
  StructLayout(<<<<"command", 1, 1>>, <<"result", 1, 1>>, <<"serviceName", 32, 1>>, <<"message", 94, 1>>>>)

\* make_command_message.
GuiEncodeCommand(message) ==
  Payload(CommandSize,
    {LET entry == GuiCommandMessage[i]
         value == message[entry[1]]
     IN  Span(entry[2], entry[3], IF IsText(entry[3]) THEN GuiFit(value, entry[3] - 1) ELSE value) :
     i \in DOMAIN GuiCommandMessage})

DecodeCommand(payload) ==
  IF payload.size # CommandSize THEN Refused
  ELSE Taken(DecodeFields(CommandMessage, payload, 0, CommandSize))

\* CommandResultFromByte: an unknown result is Malformed.
KnownResult(reply) == [reply EXCEPT !.result = IF AsNumber(@) > 8 THEN Number(3) ELSE @]

DecodeReply(payload) ==
  IF payload.size # ReplySize THEN Refused
  ELSE Taken(KnownResult(DecodeFields(CommandReply, payload, 0, ReplySize)))

\* parse_command_reply keeps an unknown result.
ParseCommandReply(payload) ==
  IF payload.size # ReplySize THEN Refused
  ELSE Taken(DecodeFields(GuiCommandReply, payload, 0, ReplySize))

----------------------------------------------------------------------------
(* ReportBuilder *)

UsageFields ==
  {"processCount", "threadCount", "openFiles", "cpuTimeUsec", "memoryBytes", "memoryPeakBytes",
   "ioReadBytes", "ioWriteBytes", "oomKills"}

Unknown == <<-1>>

\* The flags of a status, by their bits.
ServiceFlags(status) ==
  Number((IF status.autostart THEN 1 ELSE 0)
         + (IF status.heartbeat THEN 2 ELSE 0)
         + (IF status.usageValid /\ status.cgroup THEN 4 ELSE 0)
         + (IF status.usageValid THEN 8 ELSE 0)
         + (IF status.gpuValid THEN 16 ELSE 0)
         + (IF status.removing THEN 32 ELSE 0))

ToServiceRecord(status) ==
  [field \in Fields(ServiceRecord) |->
     CASE field = "flags" -> ServiceFlags(status)
     []   field \in UsageFields /\ ~status.usageValid -> IF field = "openFiles" THEN Unknown ELSE Zero
     []   field = "gpuPercent" /\ ~status.gpuValid -> Unknown
     []   field = "gpuMemoryBytes" /\ ~status.gpuValid -> Zero
     []   OTHER -> status.fields[field]]

\* ToRuntimeState and IsAlive, of the number of a state.
ToRuntimeState(state) == Number(<<3, 1, 1, 2, 4, 3, 1, 4>>[AsNumber(state) + 1])
IsAlive(state) == AsNumber(state) \in {2, 3, 4, 5}

ToHealthRecord(status, snapshotTime) ==
  LET own == status.fields
      Alive(value) == IF IsAlive(own.state) THEN value ELSE Zero
      Used(value) == IF status.usageValid THEN value ELSE Zero
  IN  [processName |-> own.name, pid |-> Alive(own.pid), memoryUsageInBytes |-> Used(own.memoryBytes),
       cpuUsageInUsec |-> Used(own.cpuTimeUsec), state |-> ToRuntimeState(own.state),
       startTime |-> Alive(own.startTime), lastSeen |-> own.lastSeen, missedBeats |-> own.missedBeats,
       restartCount |-> own.restartCount, snapshotTime |-> snapshotTime]

BuildHealth(statuses, snapshotTime) ==
  [i \in DOMAIN statuses |-> ToHealthRecord(statuses[i], snapshotTime)]

BuildReport(statuses, header, gpus) ==
  [header |-> header, services |-> [i \in DOMAIN statuses |-> ToServiceRecord(statuses[i])], gpus |-> gpus]

=============================================================================
