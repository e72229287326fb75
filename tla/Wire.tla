-------------------------------- MODULE Wire --------------------------------
(***************************************************************************)
(* One payload on its way: a report or the health of the services as       *)
(* Publish of Daemon.cpp sends them, a command or its reply, and whoever   *)
(* reads it: the command line's DecodeReport, the manager's                *)
(* DecodeHealthRecords and DecodeCommand, and the GUI's parsers.  Some     *)
(* payloads are damaged on the way.                                        *)
(***************************************************************************)
EXTENDS WireRecord

CONSTANTS
  Snapshots,   \* what a manager has to report: statuses, header, gpus, and the sizes of its version
  Commands,    \* the commands sent
  Replies,     \* and the answers
  Lengths,     \* that a damaged payload may have
  Numbers      \* that a damaged header may state

VARIABLE wire    \* kind; the payload on its way and what is meant by it; at last what is read

\* A text in UTF-8 begins with a character.
IsUtf8(text) ==
  /\ text \in Seq({Whole, Lead, Continued})
  /\ text # <<>> => text[1] # Continued

\* The texts of a record are such.
IsRecord(layout, record) ==
  \A i \in DOMAIN layout : IsText(layout[i][3]) => IsUtf8(record[layout[i][1]])

IsList(list) == list \in Seq(ToSet(list))

IsStatus(status) ==
  /\ DOMAIN status.fields = Fields(ServiceRecord)
  /\ IsRecord(ServiceRecord, status.fields)
  /\ status.fields.state \in {Number(n) : n \in 0..7}
  /\ status.fields.restartMode \in {Number(n) : n \in 0..2}

IsSnapshot(snapshot) ==
  /\ IsRecord(ReportHeader, snapshot.header)
  /\ IsList(snapshot.statuses) /\ Len(snapshot.statuses) <= MaxReportRecords
  /\ \A i \in DOMAIN snapshot.statuses : IsStatus(snapshot.statuses[i])
  /\ IsList(snapshot.gpus) /\ Len(snapshot.gpus) <= MaxReportRecords
  /\ \A i \in DOMAIN snapshot.gpus : IsRecord(GpuRecord, snapshot.gpus[i])
  /\ \A part \in DOMAIN OwnSizes : snapshot.sizes[part] \in Nat /\ snapshot.sizes[part] >= OwnSizes[part]
  /\ DOMAIN snapshot.sizes = DOMAIN OwnSizes

ASSUME WireAssumption ==
  /\ \A snapshot \in Snapshots : IsSnapshot(snapshot)
  /\ \A message \in Commands : IsRecord(CommandMessage, message)
  /\ \A reply \in Replies :
       IsRecord(CommandReply, reply) /\ reply.result \in {Number(n) : n \in 0..8}
  /\ Lengths \subseteq Nat /\ Numbers \subseteq Nat

----------------------------------------------------------------------------
(* What is meant *)

\* The start of a text that a field has room for, by its definition.
Fitted(text, width) ==
  LET cuts == {n \in 0..Len(text) : n < width /\ (n < Len(text) => text[n + 1] # Continued)}
  IN  SubSeq(text, 1, Max(cuts))

Meant(layout, record) ==
  [field \in Fields(layout) |->
     LET width == layout[CHOOSE i \in DOMAIN layout : layout[i][1] = field][3]
     IN  IF IsText(width) THEN Fitted(record[field], width) ELSE record[field]]

MeantAll(layout, records) == [i \in DOMAIN records |-> Meant(layout, records[i])]

----------------------------------------------------------------------------
(* Payloads *)

Sent(kind, payload, meant) == [kind |-> kind, payload |-> payload, meant |-> meant]

\* A payload that is longer or shorter than it was.
Resized(payload, length) == Payload(length, payload.spans)

ReportOf(snapshot) == BuildReport(snapshot.statuses, snapshot.header, snapshot.gpus)

SentReport(snapshot) == EncodeAs(ReportVersion, snapshot.sizes, ReportOf(snapshot))

MeantReport(snapshot) ==
  [header |-> Meant(ReportHeader, snapshot.header),
   services |-> MeantAll(ServiceRecord, ReportOf(snapshot).services),
   gpus |-> MeantAll(GpuRecord, snapshot.gpus)]

\* A field of the header that tells something of the payload.
Tells(snapshot) ==
  Fields(CheckedHeader)
    \ ((IF snapshot.statuses = <<>> THEN {"recordSize"} ELSE {})
       \cup (IF snapshot.gpus = <<>> THEN {"gpuSize"} ELSE {}))

\* The payload with such a field stating another number.
Restated(snapshot, field, number) ==
  LET stated == Checked(ReportVersion, snapshot.sizes, ReportOf(snapshot))
  IN  EncodeStating([stated EXCEPT ![field] = Number(number)], snapshot.sizes, ReportOf(snapshot))

DamagedReports(snapshot) ==
  {Resized(SentReport(snapshot), length) : length \in Lengths \ {SentReport(snapshot).size}}
  \cup ({Restated(snapshot, field, number) : field \in Tells(snapshot), number \in Numbers}
          \ {SentReport(snapshot)})

ReportCases ==
  {Sent("report", SentReport(snapshot), Taken(MeantReport(snapshot))) : snapshot \in Snapshots}
  \cup {Sent("report", payload, Refused) : payload \in UNION {DamagedReports(snapshot) : snapshot \in Snapshots}}

HealthOf(snapshot) == BuildHealth(snapshot.statuses, snapshot.header.snapshotTime)

SentHealth(snapshot) == EncodeHealthRecords(HealthOf(snapshot))

\* The records after their count, as the readers take them too.
Counted(snapshot) ==
  LET records == HealthOf(snapshot)
  IN  Payload(CountPrefix + Len(records) * HealthSize,
        {Span(0, CountPrefix, Number(Len(records)))}
        \cup EncodeRecords(HealthRecord, records, CountPrefix, HealthSize))

HealthPayloads(snapshot) ==
  {SentHealth(snapshot)} \cup (IF Len(snapshot.statuses) < MaxHealthRecords THEN {Counted(snapshot)} ELSE {})

\* Neither so many records nor so many after their count.
DamagedHealth(snapshot) ==
  {Resized(SentHealth(snapshot), length) :
     length \in {l \in Lengths : l % HealthSize \notin {0, CountPrefix}}}
  \cup {Resized(Counted(snapshot), length) :
          length \in {l \in Lengths \ {Counted(snapshot).size} : l % HealthSize # 0}}

HealthCases ==
  UNION {{Sent("health", payload, Taken(MeantAll(HealthRecord, HealthOf(snapshot)))) :
            payload \in HealthPayloads(snapshot)}
         \cup {Sent("health", payload, Refused) : payload \in DamagedHealth(snapshot)}
         : snapshot \in Snapshots}

CommandCases ==
  UNION {{Sent("command", payload, Taken(Meant(CommandMessage, message))) :
            payload \in {EncodeCommand(message), GuiEncodeCommand(message)}}
         \cup {Sent("command", Resized(EncodeCommand(message), length), Refused) :
                 length \in Lengths \ {CommandSize}}
         : message \in Commands}

ReplyCases ==
  UNION {{Sent("reply", EncodeReply(reply), Taken(Meant(CommandReply, reply)))}
         \cup {Sent("reply", Resized(EncodeReply(reply), length), Refused) : length \in Lengths \ {ReplySize}}
         : reply \in Replies}

Cases == ReportCases \cup HealthCases \cup CommandCases \cup ReplyCases

----------------------------------------------------------------------------
(* The reading *)

\* Who reads a payload of a kind: the command line, the GUI, the manager.
ReadersOf(payload) ==
  [report |-> {DecodeReport(payload)},
   health |-> {DecodeHealthRecords(payload), ParseHealthReports(payload)},
   command |-> {DecodeCommand(payload)},
   reply |-> {DecodeReply(payload), ParseCommandReply(payload)}]

ReadWire ==
  /\ wire.kind \in {"report", "health", "command", "reply"}
  /\ wire' = [kind |-> "read", meant |-> wire.meant, read |-> ReadersOf(wire.payload)[wire.kind]]

WireSpec == wire \in Cases /\ [][ReadWire]_wire

\* Every reader of a payload takes just what was sent, whichever of the two programs or of their
\* versions wrote it: each field its own value, of a text all the characters there is room for,
\* and nothing of a payload that is damaged or of another layout.
ReadAsSent == wire.kind = "read" => wire.read = {wire.meant}

=============================================================================
