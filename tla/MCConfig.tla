------------------------------- MODULE MCConfig -------------------------------
(***************************************************************************)
(* Files for model checking ConfigReader, in families: every graph of      *)
(* dependencies, every order of a few lines, defaults against own values,  *)
(* each value a key takes, arguments in every way of quoting them, and     *)
(* every size.                                                             *)
(***************************************************************************)
EXTENDS ConfigReader

Header(word) == [kind |-> "section", word |-> word, name |-> <<>>]
ServiceHeader(name) == [kind |-> "section", word |-> "service", name |-> name]
Pair(key, value, means) == [kind |-> "pair", key |-> key, value |-> value, means |-> means]
Plain(key, value) == Pair(key, value, value)
Blank == [kind |-> "blank"]
Unclosed == [kind |-> "open"]
Bare == [kind |-> "bare"]

Binary == Plain("binary", <<"x">>)
Options(lines) == {<<>>} \cup {<<l>> : l \in lines}

\* A file of services, each with its own lines; the i-th is called "a", "b", "c", "d".
Name(i) == <<<<"a", "b", "c", "d">>[i]>>
ServiceLines(i, lines) == <<ServiceHeader(Name(i)), Binary>> \o lines

\* Some names as the value of depends_on, in a list.
RECURSIVE Listed(_)
Listed(names) == CASE names = <<>> -> <<>>
                   [] Len(names) = 1 -> Head(names)
                   [] OTHER -> Head(names) \o <<",", " ">> \o Listed(Tail(names))

Needing(names) == Pair("depends_on", Listed(names), names)

NamesIn(S) == [k \in 1..Cardinality(S) |-> Name(InOrder(S)[k])]

\* Every graph of a few services.
GraphFiles ==
  {FlattenSeq([i \in 1..Services |-> ServiceLines(i, <<Needing(NamesIn(needs[i]))>>)]) :
     needs \in {f \in [1..Services -> SUBSET (1..Services)] : \A i \in 1..Services : i \notin f[i]}}

\* A service that needs itself, one that is not in the file, one twice.
OddGraphFiles ==
  {ServiceLines(1, <<Needing(a)>>) \o ServiceLines(2, <<Needing(b)>>) :
     a, b \in {<<>>, <<Name(1)>>, <<Name(2)>>, <<Name(3)>>, <<Name(2), Name(2)>>,
               <<Name(2), Name(3)>>, <<Name(1), Name(2)>>}}

\* Every order of a few lines.
SomeLines ==
  {Header("manager"), Header("defaults"), Header("group"), ServiceHeader(Name(1)),
   Binary, Plain("restart_delay_ms", 40000), Pair("env", <<"x", "=", "y">>, [name |-> <<"x">>, value |-> <<"y">>]),
   Plain("publish_interval_ms", 200)}

OrderFiles == UNION {[1..n -> SomeLines] : n \in 0..4}
              \cup {<<ServiceHeader(Name(1)), Binary>> \o tail :
                      tail \in UNION {[1..n -> SomeLines \cup {Blank, Unclosed, Bare, ServiceHeader(Name(2)),
                                                               Pair("", <<>>, Unparsed)}] : n \in 0..3}}

\* The same key in [defaults] and in one or both services.
Shared ==
  {Plain("restart_delay_ms", 40000), Plain("restart_delay_max_ms", 50000), Plain("max_restarts", 0),
   Pair("env", <<"x", "=", "y">>, [name |-> <<"x">>, value |-> <<"y">>]),
   Pair("env", <<"z", "=", "\"", "#", "\"">>, [name |-> <<"z">>, value |-> <<"#">>]),
   Pair("output", <<"null">>, "null"), Pair("output", <<"/", "x">>, <<"/", "x">>)}

DefaultsFiles ==
  {<<Header("defaults")>> \o d \o <<Blank>> \o ServiceLines(1, own1 \o own2) \o ServiceLines(2, last) :
     d, own1, own2, last \in Options(Shared)}

\* Each value a key takes, with what it means; the text values with and without a comment.
Numbers(key) == {Plain(key, n) : n \in NumberRange[key] \cap {0, 1, 99, 100, 60000, 86400, 1000000}}
                \cup {Pair(key, n, Unparsed) :
                        n \in ({0, 1, 99, 60001, 86401, 1000001, 86400001} \ NumberRange[key]) \cup {Unparsed}}

\* The spellings of each word, and one that is none.
Spelled ==
  [autostart |-> {<<"true", TRUE>>, <<"yes", TRUE>>, <<"1", TRUE>>, <<"off", FALSE>>, <<"no", FALSE>>},
   restart |-> {<<"no", "never">>, <<"on-failure", "on-failure">>, <<"always", "always">>},
   stop_signal |-> {<<"TERM", "TERM">>, <<"SIGUSR2", "USR2">>, <<"SIGSIGINT", Unparsed>>},
   unhealthy_action |-> {<<"none", "none">>, <<"restart", "restart">>},
   log_level |-> {<<"debug", "debug">>, <<"error", "error">>},
   cgroups |-> {<<"required", "required">>, <<"off", "off">>},
   gpu |-> {<<"off", "off">>, <<"required", Unparsed>>}]

WordPairs(key) == {Pair(key, <<" ", s[1], " ", "#", "x">>, s[2]) : s \in Spelled[key]}
                  \cup {Pair(key, <<"other">>, Unparsed), Pair(key, <<>>, Unparsed)}

Limits ==
  {Pair("cpu_max", [number |-> n], IF n # Unparsed /\ n <= MaxCpuPercent THEN n ELSE Unparsed) :
     n \in {0, 1, 150, 409600, 409601, Unparsed}}
  \cup {Pair(key, None, 0) : key \in {"cpu_max", "memory_max"}}
  \cup {Pair("memory_max", [number |-> n, power |-> p],
             IF n <= SignedMax /\ n * Kilo ^ p <= UnsignedMax THEN n * Kilo ^ p ELSE Unparsed) :
          n \in 0..(SignedMax + 1), p \in 0..4}

Comments == {<<>>, <<" ", "#", "'", "x">>, <<" ", "#", "\"">>}

\* Words of one and two characters, and the ways to write one.
Alphabet == {"x", " ", "#", "'", "\"", "\\"}
WordsUpTo(n) == UNION {[1..k -> Alphabet] : k \in 0..n}

InDouble(word) ==
  FlattenSeq([i \in DOMAIN word |-> IF word[i] \in {"\"", "\\"} THEN <<"\\", word[i]>> ELSE <<word[i]>>])

Written(word, style) ==
  CASE style = "bare" -> word
    [] style = "single" -> <<"'">> \o word \o <<"'">>
    [] style = "double" -> <<"\"">> \o InDouble(word) \o <<"\"">>

\* The styles that say a word: a bare one holds no blank or quote and begins with no mark.
Writings(words) ==
  {w \in words \X {"bare", "single", "double"} :
     /\ w[2] = "bare" => /\ w[1] # <<>> /\ w[1][1] # "#"
                         /\ \A i \in DOMAIN w[1] : w[1][i] \notin {" ", "'", "\""}
     /\ w[2] = "single" => \A i \in DOMAIN w[1] : w[1][i] # "'"}

\* One argument, two of them, one in two pieces, one whose quote is never closed.
ArgumentPairs ==
  {Pair("args", Written(a[1], a[2]) \o comment, <<a[1]>>) : a \in Writings(WordsUpTo(2)), comment \in Comments}
  \cup {Pair("args", Written(a[1], a[2]) \o <<" ">> \o Written(b[1], b[2]) \o comment, <<a[1], b[1]>>) :
          a, b \in Writings(WordsUpTo(1)), comment \in Comments}
  \cup {Pair("args", Written(a[1], a[2]) \o Written(b[1], b[2]), <<a[1] \o b[1]>>) :
          a, b \in Writings(WordsUpTo(1))}
  \cup {Pair("args", <<"x", " ", q, "x", " ", "#">>, Unparsed) : q \in Quotes}

\* A text that may be quoted as a whole: bare, it keeps its apostrophes.
DescriptionPairs ==
  {Pair("description", Written(w[1], w[2]) \o comment, w[1]) : w \in Writings(WordsUpTo(3)), comment \in Comments}
  \cup {Pair("description", <<"x", "'", "x">> \o comment, <<"x", "'", "x">>) : comment \in Comments}

OtherPairs ==
  {Pair("working_dir", <<"\"", "/", "\"">>, <<"/">>), Plain("working_dir", <<>>),
   Pair("working_dir", <<"x">>, Unparsed), Pair("env", <<"x">>, Unparsed), Pair("env", <<" ", "=", "x">>, Unparsed),
   Pair("output", <<"x">>, Unparsed), Pair("output", <<"'", "/", "'", " ", "#">>, <<"/">>),
   Pair("health_endpoint", <<"'", "'">>, Unparsed), Plain("report_endpoint", <<"tcp://*:5557">>),
   Plain("command_endpoint", <<"tcp://*:6667">>), Plain("health_endpoint", <<"e">>),
   Plain("other", <<"x">>), Plain("args", <<>>)}

ServicePairs ==
  UNION {Numbers(key) : key \in DOMAIN NumberRange}
  \cup UNION {WordPairs(key) : key \in DOMAIN Spelled}
  \cup Limits \cup ArgumentPairs \cup DescriptionPairs \cup OtherPairs

ManagerPairs ==
  {p \in ServicePairs : p.key \in DOMAIN ManagerField \cup {"other", "max_restarts"}}

ValueFiles ==
  {ServiceLines(1, <<p>>) : p \in ServicePairs}
  \cup {<<Header("defaults"), p>> \o ServiceLines(1, <<>>) :
          p \in {q \in ServicePairs : q.key \notin {"args", "description"}} \cup {Plain("args", <<>>)}}
  \cup {<<Header("manager"), p, q>> : p, q \in ManagerPairs}

NameFiles ==
  {<<ServiceHeader(name), Binary>> :
     name \in UNION {[1..n -> {"a", ".", " ", "-"}] : n \in 0..(MaxNameLength + 1)}}

MCInit ==
  /\ \E lines \in GraphFiles \cup OddGraphFiles \cup OrderFiles \cup DefaultsFiles \cup ValueFiles \cup NameFiles :
       Open(lines)
  /\ IsFile

MCSpec == MCInit /\ [][ReaderNext]_<<readerVars, vars>>

=============================================================================
