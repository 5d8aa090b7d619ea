------------------------------ MODULE OtlpExport ------------------------------
(***************************************************************************)
(* The life of an OtlpConfig, up to the requests of the three exporters.   *)
(*                                                                         *)
(* A configuration is written in code, or by hand as text; it is saved as  *)
(* text and loaded by another process.  Its fields are copied as they are, *)
(* except the metrics interval: a Duration in memory, a whole number of    *)
(* seconds in the text, checked when it is loaded and nowhere else.  The   *)
(* exporters are then built one after the other, for traces, logs and      *)
(* metrics, up to the first failure.  Each has an endpoint derived from    *)
(* the one collector URL, and headers merged from two maps; the HTTP       *)
(* client compares header names without regard to case.                    *)
(***************************************************************************)
EXTENDS Integers, Sequences

CONSTANTS
  Urls,           \* what follows the authority in the collector URLs considered
  Invalid,        \* a URL Url::parse rejects
  Spellings,      \* header names as written
  Canonical,      \* the name an HTTP client takes each spelling for
  None,           \* the absent value
  PerSecond,      \* ticks in a second, the unit of an interval
  MaxSeconds,     \* MAX_METRICS_INTERVAL_SECONDS
  DefaultSeconds, \* the default metrics interval
  Written,        \* the configurations written in code
  Composed,       \* the texts written by hand
  Refusing        \* signals whose exporter may refuse a valid configuration

Signals == {"traces", "logs", "metrics"}
Maps    == Signals \cup {"common"}
Suffix  == [s \in Signals |-> IF s = "traces" THEN "v1/traces"
                              ELSE IF s = "logs" THEN "v1/logs"
                              ELSE "v1/metrics"]

\* The text of a URL after the authority is cut at every slash, at the mark of
\* a query or fragment ("?") and around the suffixes; any other text is "x".
Tokens == {"/", "?", "x"} \cup {Suffix[s] : s \in Signals}

\* The value of a header is known by the map it is configured in.  In memory
\* an interval may be anything, up to a second too long; in the text it may be
\* a number too large, and every field may be absent.
Headers == [Maps -> SUBSET Spellings]
Configs == [url      : Urls \cup {Invalid},
            headers  : Headers,
            interval : 0..((MaxSeconds + 1) * PerSecond)]
Texts   == [url      : Urls \cup {Invalid, None},
            headers  : Headers \cup {None},
            seconds  : 0..(MaxSeconds + 1) \cup {None}]

ASSUME UrlAssumption ==
  /\ <<>> \in Urls /\ Invalid \notin Urls
  /\ \A u \in Urls : u \in Seq(Tokens) /\ (u # <<>> => u[1] \in {"/", "?"})
ASSUME IntervalAssumption ==
  /\ PerSecond \in Nat \ {0}
  /\ MaxSeconds \in Nat \ {0}
  /\ DefaultSeconds \in 1..MaxSeconds
ASSUME ChoiceAssumption ==
  /\ Canonical \in [Spellings -> Spellings]
  /\ Written \subseteq Configs
  /\ Composed \subseteq Texts
  /\ Refusing \subseteq Signals
ASSUME NoneAssumption ==
  None \notin Urls \cup {Invalid} \cup Headers \cup Nat \cup Texts \cup Configs

VARIABLES
  config,   \* the configuration in memory, None if there is none
  text,     \* the configuration as text, None if there is none
  saved,    \* the configuration the text was made from, None if hand-written
  loaded,   \* whether the last load succeeded
  pc,       \* the exporter to build next
  request,  \* the endpoint and headers of each exporter built
  outcome   \* of the build

file  == <<text, saved, loaded>>
build == <<pc, request, outcome>>
vars  == <<config, file, build>>

Unbuilt  == [s \in Signals |-> None]
Outcomes == {"none", "ok", "OtlpEndpoint",
             "TraceProvider", "LogProvider", "MeterProvider"}

TypeOK ==
  /\ {config, saved} \subseteq Configs \cup {None}
  /\ text \in Texts \cup {None}
  /\ loaded \in {"none", "ok", "rejected"}
  /\ pc \in Signals \cup {"idle"}
  /\ \A s \in Signals : request[s] # None =>
       /\ request[s].endpoint \in Seq(Tokens)
       /\ \A n \in DOMAIN request[s].headers :
            n \in Spellings /\ request[s].headers[n] \in Maps
  /\ outcome \in Outcomes

Idle == pc = "idle" /\ request = Unbuilt /\ outcome = "none"

Init ==
  /\ config = None
  /\ text = None /\ saved = None
  /\ loaded = "none"
  /\ Idle

-----------------------------------------------------------------------------
(* The configuration *)

\* Every operator whose name ends in a suffix after "_" is the operator of
\* that name with a plausible bug; it is used only to confirm that a property
\* would notice.

\* OtlpConfig::default() and OtlpHeadersConfig::default()
Default == [url      |-> <<>>,
            headers  |-> [m \in Maps |-> {}],
            interval |-> DefaultSeconds * PerSecond]

\* The fields are public: the application sets what it likes.
Write ==
  /\ config = None /\ text = None
  /\ config' \in Written
  /\ UNCHANGED <<file, build>>

\* serialize(): Duration::as_secs.
Seconds_Rounded(d) == (d + PerSecond \div 2) \div PerSecond
Seconds(d) == d \div PerSecond

Save ==
  /\ config # None
  /\ text' = [url     |-> config.url,
              headers |-> config.headers,
              seconds |-> Seconds(config.interval)]
  /\ saved' = config
  /\ UNCHANGED <<config, loaded, build>>

\* A person writes the text, and may leave fields out.
Compose ==
  /\ config = None /\ text = None
  /\ text' \in Composed
  /\ UNCHANGED <<config, saved, loaded, build>>

\* deserialize() takes 1..=MAX_METRICS_INTERVAL_SECONDS.
Accepts(n) == n \in 1..MaxSeconds

\* #[serde(default)]: an absent field has its default value.
Or(value, default) == IF value = None THEN default ELSE value

Ticks(n) == n * PerSecond

\* Another process, or the same after a restart, takes the text.
Load ==
  /\ text # None
  /\ IF text.seconds = None \/ Accepts(text.seconds)
     THEN /\ config' = [url      |-> Or(text.url, Default.url),
                        headers  |-> Or(text.headers, Default.headers),
                        interval |-> IF text.seconds = None
                                     THEN Default.interval
                                     ELSE Ticks(text.seconds)]
          /\ loaded' = "ok"
     ELSE config' = None /\ loaded' = "rejected"
  /\ pc' = "idle" /\ request' = Unbuilt /\ outcome' = "none"
  /\ UNCHANGED <<text, saved>>

-----------------------------------------------------------------------------
(* Endpoints *)

EndsWith(u, tail) ==
  /\ Len(tail) =< Len(u)
  /\ SubSeq(u, Len(u) - Len(tail) + 1, Len(u)) = tail

\* Url::path: what precedes the query and the fragment, never empty.
Path(u) ==
  LET marks == {i \in DOMAIN u : u[i] = "?"}
      end   == IF marks = {} THEN Len(u)
               ELSE (CHOOSE i \in marks : \A j \in marks : i =< j) - 1
  IN IF end = 0 THEN <<"/">> ELSE SubSeq(u, 1, end)

\* trim_end_matches('/')
Trimmed(u) ==
  LET kept == CHOOSE i \in 0..Len(u) :
                /\ \A j \in (i + 1)..Len(u) : u[j] = "/"
                /\ i > 0 => u[i] # "/"
  IN SubSeq(u, 1, kept)

HasSuffix_Bare(u, s) == EndsWith(Path(u), <<Suffix[s]>>)
HasSuffix(u, s) == EndsWith(Path(u), <<"/", Suffix[s]>>)

\* signal_endpoint()
Endpoint(u, s) ==
  IF HasSuffix(u, s) THEN u ELSE Trimmed(u) \o <<"/", Suffix[s]>>

-----------------------------------------------------------------------------
(* Headers *)

Specific_Traces(h, s) == h["traces"]
Specific(h, s) == h[s]

Merged_CommonLast(h, s) ==
  [n \in h["common"] \cup Specific(h, s) |->
     IF n \in h["common"] THEN "common" ELSE s]

\* signal_headers(): equal spellings are one entry, and the signal's wins.
Merged(h, s) ==
  [n \in h["common"] \cup Specific(h, s) |->
     IF n \in Specific(h, s) THEN s ELSE "common"]

\* The HTTP client inserts the entries in the arbitrary order of a hash map:
\* of several spellings of one name any may be the last.
Sent(merged) ==
  LET names == {Canonical[n] : n \in DOMAIN merged}
  IN {sent \in [names -> Maps] :
        \A c \in names :
          \E n \in DOMAIN merged : Canonical[n] = c /\ sent[c] = merged[n]}

-----------------------------------------------------------------------------
(* The exporters *)

\* The configuration is handed to the builder or to a late configuration.
Build ==
  /\ config # None
  /\ Idle
  /\ pc' = "traces"
  /\ UNCHANGED <<config, file, request, outcome>>

After(s) == IF s = "traces" THEN "logs"
            ELSE IF s = "logs" THEN "metrics" ELSE "idle"

ProviderError(s) == IF s = "traces" THEN "TraceProvider"
                    ELSE IF s = "logs" THEN "LogProvider"
                    ELSE "MeterProvider"

Fail(error) ==
  /\ pc' = "idle"
  /\ outcome' = error
  /\ UNCHANGED request

\* build_<signal>_exporter()
BuildExporter(s) ==
  /\ pc = s
  /\ IF config.url = Invalid
     THEN Fail("OtlpEndpoint")
     ELSE \/ s \in Refusing /\ Fail(ProviderError(s))
          \/ /\ \E h \in Sent(Merged(config.headers, s)) :
                  request' = [request EXCEPT ![s] =
                    [endpoint |-> Endpoint(config.url, s), headers |-> h]]
             /\ pc' = After(s)
             /\ outcome' = IF After(s) = "idle" THEN "ok" ELSE outcome
  /\ UNCHANGED <<config, file>>

Next ==
  \/ Write \/ Save \/ Compose \/ Load
  \/ Build
  \/ \E s \in Signals : BuildExporter(s)

Spec == Init /\ [][Next]_vars
-----------------------------------------------------------------------------
\* "Values must be between one second and one day", to the whole seconds a text
\* can say.  Nothing else looks at the interval of a configuration in memory.
Allowed(d) == d \in PerSecond..((MaxSeconds + 1) * PerSecond - 1)

\* A saved configuration is loaded again, as it was but for a fraction of a
\* second, exactly if its interval is one the documentation allows: one written
\* in code may be saved, and exported with, whatever its interval is, and then
\* the process that loads it is refused.
SavedCanBeLoaded ==
  [][Load /\ saved # None =>
       IF Allowed(saved.interval)
       THEN /\ loaded' = "ok"
            /\ config' = [saved EXCEPT !.interval = config'.interval]
            /\ saved.interval - config'.interval \in 0..(PerSecond - 1)
       ELSE loaded' = "rejected"]_vars

Built(s) == request[s] # None

\* "The crate appends /v1/traces, /v1/logs, and /v1/metrics for individual
\* OTLP/HTTP requests": each request goes to a path that ends in the suffix
\* of its own signal.
PostsToSignalPath ==
  \A s \in Signals :
    Built(s) => EndsWith(Path(request[s].endpoint), <<"/", Suffix[s]>>)

\* "When this URL does not already include a signal suffix": no endpoint has
\* the suffix of its signal, as whole segments, twice.
Segments(u, s) ==
  {i \in 2..Len(u) : /\ u[i - 1] = "/"
                     /\ u[i] = Suffix[s]
                     /\ i < Len(u) => u[i + 1] \in {"/", "?"}}

SuffixOnce ==
  \A s \in Signals : Built(s) =>
    \A i, j \in Segments(request[s].endpoint, s) : i = j

\* Every header configured for a signal or for all is sent with its requests,
\* and no header configured for another signal only, also by the process that
\* has loaded what another one saved.
HeadersReachTheirSignal ==
  \A s \in Signals : Built(s) =>
    DOMAIN request[s].headers =
      {Canonical[n] : n \in config.headers["common"] \cup config.headers[s]}

\* "Headers in signal-specific maps override common entries with the same
\* header name", the name being the one the HTTP client sends.
SpecificOverridesCommon ==
  \A s \in Signals : Built(s) =>
    \A n \in config.headers[s] : request[s].headers[Canonical[n]] = s
=============================================================================
