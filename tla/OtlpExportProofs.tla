--------------------------- MODULE OtlpExportProofs ---------------------------
(***************************************************************************)
(* What OtlpExport shows of a few configurations, for any collector URL,   *)
(* any header names, any interval and any ticks in a second: what is saved *)
(* can be loaded again exactly if its interval is allowed, and every       *)
(* request goes to the path of its signal with the headers configured for  *)
(* it.                                                                     *)
(*                                                                         *)
(* The inductive invariant ties the text to the configuration it was saved *)
(* from, and each request to the configuration it is built from.           *)
(***************************************************************************)
EXTENDS OtlpExport, SequenceTheorems, WellFoundedInduction, TLAPS

USE UrlAssumption, IntervalAssumption, ChoiceAssumption, NoneAssumption

\* The text says what the configuration it was made from says.
SavedFits ==
  saved # None =>
    /\ saved \in Configs
    /\ text = [url     |-> saved.url,
               headers |-> saved.headers,
               seconds |-> Seconds(saved.interval)]

\* What is built of the request of a signal.
RequestFits(s) ==
  /\ config # None /\ config.url # Invalid
  /\ \E h \in Sent(Merged(config.headers, s)) :
       request[s] = [endpoint |-> Endpoint(config.url, s), headers |-> h]

BuildFits ==
  /\ pc # "idle" => config # None
  /\ request = [s \in Signals |-> request[s]]
  /\ \A s \in Signals : request[s] # None => RequestFits(s)

Inv ==
  /\ config \in Configs \cup {None}
  /\ text \in Texts \cup {None}
  /\ pc \in Signals \cup {"idle"}
  /\ text = None => saved = None
  /\ SavedFits
  /\ BuildFits

-----------------------------------------------------------------------------
(* Whole seconds *)

\* Dividing by the ticks of a second loses less than one.
LEMMA SecondsOfTicks ==
  ASSUME NEW m \in Nat, NEW d \in 0..((m + 1) * PerSecond)
  PROVE  /\ Seconds(d) \in 0..(m + 1)
         /\ d - Ticks(Seconds(d)) \in 0..(PerSecond - 1)
BY DEF Seconds, Ticks

\* The whole seconds are in range for the intervals that are, to the second.
LEMMA AllowedSeconds ==
  ASSUME NEW m \in Nat, NEW d \in Nat
  PROVE  Seconds(d) \in 1..m <=> d \in PerSecond..((m + 1) * PerSecond - 1)
<1> DEFINE n == Seconds(d)
<1>1. n \in Nat /\ n * PerSecond =< d /\ d < (n + 1) * PerSecond
  BY DEF Seconds
<1> HIDE DEF n
<1>2. ASSUME NEW a \in Nat, NEW b \in Nat, a =< b
      PROVE  a * PerSecond =< b * PerSecond
  BY <1>2
<1>3. n >= 1 <=> d >= PerSecond
  <2>1. CASE n = 0
    BY <1>1, <2>1
  <2>2. CASE n >= 1
    <3>1. 1 * PerSecond =< n * PerSecond
      BY <1>1, <1>2, <2>2
    <3>2. n * PerSecond \in Nat
      BY <1>1
    <3> QED
      BY <1>1, <2>2, <3>1, <3>2
  <2> QED
    BY <1>1, <2>1, <2>2
<1>4. n =< m <=> d < (m + 1) * PerSecond
  <2>1. CASE n =< m
    BY <1>1, <1>2, <2>1
  <2>2. CASE n >= m + 1
    BY <1>1, <1>2, <2>2
  <2> QED
    BY <1>1, <2>1, <2>2
<1>5. (m + 1) * PerSecond \in Nat
  OBVIOUS
<1> QED
  BY <1>1, <1>3, <1>4, <1>5 DEF n

\* A whole number of seconds, in ticks.
LEMMA TicksOfSeconds ==
  ASSUME NEW m \in Nat, NEW n \in 1..m
  PROVE  Ticks(n) \in PerSecond..(m * PerSecond)
BY DEF Ticks

-----------------------------------------------------------------------------
(* The invariant *)

\* Nothing is configured.
LEMMA InvInit == Init => Inv
BY DEF Init, Idle, Unbuilt, Inv, SavedFits, BuildFits

\* The default configuration is one.
LEMMA DefaultType == Default \in Configs
<1>1. DefaultSeconds * PerSecond \in 0..((MaxSeconds + 1) * PerSecond)
  <2>1. MaxSeconds \in Nat /\ DefaultSeconds \in 1..MaxSeconds
    OBVIOUS
  <2>2. Ticks(DefaultSeconds) \in PerSecond..(MaxSeconds * PerSecond)
    BY <2>1, TicksOfSeconds
  <2>3. MaxSeconds * PerSecond <= (MaxSeconds + 1) * PerSecond
    OBVIOUS
  <2> QED
    BY <2>2, <2>3 DEF Ticks
<1>2. [m \in Maps |-> {}] \in Headers
  BY DEF Headers
<1> QED
  BY <1>1, <1>2 DEF Default, Configs

\* A configuration is saved as a text.
LEMMA SaveInv ==
  ASSUME Inv, Save
  PROVE  Inv'
<1>1. config \in Configs /\ UNCHANGED <<config, build>> /\ saved' = config
  BY DEF Inv, Save
<1>2. text' = [url     |-> config.url,
               headers |-> config.headers,
               seconds |-> Seconds(config.interval)]
  BY DEF Save
<1>3. Seconds(config.interval) \in 0..(MaxSeconds + 1)
  <2>1. config.interval \in 0..((MaxSeconds + 1) * PerSecond)
    BY <1>1 DEF Configs
  <2> QED
    BY <2>1, SecondsOfTicks
<1>4. text' \in Texts
  BY <1>1, <1>2, <1>3 DEF Texts, Configs
<1> QED
  BY <1>1, <1>2, <1>4 DEF Inv, SavedFits, BuildFits, RequestFits, build

\* What a load that succeeds brings in is a configuration.
LEMMA LoadedFits ==
  ASSUME Inv, Load, loaded' = "ok"
  PROVE  config' \in Configs
<1>1. /\ text \in Texts
      /\ text.seconds = None \/ text.seconds \in 1..MaxSeconds
      /\ config' = [url      |-> Or(text.url, Default.url),
                    headers  |-> Or(text.headers, Default.headers),
                    interval |-> IF text.seconds = None THEN Default.interval
                                 ELSE Ticks(text.seconds)]
  BY DEF Inv, Load, Accepts
<1> DEFINE d == IF text.seconds = None THEN Default.interval
                ELSE Ticks(text.seconds)
<1>2. d \in PerSecond..(MaxSeconds * PerSecond)
  <2>1. MaxSeconds \in Nat /\ DefaultSeconds \in 1..MaxSeconds
    OBVIOUS
  <2>2. Default.interval = Ticks(DefaultSeconds)
    BY DEF Default, Ticks
  <2> QED
    BY <1>1, <2>1, <2>2, TicksOfSeconds
<1>3. d \in 0..((MaxSeconds + 1) * PerSecond)
  <2>1. MaxSeconds * PerSecond <= (MaxSeconds + 1) * PerSecond
    OBVIOUS
  <2> HIDE DEF d
  <2> QED
    BY <1>2, <2>1
<1>4. /\ Or(text.url, Default.url) \in Urls \cup {Invalid}
      /\ Or(text.headers, Default.headers) \in Headers
  BY <1>1, DefaultType DEF Or, Texts, Configs
<1> HIDE DEF d
<1>5. config' = [url      |-> Or(text.url, Default.url),
                 headers  |-> Or(text.headers, Default.headers),
                 interval |-> d]
  BY <1>1 DEF d
<1> QED
  BY <1>3, <1>4, <1>5 DEF Configs

\* A load starts anew.
LEMMA LoadInv ==
  ASSUME Inv, Load
  PROVE  Inv'
<1>1. /\ pc' = "idle" /\ request' = Unbuilt /\ UNCHANGED <<text, saved>>
      /\ text # None
  BY DEF Load
<1>2. config' \in Configs \cup {None}
  BY LoadedFits DEF Load
<1> QED
  BY <1>1, <1>2 DEF Inv, SavedFits, BuildFits, Unbuilt

\* A configuration is written, and a text composed, when there is neither.
LEMMA WriteInv ==
  ASSUME Inv, Write \/ Compose
  PROVE  Inv'
<1>1. config = None /\ text = None /\ saved' = saved /\ saved = None
  BY DEF Inv, Write, Compose, file
<1>2. UNCHANGED build /\ \A s \in Signals : request[s] = None
  BY <1>1 DEF Inv, BuildFits, RequestFits, Write, Compose
<1>3. config' \in Configs \cup {None} /\ text' \in Texts \cup {None}
  BY <1>1 DEF Write, Compose, file
<1> QED
  BY <1>1, <1>2, <1>3 DEF Inv, SavedFits, BuildFits, build

\* One exporter after the other.
LEMMA BuildInv ==
  ASSUME Inv, NEW s \in Signals, BuildExporter(s)
  PROVE  Inv'
<1>1. /\ pc = s /\ config \in Configs /\ UNCHANGED <<config, text, saved>>
      /\ pc' \in Signals \cup {"idle"}
  BY DEF Inv, BuildFits, BuildExporter, Fail, After, Signals, file
<1>2. CASE request' = request
  BY <1>1, <1>2 DEF Inv, SavedFits, BuildFits, RequestFits
<1>3. CASE request' # request
  <2>1. PICK h \in Sent(Merged(config.headers, s)) :
          request' = [request EXCEPT ![s] =
            [endpoint |-> Endpoint(config.url, s), headers |-> h]]
    BY <1>3 DEF BuildExporter, Fail
  <2>2. config.url # Invalid
    BY <1>3 DEF BuildExporter, Fail
  <2>3. ASSUME NEW r \in Signals, request'[r] # None
        PROVE  RequestFits(r)'
    BY <1>1, <2>1, <2>2, <2>3 DEF Inv, BuildFits, RequestFits
  <2>4. request' = [r \in Signals |-> request'[r]]
    BY <2>1 DEF Inv, BuildFits
  <2> QED
    BY <1>1, <2>3, <2>4 DEF Inv, SavedFits, BuildFits
<1> QED
  BY <1>2, <1>3

\* Every step.
LEMMA InvNext ==
  ASSUME Inv, [Next]_vars
  PROVE  Inv'
<1>1. CASE Build
  BY <1>1 DEF Build, Inv, SavedFits, BuildFits, RequestFits, file, Signals
<1>2. CASE UNCHANGED vars
  BY <1>2 DEF vars, file, build, Inv, SavedFits, BuildFits, RequestFits
<1> QED
  BY <1>1, <1>2, WriteInv, SaveInv, LoadInv, BuildInv DEF Next

\* Whatever is written, saved, loaded and built.
THEOREM Invariance == Spec => []Inv
BY InvInit, InvNext, PTL DEF Spec
-----------------------------------------------------------------------------
(* The configuration *)

\* What is saved with an interval the documentation allows is loaded again, as it
\* was but for a fraction of a second; what is saved with any other is refused.
THEOREM WhatIsSavedIsLoaded == Spec => SavedCanBeLoaded
<1> DEFINE Same == /\ loaded' = "ok"
                   /\ config' = [saved EXCEPT !.interval = config'.interval]
                   /\ saved.interval - config'.interval \in 0..(PerSecond - 1)
<1>1. ASSUME Inv, Load, saved # None
      PROVE  IF Allowed(saved.interval) THEN Same ELSE loaded' = "rejected"
  <2>1. /\ saved \in Configs
        /\ text = [url     |-> saved.url,
                   headers |-> saved.headers,
                   seconds |-> Seconds(saved.interval)]
    BY <1>1 DEF Inv, SavedFits
  <2>2. saved.url # None /\ saved.headers # None
    BY <2>1 DEF Configs
  <2>3. /\ MaxSeconds \in Nat /\ saved.interval \in Nat
        /\ saved.interval \in 0..((MaxSeconds + 1) * PerSecond)
    BY <2>1 DEF Configs
  <2>4. Accepts(text.seconds) <=> Allowed(saved.interval)
    BY <2>1, <2>3, AllowedSeconds DEF Allowed, Accepts
  <2>5. text.seconds # None
    <3>1. Seconds(saved.interval) \in 0..(MaxSeconds + 1)
      BY <2>3, SecondsOfTicks
    <3>2. text.seconds \in Nat
      BY <2>1, <2>3, <3>1
    <3> QED
      BY <3>2
  <2>6. CASE Allowed(saved.interval)
    <3>1. /\ loaded' = "ok"
          /\ config' = [url      |-> saved.url,
                        headers  |-> saved.headers,
                        interval |-> Ticks(Seconds(saved.interval))]
      BY <1>1, <2>1, <2>2, <2>4, <2>5, <2>6 DEF Load, Or
    <3>2. saved.interval - Ticks(Seconds(saved.interval)) \in 0..(PerSecond - 1)
      BY <2>3, SecondsOfTicks
    <3>3. Same
      BY <2>1, <3>1, <3>2 DEF Configs
    <3> QED
      BY <2>6, <3>3
  <2>7. CASE ~Allowed(saved.interval)
    BY <1>1, <2>4, <2>5, <2>7 DEF Load
  <2> QED
    BY <2>6, <2>7
<1>2. Inv /\ [Next]_vars =>
        [Load /\ saved # None =>
           IF Allowed(saved.interval) THEN Same ELSE loaded' = "rejected"]_vars
  BY <1>1
<1> QED
  BY <1>2, Invariance, PTL DEF Spec, SavedCanBeLoaded

-----------------------------------------------------------------------------
(* Headers *)

\* The headers of a request are those configured for its signal or for all.
THEOREM HeadersAreSent == Spec => []HeadersReachTheirSignal
<1>1. ASSUME Inv, NEW s \in Signals, Built(s)
      PROVE  DOMAIN request[s].headers =
               {Canonical[n] : n \in config.headers["common"] \cup config.headers[s]}
  <2>1. PICK h \in Sent(Merged(config.headers, s)) : request[s].headers = h
    BY <1>1 DEF Inv, BuildFits, RequestFits, Built
  <2>2. DOMAIN Merged(config.headers, s)
          = config.headers["common"] \cup config.headers[s]
    BY DEF Merged, Specific
  <2> QED
    BY <2>1, <2>2 DEF Sent
<1>2. Inv => HeadersReachTheirSignal
  BY <1>1 DEF HeadersReachTheirSignal
<1> QED
  BY <1>2, Invariance, PTL

\* The headers of a signal override the common ones, provided no two spellings
\* are one name to the HTTP client.
THEOREM SpecificOverrides ==
  ASSUME \A m, n \in Spellings : Canonical[m] = Canonical[n] => m = n
  PROVE  Spec => []SpecificOverridesCommon
<1>1. ASSUME Inv, NEW s \in Signals, Built(s), NEW n \in config.headers[s]
      PROVE  request[s].headers[Canonical[n]] = s
  <2>1. PICK h \in Sent(Merged(config.headers, s)) : request[s].headers = h
    BY <1>1 DEF Inv, BuildFits, RequestFits, Built
  <2>2. /\ config.headers \in Headers /\ s \in Maps
    BY <1>1 DEF Inv, BuildFits, RequestFits, Built, Configs, Maps
  <2>3. /\ DOMAIN Merged(config.headers, s) \subseteq Spellings
        /\ n \in DOMAIN Merged(config.headers, s)
        /\ Merged(config.headers, s)[n] = s
    BY <1>1, <2>2 DEF Merged, Specific, Headers, Maps
  <2>4. PICK m \in DOMAIN Merged(config.headers, s) :
          /\ Canonical[m] = Canonical[n]
          /\ h[Canonical[n]] = Merged(config.headers, s)[m]
    BY <2>1, <2>3 DEF Sent
  <2>5. m = n
    BY <2>3, <2>4
  <2> QED
    BY <2>1, <2>3, <2>4, <2>5
<1>2. Inv => SpecificOverridesCommon
  BY <1>1 DEF SpecificOverridesCommon
<1> QED
  BY <1>2, Invariance, PTL

-----------------------------------------------------------------------------
(* Endpoints *)

\* A set of naturals that is not empty has a least element.
LEMMA LeastNumber ==
  ASSUME NEW S \in SUBSET Nat, S # {}
  PROVE  \E m \in S : \A n \in S : m <= n
<1>1. IsWellFoundedOn(OpToRel(<, Nat), Nat)
  BY NatLessThanWellFounded
<1>2. PICK m \in S : \A n \in S : ~(<<n, m>> \in OpToRel(<, Nat))
  BY <1>1, WFMin
<1>3. \A n \in S : ~(n < m)
  BY <1>2 DEF OpToRel
<1> QED
  BY <1>3

\* Trimming keeps a prefix: there is a last token that is no slash, or none.
LEMMA TrimmedIsPrefix ==
  ASSUME NEW u \in Seq(Tokens)
  PROVE  \E k \in 0..Len(u) : Trimmed(u) = SubSeq(u, 1, k)
<1> DEFINE Keeps(i) == /\ \A j \in (i + 1)..Len(u) : u[j] = "/"
                       /\ i > 0 => u[i] # "/"
           T == {i \in 0..Len(u) : \A j \in (i + 1)..Len(u) : u[j] = "/"}
<1>1. Len(u) \in Nat /\ Len(u) \in T
  OBVIOUS
<1>2. PICK k \in T : \A i \in T : k <= i
  <2>1. T \in SUBSET Nat /\ T # {}
    BY <1>1
  <2> QED
    BY <2>1, LeastNumber
<1>3. Keeps(k)
  <2> SUFFICES ASSUME k > 0, u[k] = "/" PROVE FALSE
    BY <1>2
  <2>1. k - 1 \in 0..Len(u)
    BY <1>1, <1>2
  <2>2. \A j \in k..Len(u) : u[j] = "/"
    <3>1. ASSUME NEW j \in k..Len(u) PROVE u[j] = "/"
      <4>1. j = k \/ j \in (k + 1)..Len(u)
        BY <1>1, <1>2
      <4> QED
        BY <1>2, <4>1
    <3> QED
      BY <3>1
  <2>3. k - 1 \in T
    BY <1>1, <1>2, <2>1, <2>2
  <2>4. k \in Int
    BY <1>1, <1>2
  <2> HIDE DEF T
  <2>5. k <= k - 1
    BY <1>2, <2>3
  <2> QED
    BY <2>4, <2>5
<1>4. \E i \in 0..Len(u) : Keeps(i)
  BY <1>2, <1>3
<1>5. (CHOOSE i \in 0..Len(u) : Keeps(i)) \in 0..Len(u)
  BY <1>4
<1> QED
  BY <1>5 DEF Trimmed
\* The path of a URL without a query or fragment is all of it.
LEMMA PlainPath ==
  ASSUME NEW u \in Seq(Tokens), u # <<>>, \A i \in DOMAIN u : u[i] # "?"
  PROVE  Path(u) = u
<1>1. {i \in DOMAIN u : u[i] = "?"} = {}
  OBVIOUS
<1>2. Len(u) # 0 /\ SubSeq(u, 1, Len(u)) = u
  OBVIOUS
<1> QED
  BY <1>1, <1>2 DEF Path

\* A sequence ends in what was appended to it.
LEMMA EndsInSuffix ==
  ASSUME NEW v \in Seq(Tokens), NEW x \in Tokens, NEW y \in Tokens
  PROVE  /\ v \o <<x, y>> \in Seq(Tokens) /\ v \o <<x, y>> # <<>>
         /\ EndsWith(v \o <<x, y>>, <<x, y>>)
<1> DEFINE u == v \o <<x, y>>
<1>1. /\ u \in Seq(Tokens) /\ Len(u) = Len(v) + 2 /\ Len(v) \in Nat
      /\ u[Len(v) + 1] = x /\ u[Len(v) + 2] = y
  OBVIOUS
<1>2. SubSeq(u, Len(u) - 1, Len(u)) = <<x, y>>
  <2> DEFINE w == SubSeq(u, Len(v) + 1, Len(v) + 2)
  <2> HIDE DEF u
  <2>1. w \in Seq(Tokens) /\ Len(w) = 2 /\ w[1] = x /\ w[2] = y
    BY <1>1
  <2>2. w = <<x, y>>
    <3> DEFINE t == <<x, y>>
    <3>1. t \in Seq(Tokens) /\ Len(t) = 2 /\ t[1] = x /\ t[2] = y
      OBVIOUS
    <3> HIDE DEF w, t
    <3>2. Len(w) = Len(t) /\ \A i \in 1..Len(w) : w[i] = t[i]
      BY <2>1, <3>1
    <3>3. w = t
      BY <2>1, <3>1, <3>2, SeqEqual
    <3> QED
      BY <3>3 DEF t
  <2>3. Len(u) - 1 = Len(v) + 1 /\ Len(u) = Len(v) + 2
    BY <1>1
  <2> QED
    BY <2>2, <2>3
<1>3. Len(<<x, y>>) = 2
  OBVIOUS
<1> HIDE DEF u
<1>4. EndsWith(u, <<x, y>>)
  BY <1>1, <1>2, <1>3 DEF EndsWith
<1>5. u # <<>>
  BY <1>1
<1> QED
  BY <1>1, <1>4, <1>5 DEF u

\* The endpoint of a signal ends in its suffix.
LEMMA EndpointEnds ==
  ASSUME NEW u \in Seq(Tokens), \A i \in DOMAIN u : u[i] # "?",
         NEW s \in Signals
  PROVE  EndsWith(Path(Endpoint(u, s)), <<"/", Suffix[s]>>)
<1>1. CASE HasSuffix(u, s)
  BY <1>1 DEF HasSuffix, Endpoint
<1>2. CASE ~HasSuffix(u, s)
  <2>1. PICK k \in 0..Len(u) : Trimmed(u) = SubSeq(u, 1, k)
    BY TrimmedIsPrefix
  <2> DEFINE v == SubSeq(u, 1, k)
             e == v \o <<"/", Suffix[s]>>
  <2>2. /\ v \in Seq(Tokens) /\ Len(v) = k
        /\ \A i \in 1..k : v[i] = u[i]
    OBVIOUS
  <2>3. "/" \in Tokens /\ Suffix[s] \in Tokens
    BY DEF Tokens
  <2>4. Suffix[s] # "?"
    BY DEF Suffix, Signals
  <2>5. e \in Seq(Tokens) /\ e # <<>> /\ EndsWith(e, <<"/", Suffix[s]>>)
    BY <2>2, <2>3, EndsInSuffix
  <2>6. \A i \in DOMAIN e : e[i] # "?"
    <3>1. Len(e) = k + 2 /\ e[k + 1] = "/" /\ e[k + 2] = Suffix[s]
      BY <2>2
    <3>2. \A i \in 1..k : e[i] = u[i] /\ i \in DOMAIN u
      BY <2>2
    <3>3. \A i \in 1..(k + 2) : i \in 1..k \/ i = k + 1 \/ i = k + 2
      BY <2>2
    <3> HIDE DEF e
    <3> QED
      BY <2>4, <2>5, <3>1, <3>2, <3>3
  <2>7. Path(e) = e
    BY <2>5, <2>6, PlainPath
  <2>8. Endpoint(u, s) = e
    BY <1>2, <2>1 DEF Endpoint
  <2> QED
    BY <2>5, <2>7, <2>8
<1> QED
  BY <1>1, <1>2

\* Each request goes to a path that ends in the suffix of its own signal,
\* provided no collector URL has a query or a fragment.
THEOREM EndpointsAreSignalPaths ==
  ASSUME \A u \in Urls : \A i \in DOMAIN u : u[i] # "?"
  PROVE  Spec => []PostsToSignalPath
<1>1. ASSUME Inv, NEW s \in Signals, Built(s)
      PROVE  EndsWith(Path(request[s].endpoint), <<"/", Suffix[s]>>)
  <2>1. config.url \in Urls /\ request[s].endpoint = Endpoint(config.url, s)
    BY <1>1 DEF Inv, BuildFits, RequestFits, Built, Configs
  <2> QED
    BY <2>1, EndpointEnds
<1>2. Inv => PostsToSignalPath
  BY <1>1 DEF PostsToSignalPath
<1> QED
  BY <1>2, Invariance, PTL
=============================================================================
