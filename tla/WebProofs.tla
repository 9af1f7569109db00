----------------------------- MODULE WebProofs -----------------------------
(***************************************************************************)
(* Theorems about WebProbe, for any lists of URLs, any configuration and   *)
(* any order in which the goroutines come to their ends.                   *)
(***************************************************************************)
EXTENDS WebProbe, FiniteSets, FiniteSetTheorems, TLAPS

(* The URLs whose goroutine has counted.                                   *)
Ended == {i \in Index : gpc[i] = "done" /\ err[i] # cfg.expect}

ShapeInv ==
    /\ urls \in Lists
    /\ cfg \in Configs
    /\ pc \in {"launch", "wait", "returned"}
    /\ launched \in 0..NumUrls
    /\ gpc \in [Index -> {"none", "get", "record", "end", "done"}]
    /\ resp \in [Index -> Responses \cup {NoResponse}]
    /\ err \in [Index -> BOOLEAN]

(* What err says at each place of a goroutine: nothing before the end,     *)
(* then that the check of the URL was not positive.                        *)
JudgeInv ==
    \A i \in Index :
        /\ i > launched => gpc[i] = "none"
        /\ gpc[i] \in {"none", "get"} => resp[i] = NoResponse
        /\ gpc[i] = "record" => resp[i] \in Responses
        /\ gpc[i] \in {"end", "done"} => err[i] = ~Positive(resp[i])

CountInv ==
    /\ done = Cardinality(Ended)
    /\ result.data => AllDone /\ result.succ = (done = NumUrls)
    /\ result.data => pc = "returned"

IndInv == ShapeInv /\ JudgeInv /\ CountInv

(* The code's judgement of a response, status first and then the body, is  *)
(* the documented one.                                                     *)
LEMMA Judgement ==
    ASSUME cfg \in Configs, NEW r \in Responses
    PROVE  ((cfg.status /\ ~r.status) \/ BodyError(r)) <=> ~Positive(r)
<1>1. r.got /\ (r.matches => r.readable) /\ (r.text # Empty => r.matches /\ cfg.group)
  BY DEF Responses
<1>2. /\ cfg.required \/ cfg.invert \/ cfg.group => cfg.regex
      /\ cfg.captureRegex => cfg.group
  BY DEF Configs
<1>3. Capture(r) = r.text
  BY <1>1 DEF Capture
<1>4. /\ cfg.invert \in BOOLEAN /\ cfg.captureInvert \in BOOLEAN
      /\ r.matches \in BOOLEAN /\ r.readable \in BOOLEAN
  BY DEF Configs, Responses
<1>5. (Matched(r) = cfg.invert) <=> ~(r.matches # cfg.invert)
  BY DEF Matched
<1>6. (CaptureMatched(r) = cfg.captureInvert) <=>
        ~(IF cfg.captureInvert THEN r.text \notin cfg.matching ELSE r.text \in cfg.matching)
  BY <1>3, <1>4 DEF CaptureMatched
<1> QED BY <1>1, <1>2, <1>5, <1>6 DEF BodyError, Positive

(* A counter of some of n goroutines stays within n, reaches n only when   *)
(* it has counted all, and moves by one when one more is counted.          *)
LEMMA CountSome ==
    ASSUME NEW n \in Nat, NEW S \in SUBSET (1..n)
    PROVE  /\ Cardinality(S) \in 0..n
           /\ Cardinality(S) = n <=> S = 1..n
           /\ \A i \in (1..n) \ S : Cardinality(S \cup {i}) = Cardinality(S) + 1
<1>1. IsFiniteSet(1..n) /\ Cardinality(1..n) = n
  BY FS_Interval
<1>2. IsFiniteSet(S) /\ Cardinality(S) <= n /\ (Cardinality(S) = n => S = 1..n)
  BY <1>1, FS_Subset
<1>3. Cardinality(S) \in Nat
  BY <1>2, FS_CardinalityType
<1>4. ASSUME NEW i \in (1..n) \ S
      PROVE  Cardinality(S \cup {i}) = Cardinality(S) + 1
  BY <1>2, <1>4, FS_AddElement
<1> QED BY <1>1, <1>2, <1>3, <1>4

(* Before anything is launched nothing is counted.                         *)
LEMMA InvInit == Init => IndInv
<1> SUFFICES ASSUME Init
             PROVE  IndInv
  OBVIOUS
<1>1. Ended = {}
  BY DEF Init, Ended
<1>2. launched \in 0..NumUrls
  BY WebAssumption DEF Init
<1>3. /\ gpc \in [Index -> {"none", "get", "record", "end", "done"}]
      /\ resp \in [Index -> Responses \cup {NoResponse}]
      /\ err \in [Index -> BOOLEAN]
  BY DEF Init
<1>4. ShapeInv
  BY <1>2, <1>3 DEF Init, ShapeInv
<1>5. JudgeInv
  BY DEF Init, JudgeInv
<1>6. CountInv
  BY <1>1, FS_EmptySet DEF Init, CountInv
<1> QED BY <1>4, <1>5, <1>6 DEF IndInv

(* A step of the runner leaves what has been judged and counted alone.     *)
LEMMA RunnerKeeps ==
    ASSUME IndInv, RunnerStep
    PROVE  IndInv'
<1> USE WebAssumption DEF Index
<1>a. UNCHANGED <<urls, cfg>>
  BY DEF RunnerStep, Launch, RefuseUrl, LaunchedAll, Return
<1>b. Responses' = Responses
  BY <1>a DEF Responses
<1>c. \A r : Positive(r)' <=> Positive(r)
  BY <1>a DEF Positive
<1>1. CASE Launch
  <2>1. /\ launched < NumUrls /\ launched' = launched + 1
        /\ gpc' = [gpc EXCEPT ![launched + 1] = "get"]
        /\ gpc[launched + 1] = "none"
    BY <1>1 DEF Launch, IndInv, ShapeInv, JudgeInv
  <2>2. gpc' \in [Index -> {"none", "get", "record", "end", "done"}]
    BY <2>1 DEF IndInv, ShapeInv
  <2>3. ShapeInv'
    BY <1>1, <1>b, <2>1, <2>2 DEF Launch, IndInv, ShapeInv
  <2>4. ASSUME NEW j \in Index
        PROVE  gpc'[j] = IF j = launched + 1 THEN "get" ELSE gpc[j]
    BY <2>1 DEF IndInv, ShapeInv
  <2>5. UNCHANGED <<resp, err>>
    BY <1>1 DEF Launch
  <2>6. JudgeInv'
    BY <1>b, <1>c, <2>1, <2>4, <2>5 DEF IndInv, ShapeInv, JudgeInv
  <2>7. Ended' = Ended
    BY <1>a, <2>1, <2>4, <2>5 DEF Ended
  <2>8. ~result.data
    BY <1>1 DEF Launch, IndInv, CountInv
  <2>9. CountInv'
    BY <1>1, <2>7, <2>8 DEF Launch, IndInv, CountInv
  <2> QED BY <2>3, <2>6, <2>9 DEF IndInv
<1>2. CASE RefuseUrl \/ LaunchedAll
  <2>1. UNCHANGED <<urls, cfg, launched, gpc, resp, err, data, done, result>>
    BY <1>2 DEF RefuseUrl, LaunchedAll
  <2>2. pc = "launch" /\ pc' \in {"wait", "returned"}
    BY <1>2 DEF RefuseUrl, LaunchedAll
  <2>3. ShapeInv'
    BY <1>b, <2>1, <2>2 DEF IndInv, ShapeInv
  <2>4. JudgeInv'
    BY <1>b, <1>c, <2>1 DEF IndInv, JudgeInv
  <2>5. CountInv'
    BY <2>1, <2>2 DEF IndInv, CountInv, Ended, AllDone
  <2> QED BY <2>3, <2>4, <2>5 DEF IndInv
<1>3. CASE Return
  <2>1. UNCHANGED <<urls, cfg, launched, gpc, resp, err, data, done>>
    BY <1>3 DEF Return
  <2>2. AllDone /\ pc' = "returned" /\ result' = [succ |-> done = NumUrls, data |-> TRUE]
    BY <1>3 DEF Return
  <2>3. ShapeInv'
    BY <1>b, <2>1, <2>2 DEF IndInv, ShapeInv
  <2>4. JudgeInv'
    BY <1>b, <1>c, <2>1 DEF IndInv, JudgeInv
  <2>5. CountInv'
    BY <2>1, <2>2 DEF IndInv, CountInv, Ended, AllDone
  <2> QED BY <2>3, <2>4, <2>5 DEF IndInv
<1> QED BY <1>1, <1>2, <1>3 DEF RunnerStep

(* A step of a goroutine judges or counts its own URL and no other.        *)
LEMMA UrlKeeps ==
    ASSUME IndInv, NEW i \in Index, UrlStep(i)
    PROVE  IndInv'
<1> USE WebAssumption DEF Index
<1>1. UNCHANGED <<urls, cfg, pc, launched, result>> /\ gpc[i] \in {"get", "record", "end"}
  BY DEF UrlStep, FailedGet, Get, Record, End
<1>2. ~result.data
  BY <1>1 DEF IndInv, CountInv, AllDone
<1>3. ~(i > launched)
  BY <1>1 DEF IndInv, JudgeInv
<1>4. Responses' = Responses
  BY <1>1 DEF Responses
<1>5. \A r : Positive(r)' <=> Positive(r)
  BY <1>1 DEF Positive
<1>6. CASE FailedGet(i)
  <2>1. /\ gpc[i] = "get" /\ gpc' = [gpc EXCEPT ![i] = "end"]
        /\ err' = [err EXCEPT ![i] = TRUE] /\ UNCHANGED <<resp, done>>
    BY <1>6 DEF FailedGet
  <2>2. ShapeInv'
    BY <1>1, <1>4, <2>1 DEF IndInv, ShapeInv
  <2>3. ~Positive(resp[i])
    BY <2>1 DEF IndInv, JudgeInv, Positive, NoResponse
  <2>4. JudgeInv'
    BY <1>1, <1>3, <1>4, <1>5, <2>1, <2>3 DEF IndInv, ShapeInv, JudgeInv
  <2>5. Ended' = Ended
    BY <1>1, <2>1 DEF IndInv, ShapeInv, Ended
  <2>6. CountInv'
    BY <1>1, <1>2, <2>1, <2>5 DEF IndInv, CountInv
  <2> QED BY <2>2, <2>4, <2>6 DEF IndInv
<1>7. CASE Get(i)
  <2>1. PICK r \in Responses : resp' = [resp EXCEPT ![i] = r]
    BY <1>7 DEF Get
  <2>2. ShapeInv'
    BY <1>1, <1>4, <1>7, <2>1 DEF Get, IndInv, ShapeInv
  <2>3. JudgeInv'
    BY <1>1, <1>3, <1>4, <1>7, <2>1 DEF Get, IndInv, ShapeInv, JudgeInv, Positive
  <2>4. Ended' = Ended
    BY <1>1, <1>7 DEF Get, IndInv, ShapeInv, Ended
  <2>5. CountInv'
    BY <1>1, <1>2, <1>7, <2>4 DEF Get, IndInv, CountInv
  <2> QED BY <2>2, <2>3, <2>5 DEF IndInv
<1>8. CASE Record(i)
  <2>1. resp[i] \in Responses /\ cfg \in Configs
    BY <1>8 DEF Record, IndInv, ShapeInv, JudgeInv
  <2>2. (cfg.status /\ ~resp[i].status) \/ BodyError(resp[i]) <=> ~Positive(resp[i])
    BY <2>1, Judgement
  <2>3. err' = [err EXCEPT ![i] = ~Positive(resp[i])]
    BY <1>8, <2>2 DEF Record
  <2>4. Positive(resp[i]) \in BOOLEAN
    BY DEF Positive
  <2>5. ShapeInv'
    BY <1>1, <1>4, <1>8, <2>3, <2>4 DEF Record, IndInv, ShapeInv
  <2>6. JudgeInv'
    BY <1>1, <1>3, <1>4, <1>8, <2>3 DEF Record, IndInv, ShapeInv, JudgeInv, Positive
  <2>7. Ended' = Ended
    BY <1>1, <1>8, <2>3 DEF Record, IndInv, ShapeInv, Ended
  <2>8. CountInv'
    BY <1>1, <1>2, <1>8, <2>7 DEF Record, IndInv, CountInv
  <2> QED BY <2>5, <2>6, <2>8 DEF IndInv
<1>9. CASE End(i)
  <2>1. ShapeInv'
    BY <1>1, <1>4, <1>9 DEF End, IndInv, ShapeInv
  <2>2. JudgeInv'
    BY <1>1, <1>3, <1>4, <1>9 DEF End, IndInv, ShapeInv, JudgeInv, Positive
  <2>3. Ended' = IF err[i] # cfg.expect THEN Ended \cup {i} ELSE Ended
    BY <1>1, <1>9 DEF End, IndInv, ShapeInv, Ended
  <2>4. i \notin Ended /\ Ended \in SUBSET (1..NumUrls)
    BY <1>9 DEF End, Ended
  <2>5. done' = Cardinality(Ended')
    BY <1>9, <2>3, <2>4, CountSome DEF End, IndInv, CountInv
  <2>6. CountInv'
    BY <1>1, <1>2, <2>5 DEF CountInv
  <2> QED BY <2>1, <2>2, <2>6 DEF IndInv
<1> QED BY <1>6, <1>7, <1>8, <1>9 DEF UrlStep

(* The inductive invariant holds in every reachable state.                 *)
LEMMA Invariance == Spec => []IndInv
<1>1. ASSUME IndInv, UNCHANGED vars
      PROVE  IndInv'
  <2>1. Responses' = Responses /\ \A r : Positive(r)' <=> Positive(r)
    BY <1>1 DEF vars, Responses, Positive
  <2>2. ShapeInv' /\ JudgeInv'
    BY <1>1, <2>1 DEF vars, IndInv, ShapeInv, JudgeInv
  <2>3. CountInv'
    BY <1>1 DEF vars, IndInv, CountInv, Ended, AllDone
  <2> QED BY <2>2, <2>3 DEF IndInv
<1>2. IndInv /\ [Next]_vars => IndInv'
  BY <1>1, RunnerKeeps, UrlKeeps DEF Next
<1> QED BY <1>2, InvInit, PTL DEF Spec

(* The counter compared with the length of the list is the conjunction     *)
(* over the list of the documented check of each URL, under any schedule.  *)
THEOREM VerdictIsByUrl == Spec => []VerdictByUrl
<1>1. IndInv => VerdictByUrl
  <2> SUFFICES ASSUME IndInv, result.data
               PROVE  result.succ <=> \A i \in Index : Positive(resp[i]) = cfg.expect
    BY DEF VerdictByUrl
  <2>1. \A i \in Index : gpc[i] = "done" /\ err[i] = ~Positive(resp[i])
    BY DEF IndInv, CountInv, AllDone, JudgeInv
  <2>2. cfg.expect \in BOOLEAN /\ \A i \in Index : Positive(resp[i]) \in BOOLEAN
    BY DEF IndInv, ShapeInv, Configs, Positive
  <2>3. \A i \in Index : err[i] # cfg.expect <=> Positive(resp[i]) = cfg.expect
    BY <2>1, <2>2
  <2>4. Ended = {i \in Index : Positive(resp[i]) = cfg.expect}
    BY <2>1, <2>3 DEF Ended
  <2>5. Cardinality(Ended) = NumUrls <=> Ended = Index
    BY WebAssumption, CountSome DEF Ended, Index
  <2>6. result.succ = (Cardinality(Ended) = NumUrls)
    BY DEF IndInv, CountInv
  <2> QED BY <2>4, <2>5, <2>6
<1> QED BY <1>1, Invariance, PTL

(* No goroutine touches the maps, nor Runner its verdict, once they have   *)
(* been returned.                                                          *)
THEOREM ResultIsFinal == Spec => ResultFinal
<1>1. ASSUME IndInv, [Next]_vars, result.data
      PROVE  UNCHANGED <<data, result>>
  <2>1. pc = "returned" /\ \A i \in Index : gpc[i] = "done"
    BY <1>1 DEF IndInv, CountInv, AllDone
  <2>2. ~RunnerStep /\ \A i \in Index : ~UrlStep(i)
    BY <2>1 DEF RunnerStep, Launch, RefuseUrl, LaunchedAll, Return,
                UrlStep, FailedGet, Get, Record, End
  <2> QED BY <1>1, <2>2 DEF Next, vars
<1> QED BY <1>1, Invariance, PTL DEF Spec, ResultFinal

-----------------------------------------------------------------------------
(* What is exported.                                                       *)

(* The URLs that have been checked; each entry of a map is what one of     *)
(* them with that key was found to have.                                   *)
Checked == {i \in Index : gpc[i] \in {"end", "done"}}
FromOne(map, checked, found) ==
    \A k \in Keys : map[k] = {} \/ \E j \in checked : urls[j] = k /\ map[k] = {found[j]}

Statuses == [i \in Index |-> resp[i].status]
Matches == [i \in Index |-> resp[i].matches]
Captured == [i \in Index |-> resp[i].text]
Hits == [i \in Index |-> Hit(resp[i])]

ExportInv ==
    /\ data \in [timings : SUBSET Keys, status : [Keys -> SUBSET BOOLEAN],
                 regex : [Keys -> SUBSET BOOLEAN], captures : [Keys -> SUBSET Captures],
                 captureMatches : [Keys -> SUBSET BOOLEAN]]
    /\ \A i \in Index : gpc[i] # "none" => urls[i] \in Keys
    /\ \A i \in Index : resp[i].got => urls[i] \in data.timings
    /\ \A i \in Checked : /\ resp[i].got => data.status[urls[i]] # {}
                          /\ cfg.regex => data.regex[urls[i]] # {}
                          /\ cfg.group => data.captures[urls[i]] # {}
                          /\ cfg.captureRegex /\ (resp[i].got => resp[i].readable) =>
                               data.captureMatches[urls[i]] # {}
    /\ FromOne(data.status, Checked, Statuses)
    /\ FromOne(data.regex, Checked, Matches)
    /\ FromOne(data.captures, Checked, Captured)
    /\ FromOne(data.captureMatches, Checked, Hits)

LEMMA ExportInit == Init => ExportInv
<1> SUFFICES ASSUME Init
             PROVE  ExportInv
  OBVIOUS
<1>1. Checked = {}
  BY DEF Init, Checked
<1>2. data = NoData
  BY DEF Init
<1>3. \A k \in Keys : data.status[k] = {} /\ data.regex[k] = {} /\ data.captures[k] = {}
                  /\ data.captureMatches[k] = {}
  BY <1>2 DEF NoData
<1>4. data \in [timings : SUBSET Keys, status : [Keys -> SUBSET BOOLEAN],
                regex : [Keys -> SUBSET BOOLEAN], captures : [Keys -> SUBSET Captures],
                captureMatches : [Keys -> SUBSET BOOLEAN]]
  BY <1>2 DEF NoData
<1>5. \A i \in Index : gpc[i] = "none" /\ ~resp[i].got
  BY DEF Init, NoResponse
<1> QED BY <1>1, <1>3, <1>4, <1>5 DEF ExportInv, FromOne

(* One more URL is checked, and perhaps written at its key.                *)
LEMMA OneMore ==
    ASSUME NEW V, NEW map \in [Keys -> SUBSET V], NEW checked, NEW found, NEW now,
           FromOne(map, checked, found),
           NEW i, urls[i] \in Keys,
           \A j \in checked : now[j] = found[j],
           NEW asked \in BOOLEAN
    PROVE  FromOne(PutIf(asked, map, urls[i], now[i]), checked \cup {i}, now)
  BY DEF FromOne, PutIf, Put

LEMMA PutSome ==
    ASSUME NEW V, NEW map \in [Keys -> SUBSET V], NEW k, NEW v \in V, NEW asked \in BOOLEAN
    PROVE  PutIf(asked, map, k, v) \in [Keys -> SUBSET V]
  BY DEF PutIf, Put

LEMMA PutFills ==
    ASSUME NEW map, DOMAIN map = Keys, NEW k \in Keys, NEW v, NEW asked \in BOOLEAN
    PROVE  /\ asked => PutIf(asked, map, k, v)[k] # {}
           /\ \A l \in Keys : map[l] # {} => PutIf(asked, map, k, v)[l] # {}
  BY DEF PutIf, Put

(* When a URL comes to its end, what it was found to have is in the maps.  *)
LEMMA CheckedKeeps ==
    ASSUME IndInv, ExportInv, NEW i \in Index, FailedGet(i) \/ Record(i)
    PROVE  ExportInv'
<1> DEFINE k == urls[i]
<1>1. /\ UNCHANGED <<urls, cfg, resp>> /\ gpc[i] \in {"get", "record"} /\ k \in Keys
      /\ gpc' = [gpc EXCEPT ![i] = "end"] /\ gpc \in [Index -> {"none", "get", "record", "end", "done"}]
  BY DEF FailedGet, Record, ExportInv, IndInv, ShapeInv
<1>2. Checked' = Checked \cup {i} /\ i \notin Checked
  BY <1>1 DEF Checked
<1>3. Statuses' = Statuses /\ Matches' = Matches /\ Captured' = Captured
      /\ Hits' = Hits
  BY <1>1 DEF Statuses, Matches, Captured, Hits, Hit
<1>4. cfg.regex \in BOOLEAN /\ cfg.group \in BOOLEAN /\ cfg.captureRegex \in BOOLEAN
  <2>1. cfg \in Configs
    BY DEF IndInv, ShapeInv
  <2>2. Configs \subseteq [expect : BOOLEAN, limited : BOOLEAN, status : BOOLEAN,
            regex : BOOLEAN, required : BOOLEAN, invert : BOOLEAN, group : BOOLEAN, captureRegex : BOOLEAN,
            matching : SUBSET Captures, captureInvert : BOOLEAN]
    BY DEF Configs
  <2> QED BY <2>1, <2>2
<1>5. resp[i] \in Responses \cup {NoResponse}
  BY DEF IndInv, ShapeInv
<1>6. /\ resp[i].status \in BOOLEAN /\ resp[i].matches \in BOOLEAN
      /\ resp[i].text \in Captures
  <2>1. Responses \subseteq [got : {TRUE}, status : BOOLEAN, readable : BOOLEAN,
                             matches : BOOLEAN, text : Captures]
    BY DEF Responses
  <2>2. CASE resp[i] = NoResponse
    BY <2>2 DEF NoResponse, Captures
  <2> QED BY <1>5, <2>1, <2>2
<1>7. /\ data.status \in [Keys -> SUBSET BOOLEAN] /\ data.regex \in [Keys -> SUBSET BOOLEAN]
      /\ data.captures \in [Keys -> SUBSET Captures]
      /\ data.captureMatches \in [Keys -> SUBSET BOOLEAN]
      /\ data.timings \in SUBSET Keys
  BY DEF ExportInv
<1>a. /\ DOMAIN data.status = Keys /\ DOMAIN data.regex = Keys /\ DOMAIN data.captures = Keys
      /\ DOMAIN data.captureMatches = Keys /\ k \in Keys
  BY <1>1, <1>7
<1>8. PICK judged \in BOOLEAN, asked \in BOOLEAN, m \in BOOLEAN :
        /\ data' = [timings |-> data.timings,
                    status |-> PutIf(judged, data.status, k, resp[i].status),
                    regex |-> PutIf(cfg.regex, data.regex, k, resp[i].matches),
                    captures |-> PutIf(cfg.group, data.captures, k, resp[i].text),
                    captureMatches |-> PutIf(asked, data.captureMatches, k, m)]
        /\ resp[i].got => judged
        /\ cfg.captureRegex /\ (resp[i].got => resp[i].readable) => asked
        /\ m = Hit(resp[i])
  <2>1. CASE FailedGet(i)
    <3>1. resp[i] = NoResponse
      BY <2>1 DEF FailedGet, IndInv, JudgeInv
    <3>2. data' = [data EXCEPT
             !.regex = PutIf(cfg.regex, @, k, FALSE),
             !.captures = PutIf(cfg.group, @, k, Empty),
             !.captureMatches = PutIf(cfg.captureRegex, @, k, FALSE)]
      BY <2>1 DEF FailedGet
    <3>3. PutIf(FALSE, data.status, k, resp[i].status) = data.status
      BY DEF PutIf
    <3>4. ~resp[i].got /\ resp[i].matches = FALSE /\ resp[i].text = Empty
      BY <3>1 DEF NoResponse
    <3>5. data' = [timings |-> data.timings,
                    status |-> PutIf(FALSE, data.status, k, resp[i].status),
                    regex |-> PutIf(cfg.regex, data.regex, k, resp[i].matches),
                    captures |-> PutIf(cfg.group, data.captures, k, resp[i].text),
                    captureMatches |-> PutIf(cfg.captureRegex, data.captureMatches, k, FALSE)]
      BY <3>2, <3>3, <3>4 DEF ExportInv
    <3> QED BY <1>4, <3>4, <3>5 DEF Hit
  <2>2. CASE Record(i)
    <3>1. resp[i] \in Responses
      BY <2>2 DEF Record, IndInv, JudgeInv
    <3>2. Matched(resp[i]) = resp[i].matches /\ Capture(resp[i]) = resp[i].text
      BY <3>1 DEF Matched, Capture, Responses
    <3>3. data' = [data EXCEPT
             !.status = Put(@, k, resp[i].status),
             !.regex = PutIf(cfg.regex, @, k, Matched(resp[i])),
             !.captures = PutIf(cfg.group, @, k, Capture(resp[i])),
             !.captureMatches = PutIf(cfg.captureRegex /\ resp[i].readable, @, k,
                                      CaptureMatched(resp[i]))]
      BY <2>2 DEF Record
    <3>4. PutIf(TRUE, data.status, k, resp[i].status) = Put(data.status, k, resp[i].status)
      BY DEF PutIf
    <3>5. data' = [timings |-> data.timings,
                    status |-> PutIf(TRUE, data.status, k, resp[i].status),
                    regex |-> PutIf(cfg.regex, data.regex, k, resp[i].matches),
                    captures |-> PutIf(cfg.group, data.captures, k, resp[i].text),
                    captureMatches |-> PutIf(cfg.captureRegex /\ resp[i].readable,
                                             data.captureMatches, k, CaptureMatched(resp[i]))]
      BY <3>2, <3>3, <3>4 DEF ExportInv
    <3>6. (cfg.captureRegex /\ resp[i].readable) \in BOOLEAN /\ CaptureMatched(resp[i]) \in BOOLEAN
      BY DEF CaptureMatched
    <3>7. CaptureMatched(resp[i]) = Hit(resp[i])
      <4>1. resp[i].got = TRUE
        BY <3>1 DEF Responses
      <4>2. CaptureMatched(resp[i]) = (resp[i].text \in cfg.matching)
        BY <3>2 DEF CaptureMatched
      <4>3. Hit(resp[i]) = (resp[i].text \in cfg.matching)
        BY <4>1 DEF Hit
      <4> QED BY <4>2, <4>3
    <3> QED BY <3>1, <3>5, <3>6, <3>7 DEF Responses
  <2> QED BY <2>1, <2>2
<1>9. data' \in [timings : SUBSET Keys, status : [Keys -> SUBSET BOOLEAN],
                 regex : [Keys -> SUBSET BOOLEAN], captures : [Keys -> SUBSET Captures],
                 captureMatches : [Keys -> SUBSET BOOLEAN]]
  BY <1>4, <1>6, <1>7, <1>8, PutSome
<1>10. /\ FromOne(data'.status, Checked', Statuses)
       /\ FromOne(data'.regex, Checked', Matches)
       /\ FromOne(data'.captures, Checked', Captured)
       /\ FromOne(data'.captureMatches, Checked', Hits)
  <2>1. /\ Statuses[i] = resp[i].status /\ Matches[i] = resp[i].matches
        /\ Captured[i] = resp[i].text /\ Hits[i] = Hit(resp[i])
    BY DEF Statuses, Matches, Captured, Hits
  <2>2. /\ FromOne(data.status, Checked, Statuses)
        /\ FromOne(data.regex, Checked, Matches)
        /\ FromOne(data.captures, Checked, Captured)
        /\ FromOne(data.captureMatches, Checked, Hits)
    BY DEF ExportInv
  <2>3. FromOne(PutIf(judged, data.status, k, Statuses[i]), Checked \cup {i}, Statuses)
    BY <1>1, <1>7, <2>2, OneMore
  <2>4. FromOne(PutIf(cfg.regex, data.regex, k, Matches[i]), Checked \cup {i}, Matches)
    BY <1>1, <1>4, <1>7, <2>2, OneMore
  <2>5. FromOne(PutIf(cfg.group, data.captures, k, Captured[i]), Checked \cup {i}, Captured)
    BY <1>1, <1>4, <1>7, <2>2, OneMore
  <2>6. FromOne(PutIf(asked, data.captureMatches, k, Hits[i]), Checked \cup {i}, Hits)
    BY <1>1, <1>7, <2>2, OneMore
  <2> QED BY <1>2, <1>8, <2>1, <2>3, <2>4, <2>5, <2>6
<1>11. ASSUME NEW j \in Checked'
       PROVE  /\ resp[j].got => data'.status[urls[j]] # {}
              /\ cfg.regex => data'.regex[urls[j]] # {}
              /\ cfg.group => data'.captures[urls[j]] # {}
              /\ cfg.captureRegex /\ (resp[j].got => resp[j].readable) =>
                   data'.captureMatches[urls[j]] # {}
  <2>1. /\ resp[i].got => data'.status[k] # {}
        /\ \A l \in Keys : data.status[l] # {} => data'.status[l] # {}
    <3>1. /\ judged => PutIf(judged, data.status, k, resp[i].status)[k] # {}
          /\ \A l \in Keys : data.status[l] # {} =>
               PutIf(judged, data.status, k, resp[i].status)[l] # {}
      BY ONLY <1>a, <1>4, judged \in BOOLEAN, PutFills
    <3> QED BY <1>8, <3>1
  <2>2. /\ cfg.regex => data'.regex[k] # {}
        /\ \A l \in Keys : data.regex[l] # {} => data'.regex[l] # {}
    <3>1. /\ cfg.regex => PutIf(cfg.regex, data.regex, k, resp[i].matches)[k] # {}
          /\ \A l \in Keys : data.regex[l] # {} =>
               PutIf(cfg.regex, data.regex, k, resp[i].matches)[l] # {}
      BY ONLY <1>a, <1>4, judged \in BOOLEAN, PutFills
    <3> QED BY <1>8, <3>1
  <2>3. /\ cfg.group => data'.captures[k] # {}
        /\ \A l \in Keys : data.captures[l] # {} => data'.captures[l] # {}
    <3>1. /\ cfg.group => PutIf(cfg.group, data.captures, k, resp[i].text)[k] # {}
          /\ \A l \in Keys : data.captures[l] # {} =>
               PutIf(cfg.group, data.captures, k, resp[i].text)[l] # {}
      BY ONLY <1>a, <1>4, judged \in BOOLEAN, PutFills
    <3> QED BY <1>8, <3>1
  <2>4. /\ cfg.captureRegex /\ (resp[i].got => resp[i].readable) => data'.captureMatches[k] # {}
        /\ \A l \in Keys : data.captureMatches[l] # {} => data'.captureMatches[l] # {}
    <3>1. /\ asked => PutIf(asked, data.captureMatches, k, m)[k] # {}
          /\ \A l \in Keys : data.captureMatches[l] # {} =>
               PutIf(asked, data.captureMatches, k, m)[l] # {}
      BY ONLY <1>a, asked \in BOOLEAN, PutFills
    <3> QED BY <1>8, <3>1
  <2>6. CASE j = i
    BY <2>1, <2>2, <2>3, <2>4, <2>6
  <2>5. CASE j # i
    <3>1. j \in Checked /\ urls[j] \in Keys
      BY <1>2, <2>5 DEF Checked, ExportInv
    <3> QED BY <2>1, <2>2, <2>3, <2>4, <3>1 DEF ExportInv
  <2> QED BY <2>5, <2>6
<1> QED
  <2>1. /\ \A j \in Index : gpc'[j] # "none" => urls'[j] \in Keys
        /\ \A j \in Index : resp'[j].got => urls'[j] \in data'.timings
    BY <1>1, <1>8 DEF ExportInv
  <2>2. /\ FromOne(data.status, Checked, Statuses)'
        /\ FromOne(data.regex, Checked, Matches)'
        /\ FromOne(data.captures, Checked, Captured)'
        /\ FromOne(data.captureMatches, Checked, Hits)'
    BY <1>1, <1>3, <1>10 DEF FromOne
  <2> QED BY <1>1, <1>9, <1>11, <2>1, <2>2 DEF ExportInv

(* A response is noted in the timings before anything is checked.          *)
LEMMA GetKeeps ==
    ASSUME IndInv, ExportInv, NEW i \in Index, Get(i)
    PROVE  ExportInv'
<1>1. PICK r \in Responses : resp' = [resp EXCEPT ![i] = r]
  BY DEF Get
<1>2. /\ UNCHANGED <<urls, cfg>> /\ gpc[i] = "get" /\ urls[i] \in Keys
      /\ gpc' = [gpc EXCEPT ![i] = "record"]
      /\ gpc \in [Index -> {"none", "get", "record", "end", "done"}]
      /\ resp \in [Index -> Responses \cup {NoResponse}]
      /\ data' = [data EXCEPT !.timings = @ \cup {urls[i]}]
  BY DEF Get, ExportInv, IndInv, ShapeInv
<1>3. Checked' = Checked /\ i \notin Checked
  BY <1>2 DEF Checked
<1>4. \A j \in Checked : /\ resp'[j] = resp[j] /\ Statuses'[j] = Statuses[j]
                         /\ Matches'[j] = Matches[j] /\ Captured'[j] = Captured[j]
                         /\ Hits'[j] = Hits[j]
  BY <1>1, <1>2, <1>3 DEF Checked, Statuses, Matches, Captured, Hits, Hit
<1>5. /\ data'.status = data.status /\ data'.regex = data.regex
      /\ data'.captures = data.captures /\ data'.captureMatches = data.captureMatches
      /\ data'.timings = data.timings \cup {urls[i]}
      /\ data' \in [timings : SUBSET Keys, status : [Keys -> SUBSET BOOLEAN],
                    regex : [Keys -> SUBSET BOOLEAN], captures : [Keys -> SUBSET Captures],
                    captureMatches : [Keys -> SUBSET BOOLEAN]]
  BY <1>2 DEF ExportInv
<1>6. /\ FromOne(data.status, Checked, Statuses)'
      /\ FromOne(data.regex, Checked, Matches)'
      /\ FromOne(data.captures, Checked, Captured)'
      /\ FromOne(data.captureMatches, Checked, Hits)'
  <2>1. FromOne(data.status, Checked, Statuses)'
    BY <1>2, <1>3, <1>4, <1>5 DEF ExportInv, FromOne
  <2>2. FromOne(data.regex, Checked, Matches)'
    BY <1>2, <1>3, <1>4, <1>5 DEF ExportInv, FromOne
  <2>3. FromOne(data.captures, Checked, Captured)'
    BY <1>2, <1>3, <1>4, <1>5 DEF ExportInv, FromOne
  <2>4. FromOne(data.captureMatches, Checked, Hits)'
    BY <1>2, <1>3, <1>4, <1>5 DEF ExportInv, FromOne
  <2> QED BY <2>1, <2>2, <2>3, <2>4
<1>7. /\ \A j \in Index : gpc'[j] # "none" => urls'[j] \in Keys
      /\ \A j \in Index : resp'[j].got => urls'[j] \in data'.timings
  BY <1>1, <1>2, <1>5 DEF ExportInv
<1>8. \A j \in Checked' : /\ resp'[j].got => data'.status[urls'[j]] # {}
                          /\ cfg'.regex => data'.regex[urls'[j]] # {}
                          /\ cfg'.group => data'.captures[urls'[j]] # {}
                          /\ cfg'.captureRegex /\ (resp'[j].got => resp'[j].readable) =>
                               data'.captureMatches[urls'[j]] # {}
  BY <1>2, <1>3, <1>4, <1>5 DEF ExportInv
<1> QED BY <1>5, <1>6, <1>7, <1>8 DEF ExportInv

(* No other step looks at a response or writes to the maps.                *)
LEMMA ExportUnchanged ==
    ASSUME ExportInv, UNCHANGED <<urls, cfg, resp, data>>, Checked' = Checked,
           \A i \in Index : gpc'[i] # "none" => urls[i] \in Keys
    PROVE  ExportInv'
  BY DEF ExportInv, FromOne, Statuses, Matches, Captured, Hits, Hit

LEMMA ExportKeeps ==
    ASSUME IndInv, ExportInv, [Next]_vars
    PROVE  ExportInv'
<1>1. gpc \in [Index -> {"none", "get", "record", "end", "done"}]
  BY DEF IndInv, ShapeInv
<1>2. CASE Launch
  <2>1. /\ launched + 1 \in Index /\ gpc' = [gpc EXCEPT ![launched + 1] = "get"]
        /\ gpc[launched + 1] = "none" /\ urls[launched + 1] # Wrong
        /\ UNCHANGED <<urls, cfg, resp, data>>
    BY <1>2, WebAssumption DEF Launch, IndInv, ShapeInv, JudgeInv, Index
  <2>2. urls[launched + 1] \in Keys
    BY <2>1, WebAssumption DEF IndInv, ShapeInv, Index
  <2>3. Checked' = Checked
    BY <1>1, <2>1 DEF Checked
  <2> QED BY <1>1, <2>1, <2>2, <2>3, ExportUnchanged DEF ExportInv
<1>3. CASE RefuseUrl \/ LaunchedAll \/ Return \/ UNCHANGED vars
  <2>1. UNCHANGED <<urls, cfg, resp, data, gpc>>
    BY <1>3 DEF RefuseUrl, LaunchedAll, Return, vars
  <2>2. Checked' = Checked
    BY <2>1 DEF Checked
  <2> QED BY <2>1, <2>2, ExportUnchanged DEF ExportInv
<1>4. ASSUME NEW i \in Index, End(i)
      PROVE  ExportInv'
  <2>1. /\ gpc' = [gpc EXCEPT ![i] = "done"] /\ gpc[i] = "end"
        /\ UNCHANGED <<urls, cfg, resp, data>>
    BY <1>4 DEF End
  <2>2. Checked' = Checked
    BY <1>1, <2>1 DEF Checked
  <2> QED BY <1>1, <2>1, <2>2, ExportUnchanged DEF ExportInv
<1> QED BY <1>2, <1>3, <1>4, GetKeeps, CheckedKeeps DEF Next, RunnerStep, UrlStep

(* What Runner exports is complete, for endpoints that responded and for   *)
(* those that did not, and nothing in it was found nowhere: although URLs  *)
(* of one name write to one place, in any order.                           *)
THEOREM ExportIsComplete == Spec => []EverythingExported
<1>1. IndInv /\ ExportInv => EverythingExported
  <2> SUFFICES ASSUME IndInv, ExportInv, result.data, NEW i \in Index
               PROVE  LET k == urls[i] IN
                        /\ resp[i].got => k \in data.timings /\ data.status[k] # {}
                        /\ cfg.regex => data.regex[k] # {}
                        /\ cfg.group => data.captures[k] # {}
                        /\ cfg.captureRegex /\ (resp[i].got => resp[i].readable) =>
                             data.captureMatches[k] # {}
                        /\ \E j \in Index : urls[j] = k /\ data.regex[k] \subseteq {resp[j].matches}
                        /\ \E j \in Index : urls[j] = k /\ data.captures[k] \subseteq {resp[j].text}
                        /\ \E j \in Index : urls[j] = k /\ data.status[k] \subseteq {resp[j].status}
                        /\ \E j \in Index :
                             urls[j] = k /\ data.captureMatches[k] \subseteq {Hit(resp[j])}
    BY DEF EverythingExported
  <2>1. i \in Checked /\ urls[i] \in Keys
    BY DEF IndInv, CountInv, AllDone, Checked, ExportInv
  <2>2. \A j \in Checked : j \in Index /\ Statuses[j] = resp[j].status
                           /\ Matches[j] = resp[j].matches /\ Captured[j] = resp[j].text
                           /\ Hits[j] = Hit(resp[j])
    BY DEF Checked, Statuses, Matches, Captured, Hits
  <2>3. \E j \in Index : urls[j] = urls[i] /\ data.regex[urls[i]] \subseteq {resp[j].matches}
    BY <2>1, <2>2 DEF ExportInv, FromOne
  <2>4. \E j \in Index : urls[j] = urls[i] /\ data.captures[urls[i]] \subseteq {resp[j].text}
    BY <2>1, <2>2 DEF ExportInv, FromOne
  <2>5. \E j \in Index : urls[j] = urls[i] /\ data.status[urls[i]] \subseteq {resp[j].status}
    BY <2>1, <2>2 DEF ExportInv, FromOne
  <2>6. \E j \in Index : urls[j] = urls[i] /\ data.captureMatches[urls[i]] \subseteq {Hit(resp[j])}
    BY <2>1, <2>2 DEF ExportInv, FromOne
  <2> QED BY <2>1, <2>3, <2>4, <2>5, <2>6 DEF ExportInv
<1> QED BY <1>1, Invariance, ExportInit, ExportKeeps, PTL DEF Spec

=============================================================================
