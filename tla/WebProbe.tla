------------------------------ MODULE WebProbe ------------------------------
(***************************************************************************)
(* One run of the web probe: a goroutine per URL gets the page and checks  *)
(* it; all of them fill the same maps and count into the same counter, and *)
(* the runner compares the counter with the number of URLs.                *)
(*                                                                         *)
(* urls[i] is the i-th URL of the list with its scheme; Wrong is one that  *)
(* url.Parse refuses.  Entries may be equal and then share their places in *)
(* the maps, where the empty set is no entry and {v} the entry v.          *)
(* A response is reduced to what is asked of it: is its status the one the *)
(* configuration names; can its body be read in time; does the regex match *)
(* it; what the capture group then holds.  A capture regex is the set of   *)
(* texts it matches.                                                       *)
(***************************************************************************)
EXTENDS Naturals

CONSTANTS NumUrls, Keys, Wrong,
          Lists,          \* the lists of URLs a probe may be configured with
          Empty, Texts    \* the empty string and what else a group may hold

ASSUME WebAssumption == /\ NumUrls \in Nat
                        /\ Wrong \notin Keys
                        /\ Lists \subseteq [1..NumUrls -> Keys \cup {Wrong}]
                        /\ Empty \notin Texts

Index == 1..NumUrls
Captures == Texts \cup {Empty}

VARIABLES
    urls,        \* Config.Urls
    cfg,         \* the rest of Config, Expect, and is Timeout greater than 0
    pc,          \* Runner: "launch", "wait", "returned"
    launched,    \* how many URLs the loop has passed
    gpc,         \* the goroutine of each URL
    resp,        \* what it got
    err,         \* its err # nil
    data,        \* the maps of ResultData
    done,        \* the counter
    result       \* what Runner returned: its verdict, and did it return data

vars == <<urls, cfg, pc, launched, gpc, resp, err, data, done, result>>

(* compileRegex refuses every other combination; what a configuration does *)
(* not use is FALSE or {} here.                                            *)
Configs ==
    {c \in [expect : BOOLEAN, limited : BOOLEAN, status : BOOLEAN, regex : BOOLEAN,
            required : BOOLEAN, invert : BOOLEAN, group : BOOLEAN, captureRegex : BOOLEAN,
            matching : SUBSET Captures, captureInvert : BOOLEAN] :
        /\ c.required \/ c.invert \/ c.group => c.regex
        /\ ~(c.invert /\ c.group)
        /\ c.captureRegex => c.group
        /\ c.captureInvert \/ c.matching # {} => c.captureRegex}

NoResponse == [got |-> FALSE, status |-> FALSE, readable |-> FALSE,
               matches |-> FALSE, text |-> Empty]

(* The body of a response is read only when there is a regex.              *)
Responses ==
    {r \in [got : {TRUE}, status : BOOLEAN, readable : BOOLEAN,
            matches : BOOLEAN, text : Captures] :
        /\ cfg.regex \/ ~r.readable
        /\ r.matches => r.readable
        /\ r.text # Empty => r.matches /\ cfg.group}

NoData == [timings |-> {}, status |-> [k \in Keys |-> {}], regex |-> [k \in Keys |-> {}],
           captures |-> [k \in Keys |-> {}], captureMatches |-> [k \in Keys |-> {}]]

Init == /\ urls \in Lists
        /\ cfg \in Configs
        /\ pc = "launch"
        /\ launched = 0
        /\ gpc = [i \in Index |-> "none"]
        /\ resp = [i \in Index |-> NoResponse]
        /\ err = [i \in Index |-> FALSE]
        /\ data = NoData
        /\ done = 0
        /\ result = [succ |-> FALSE, data |-> FALSE]

-----------------------------------------------------------------------------
(* Runner *)

Launch ==
    /\ pc = "launch"
    /\ launched < NumUrls
    /\ urls[launched + 1] # Wrong
    /\ launched' = launched + 1
    /\ gpc' = [gpc EXCEPT ![launched + 1] = "get"]
    /\ UNCHANGED <<urls, cfg, pc, resp, err, data, done, result>>

(* A wrong URL ends the run at once; goroutines already started go on.     *)
RefuseUrl ==
    /\ pc = "launch"
    /\ launched < NumUrls
    /\ urls[launched + 1] = Wrong
    /\ pc' = "returned"
    /\ UNCHANGED <<urls, cfg, launched, gpc, resp, err, data, done, result>>

LaunchedAll ==
    /\ pc = "launch"
    /\ launched = NumUrls
    /\ pc' = "wait"
    /\ UNCHANGED <<urls, cfg, launched, gpc, resp, err, data, done, result>>

(* Mutant: wg.Done comes before the goroutine has written its result.      *)
AllDoneEarly == \A i \in Index : gpc[i] \in {"end", "record", "done"}

AllDone == \A i \in Index : gpc[i] = "done"

Return ==
    /\ pc = "wait"
    /\ AllDone
    /\ result' = [succ |-> done = NumUrls, data |-> TRUE]
    /\ pc' = "returned"
    /\ UNCHANGED <<urls, cfg, launched, gpc, resp, err, data, done>>

-----------------------------------------------------------------------------
(* The goroutine of URL i *)

Put(map, k, v) == [map EXCEPT ![k] = {v}]
PutIf(asked, map, k, v) == IF asked THEN Put(map, k, v) ELSE map

(* checkBody: what the body is found to hold, and whether that is an error.*)
Matched(r) == r.matches
Capture(r) == IF r.matches /\ cfg.group THEN r.text ELSE Empty
CaptureMatched(r) == Capture(r) \in cfg.matching

(* Mutant: the regex decides even when it is not required.                 *)
BodyErrorAlways(r) ==
    /\ cfg.regex
    /\ \/ ~r.readable
       \/ cfg.captureRegex /\ CaptureMatched(r) = cfg.captureInvert
       \/ Matched(r) = cfg.invert

BodyError(r) ==
    /\ cfg.regex
    /\ \/ ~r.readable
       \/ cfg.captureRegex /\ CaptureMatched(r) = cfg.captureInvert
       \/ cfg.required /\ Matched(r) = cfg.invert

(* Mutants: a request that failed leaves no entries; it never calls Done.  *)
FailedGetLeavesNothing(i) ==
    /\ gpc[i] = "get"
    /\ err' = [err EXCEPT ![i] = TRUE]
    /\ gpc' = [gpc EXCEPT ![i] = "end"]
    /\ UNCHANGED <<urls, cfg, pc, launched, resp, data, done, result>>

FailedGetHangs(i) ==
    /\ gpc[i] = "get"
    /\ err' = [err EXCEPT ![i] = TRUE]
    /\ gpc' = [gpc EXCEPT ![i] = "none"]
    /\ UNCHANGED <<urls, cfg, pc, launched, resp, data, done, result>>

(* No response, or not in time: setFailedData.                             *)
FailedGet(i) ==
    /\ gpc[i] = "get"
    /\ err' = [err EXCEPT ![i] = TRUE]
    /\ data' = [data EXCEPT
         !.regex = PutIf(cfg.regex, @, urls[i], FALSE),
         !.captures = PutIf(cfg.group, @, urls[i], Empty),
         !.captureMatches = PutIf(cfg.captureRegex, @, urls[i], FALSE)]
    /\ gpc' = [gpc EXCEPT ![i] = "end"]
    /\ UNCHANGED <<urls, cfg, pc, launched, resp, done, result>>

Get(i) ==
    /\ gpc[i] = "get"
    /\ \E r \in Responses : resp' = [resp EXCEPT ![i] = r]
    /\ data' = [data EXCEPT !.timings = @ \cup {urls[i]}]
    /\ gpc' = [gpc EXCEPT ![i] = "record"]
    /\ UNCHANGED <<urls, cfg, pc, launched, err, done, result>>

(* All maps are written under one lock; the status is judged first.        *)
Record(i) ==
    LET r == resp[i] IN
    /\ gpc[i] = "record"
    /\ data' = [data EXCEPT
         !.status = Put(@, urls[i], r.status),
         !.regex = PutIf(cfg.regex, @, urls[i], Matched(r)),
         !.captures = PutIf(cfg.group, @, urls[i], Capture(r)),
         !.captureMatches = PutIf(cfg.captureRegex /\ r.readable, @, urls[i], CaptureMatched(r))]
    /\ err' = [err EXCEPT ![i] = (cfg.status /\ ~r.status) \/ BodyError(r)]
    /\ gpc' = [gpc EXCEPT ![i] = "end"]
    /\ UNCHANGED <<urls, cfg, pc, launched, resp, done, result>>

(* The deferred function counts what was expected, under the lock.         *)
End(i) ==
    /\ gpc[i] = "end"
    /\ done' = IF err[i] # cfg.expect THEN done + 1 ELSE done
    /\ gpc' = [gpc EXCEPT ![i] = "done"]
    /\ UNCHANGED <<urls, cfg, pc, launched, resp, err, data, result>>

RunnerStep == Launch \/ RefuseUrl \/ LaunchedAll \/ Return
UrlStep(i) == FailedGet(i) \/ Get(i) \/ Record(i) \/ End(i)

Next == RunnerStep \/ \E i \in Index : UrlStep(i)

(* A goroutine waits for the server while it gets the page, and while it   *)
(* reads the body, which it does only for a regex.  The client's timeout   *)
(* covers both, if there is one: http.Client takes a Timeout of 0 for none.*)
AtServer(i) == gpc[i] = "get" \/ (gpc[i] = "record" /\ cfg.regex)

Fairness ==
    /\ WF_vars(RunnerStep)
    /\ \A i \in Index : WF_vars((cfg.limited \/ ~AtServer(i)) /\ UrlStep(i))

Spec == Init /\ [][Next]_vars /\ Fairness

-----------------------------------------------------------------------------
(* README.md on httpStatus, regex and captureRegex: what it takes for the  *)
(* check of one URL to be positive.                                        *)
Positive(r) ==
    /\ r.got
    /\ cfg.status => r.status
    /\ cfg.regex => r.readable
    /\ cfg.required => r.matches # cfg.invert
    /\ cfg.captureRegex =>
         IF cfg.captureInvert THEN r.text \notin cfg.matching ELSE r.text \in cfg.matching

(* The probe succeeds exactly when the check of every URL comes out as     *)
(* expected, however the goroutines interleave and whatever they share.    *)
VerdictByUrl ==
    result.data => (result.succ <=> \A i \in Index : Positive(resp[i]) = cfg.expect)

Hit(r) == r.got /\ r.text \in cfg.matching

(* README.md: timings and statuses are exported whenever the endpoint      *)
(* responds, captures for every endpoint, also when a check failed, and    *)
(* the match of the capture unless the body could not be read.  Every      *)
(* entry is what one of the requests for that URL found.                   *)
EverythingExported ==
    result.data => \A i \in Index : LET k == urls[i] IN
        /\ resp[i].got => k \in data.timings /\ data.status[k] # {}
        /\ cfg.regex => data.regex[k] # {}
        /\ cfg.group => data.captures[k] # {}
        /\ cfg.captureRegex /\ (resp[i].got => resp[i].readable) => data.captureMatches[k] # {}
        /\ \E j \in Index : urls[j] = k /\ data.regex[k] \subseteq {resp[j].matches}
        /\ \E j \in Index : urls[j] = k /\ data.captures[k] \subseteq {resp[j].text}
        /\ \E j \in Index : urls[j] = k /\ data.status[k] \subseteq {resp[j].status}
        /\ \E j \in Index : urls[j] = k /\ data.captureMatches[k] \subseteq {Hit(resp[j])}

(* The maps are handed out uncopied, so they must not change after Runner  *)
(* has returned them.                                                      *)
ResultFinal == [][result.data => UNCHANGED <<data, result>>]_vars

(* Runner returns whatever the servers do, and without a timeout unless    *)
(* one of them is silent for good.                                         *)
RunnerReturns ==
    \/ <>(pc = "returned")
    \/ ~cfg.limited /\ <>[](\E i \in Index : AtServer(i))

=============================================================================
