--------------------------- MODULE CongressClient ---------------------------
(***************************************************************************)
(* The download of a bill (CongressClient::download_bill_reporting) over   *)
(* the response cache on disk, run again and again.                        *)
(*                                                                         *)
(* A download takes its parts in order: the head (text, metadata and       *)
(* cosponsors), the list of actions, and each roll call the actions name.  *)
(* Then a pool of workers fetches the members the head and the roll calls  *)
(* name.  A response comes from the cache or from the network, and one     *)
(* from the network is written to the cache, which first truncates the     *)
(* entry and then fills it.  A run may be killed between any two steps.    *)
(*                                                                         *)
(* What the API says of the bill is a constant; that a list of text        *)
(* versions leads to the text is one request here.                         *)
(***************************************************************************)
EXTENDS Naturals, Sequences, Functions

CONSTANTS
  Worker,   \* the threads of the pool (MEMBER_FETCHES_AT_ONCE)
  Main,     \* the thread that takes the parts
  Member,
  Page,     \* the responses that are not of one member
  Parts     \* Seq([kind, pages, number, names]): what a part is, its responses,
            \* the number of a roll call, and the members it names

Thread == Worker \cup {Main}
Record == Page \cup Member
Kind == {"head", "actions", "roll"}

ASSUME ThreadAssumption == Main \notin Worker
ASSUME RecordAssumption == Page \cap Member = {}
ASSUME PartsAssumption ==
  /\ Parts \in Seq([kind : Kind, pages : Seq(Page) \ {<<>>}, number : Nat,
                    names : SUBSET Member])
  /\ Parts # <<>>

VARIABLES
  cache,      \* what the entry of each record holds: nothing, torn, whole
  stale,      \* the entries past their time to live
  phase,      \* what the run is at
  offline,    \* the run reads only the cache
  part, page, \* the part and the response of it the run is at
  todo,       \* members no worker has begun
  got, torn,  \* the records the run has, whole and not
  noted,      \* what progress was told is left out, and why
  halt,       \* the error that stops the download, or "none"
  at, record, \* what each thread is at, and the record it is for
  flagged,    \* unreachable_before: requests go over IPv4 at once
  heard,      \* how often each thread was told the network is unreachable
  complete    \* a run has come to its end with nothing left out

disk == <<cache, stale>>
results == <<part, page, got, torn, noted, halt>>
threads == <<at, record>>
http == <<flagged, heard>>
vars == <<disk, phase, offline, todo, results, threads, http, complete>>

(* What a new run starts with.                                             *)
Fresh ==
  /\ part' = 1 /\ page' = 1 /\ todo' = {}
  /\ got' = {} /\ torn' = {} /\ noted' = {} /\ halt' = "none"
  /\ at' = [t \in Thread |-> "idle"]
  /\ record' = [t \in Thread |-> Parts[1].pages[1]]
  /\ flagged' = FALSE /\ heard' = [t \in Thread |-> 0]

Init ==
  /\ cache = [r \in Record |-> "none"] /\ stale = {}
  /\ phase = "rest" /\ offline = FALSE
  /\ part = 1 /\ page = 1 /\ todo = {}
  /\ got = {} /\ torn = {} /\ noted = {} /\ halt = "none"
  /\ at = [t \in Thread |-> "idle"]
  /\ record = [t \in Thread |-> Parts[1].pages[1]]
  /\ flagged = FALSE /\ heard = [t \in Thread |-> 0]
  /\ complete = FALSE

Start ==
  /\ phase \in {"rest", "ended"}
  /\ phase' = "parts"
  /\ offline' \in BOOLEAN
  /\ Fresh
  /\ UNCHANGED <<disk, complete>>

Kill ==
  /\ phase \in {"parts", "members"}
  /\ phase' = "rest"
  /\ Fresh
  /\ UNCHANGED <<disk, offline, complete>>
-----------------------------------------------------------------------------
(* What a thread does with the answer to its request                       *)

Taken(t, result) ==
  /\ at' = [at EXCEPT ![t] = "idle"]
  /\ got' = IF result = "whole" THEN got \cup {record[t]} ELSE got
  /\ torn' = IF result = "torn" THEN torn \cup {record[t]} ELSE torn
  /\ UNCHANGED <<phase, offline, todo, record, complete>>

(* Mutant: a member the rate limit refuses is left out as any other.       *)
TakeMemberLimited(w, result) ==
  /\ Taken(w, result)
  /\ halt' = IF halt = "none" /\ result = "NotCached" THEN result ELSE halt
  /\ noted' = IF result \in {"failed", "limited"}
              THEN noted \cup {<<record[w], result>>} ELSE noted
  /\ UNCHANGED <<part, page>>

(* member_json, and the collect of fetch_members that keeps one error.     *)
TakeMember(w, result) ==
  /\ Taken(w, result)
  /\ halt' = IF halt = "none" /\ result \in {"NotCached", "limited"}
             THEN result ELSE halt
  /\ noted' = IF result = "failed" THEN noted \cup {<<record[w], result>>} ELSE noted
  /\ UNCHANGED <<part, page>>

NextPart(n) == part' = n /\ page' = 1 /\ UNCHANGED halt

LeaveOut(result) == noted' = noted \cup {<<part, result>>}

(* A response of a part. The head stops at any error, and every part at a  *)
(* record an offline client has not got. Where the actions cannot be read, *)
(* no roll call is listed; where a roll call cannot, it is left out. Only  *)
(* the actions and the roll calls are parsed here.                         *)
TakePage(result) ==
  LET kind == Parts[part].kind
      pages == Parts[part].pages
  IN
  /\ Taken(Main, result)
  /\ \/ /\ result = "NotCached" \/ (kind = "head" /\ result \in {"limited", "failed"})
        /\ halt' = result
        /\ UNCHANGED <<part, page, noted>>
     \/ /\ kind = "actions" /\ result \in {"limited", "failed", "torn"}
        /\ LeaveOut(result) /\ NextPart(Len(Parts) + 1)
     \/ /\ kind = "roll" /\ result \in {"limited", "failed"}
        /\ LeaveOut(result) /\ NextPart(part + 1)
     \/ /\ result = "whole" \/ (kind \in {"head", "roll"} /\ result = "torn")
        /\ page < Len(pages)
        /\ page' = page + 1
        /\ UNCHANGED <<part, noted, halt>>
     \/ /\ result = "whole" \/ (kind \in {"head", "roll"} /\ result = "torn")
        /\ page = Len(pages)
        /\ NextPart(part + 1)
        /\ IF kind = "roll" /\ ~(Range(pages) \subseteq got')
           THEN LeaveOut("torn") ELSE UNCHANGED noted

Take(t, result) == IF t = Main THEN TakePage(result) ELSE TakeMember(t, result)
-----------------------------------------------------------------------------
(* Which record a thread asks for                                          *)

(* seen_rolls: roll calls are told apart by their number alone.            *)
Seen(n) ==
  Parts[n].kind = "roll"
    /\ \E m \in 1..(n - 1) : Parts[m].kind = "roll" /\ Parts[m].number = Parts[n].number

SkipRoll ==
  /\ phase = "parts" /\ halt = "none" /\ at[Main] = "idle"
  /\ part <= Len(Parts) /\ Seen(part)
  /\ part' = part + 1
  /\ UNCHANGED <<disk, phase, offline, todo, page, got, torn, noted, halt,
                 threads, http, complete>>

AskPage ==
  /\ phase = "parts" /\ halt = "none" /\ at[Main] = "idle"
  /\ part <= Len(Parts) /\ ~Seen(part)
  /\ at' = [at EXCEPT ![Main] = "look"]
  /\ record' = [record EXCEPT ![Main] = Parts[part].pages[page]]
  /\ UNCHANGED <<disk, phase, offline, todo, results, http, complete>>

(* The members the parts name that were read whole.                        *)
Named ==
  UNION {Parts[n].names :
           n \in {m \in DOMAIN Parts : Range(Parts[m].pages) \subseteq got}}

AskMembers ==
  /\ phase = "parts" /\ halt = "none" /\ at[Main] = "idle"
  /\ part > Len(Parts)
  /\ phase' = "members"
  /\ todo' = Named
  /\ UNCHANGED <<disk, offline, results, threads, http, complete>>

(* No worker takes a member after an error that stops the download.        *)
AskMember(w) ==
  /\ phase = "members" /\ halt = "none" /\ at[w] = "idle"
  /\ \E m \in todo :
       /\ todo' = todo \ {m}
       /\ record' = [record EXCEPT ![w] = m]
  /\ at' = [at EXCEPT ![w] = "look"]
  /\ UNCHANGED <<disk, phase, offline, results, http, complete>>

(* Mutant: the pool ends while its workers are still at a record.          *)
EndAtOnce ==
  /\ \/ phase = "parts" /\ at[Main] = "idle" /\ halt # "none"
     \/ phase = "members" /\ (halt # "none" \/ todo = {})
  /\ phase' = "ended"
  /\ complete' = (complete \/ (halt = "none" /\ noted = {} /\ torn = {}))
  /\ UNCHANGED <<disk, offline, todo, results, threads, http>>

(* Mutant: the pool waits for every member.                                *)
EndWaiting ==
  /\ \A t \in Thread : at[t] = "idle"
  /\ \/ phase = "parts" /\ halt # "none"
     \/ phase = "members" /\ todo = {}
  /\ phase' = "ended"
  /\ complete' = (complete \/ (halt = "none" /\ noted = {} /\ torn = {}))
  /\ UNCHANGED <<disk, offline, todo, results, threads, http>>

End ==
  /\ \A t \in Thread : at[t] = "idle"
  /\ \/ phase = "parts" /\ halt # "none"
     \/ phase = "members" /\ (halt # "none" \/ todo = {})
  /\ phase' = "ended"
  /\ complete' = (complete \/ (halt = "none" /\ noted = {} /\ torn = {}))
  /\ UNCHANGED <<disk, offline, todo, results, threads, http>>
-----------------------------------------------------------------------------
(* fetch: the cache, the network, the cache                                *)

(* is_fresh: an offline client never expires an entry.                     *)
IsFresh(r) == cache[r] # "none" /\ (offline \/ r \notin stale)

(* Mutant: an entry past its time to live is deleted when it is read.      *)
LookDeletes(t) ==
  /\ at[t] = "look"
  /\ \/ IsFresh(record[t]) /\ Take(t, cache[record[t]]) /\ UNCHANGED <<disk, http>>
     \/ ~IsFresh(record[t]) /\ offline /\ Take(t, "NotCached") /\ UNCHANGED <<disk, http>>
     \/ /\ ~IsFresh(record[t]) /\ ~offline
        /\ at' = [at EXCEPT ![t] = IF flagged THEN "ipv4" ELSE "any"]
        /\ cache' = [cache EXCEPT ![record[t]] = "none"]
        /\ UNCHANGED <<stale, phase, offline, todo, results, record, http, complete>>

Look(t) ==
  /\ at[t] = "look"
  /\ \/ IsFresh(record[t]) /\ Take(t, cache[record[t]]) /\ UNCHANGED <<disk, http>>
     \/ ~IsFresh(record[t]) /\ offline /\ Take(t, "NotCached") /\ UNCHANGED <<disk, http>>
     \/ /\ ~IsFresh(record[t]) /\ ~offline
        /\ at' = [at EXCEPT ![t] = IF flagged THEN "ipv4" ELSE "any"]
        /\ UNCHANGED <<disk, phase, offline, todo, results, record, http, complete>>

Go(t, to) ==
  /\ at' = [at EXCEPT ![t] = to]
  /\ UNCHANGED <<phase, offline, todo, results, record, complete>>

Answered(t) ==
  /\ at[t] \in {"any", "ipv4"}
  /\ \/ Go(t, "create")
     \/ \E result \in {"limited", "failed"} : Take(t, result)
  /\ UNCHANGED <<disk, http>>

(* Mutant: the retry does not tell the other threads.                      *)
UnreachableAlone(t) ==
  /\ at[t] = "any"
  /\ heard' = [heard EXCEPT ![t] = @ + 1]
  /\ Go(t, "ipv4")
  /\ UNCHANGED <<disk, flagged>>

(* No route leads to the host: once more over IPv4, and from now on all.   *)
Unreachable(t) ==
  /\ at[t] = "any"
  /\ flagged' = TRUE
  /\ heard' = [heard EXCEPT ![t] = @ + 1]
  /\ Go(t, "ipv4")
  /\ UNCHANGED disk

(* ResponseCache::set: File::create truncates, write_all fills.            *)
Create(t) ==
  /\ at[t] = "create"
  /\ cache' = [cache EXCEPT ![record[t]] = "torn"]
  /\ stale' = stale \ {record[t]}
  /\ Go(t, "write")
  /\ UNCHANGED http

Write(t) ==
  /\ at[t] = "write"
  /\ cache' = [cache EXCEPT ![record[t]] = "whole"]
  /\ Take(t, "whole")
  /\ UNCHANGED <<stale, http>>

(* The disk refuses, and the error is that of the fetch.                   *)
SetFails(t) ==
  /\ at[t] \in {"create", "write"}
  /\ Take(t, "failed")
  /\ UNCHANGED <<disk, http>>

(* A run looks a record up once, so that the time of an entry passes while *)
(* it runs is the same as before it or after it.                           *)
Expire(r) ==
  /\ phase \in {"rest", "ended"}
  /\ cache[r] # "none" /\ r \notin stale
  /\ stale' = stale \cup {r}
  /\ UNCHANGED <<cache, phase, offline, todo, results, threads, http, complete>>
-----------------------------------------------------------------------------
Fetch(t) ==
  \/ Look(t) \/ Answered(t) \/ Unreachable(t) \/ Create(t) \/ Write(t) \/ SetFails(t)

Download ==
  \/ SkipRoll \/ AskPage \/ AskMembers \/ End
  \/ \E w \in Worker : AskMember(w)

Next ==
  \/ Start \/ Kill
  \/ Download
  \/ \E t \in Thread : Fetch(t)
  \/ \E r \in Record : Expire(r)

(* What a thread does without the network.                                 *)
LocalStep(t) == Look(t) \/ Create(t) \/ Write(t) \/ SetFails(t)

(* A thread that can go on goes on. That a request is ever answered or     *)
(* fails is not promised, for the agents are built with no timeout         *)
(* (http.rs:41-45), nor that a run starts, is killed or sees an entry      *)
(* expire.                                                                 *)
Fairness == WF_vars(Download) /\ \A t \in Thread : WF_vars(LocalStep(t))

Spec == Init /\ [][Next]_vars /\ Fairness
-----------------------------------------------------------------------------
Reason == {"limited", "failed", "torn"}

TypeOK ==
  /\ cache \in [Record -> {"none", "torn", "whole"}] /\ stale \subseteq Record
  /\ phase \in {"rest", "parts", "members", "ended"}
  /\ offline \in BOOLEAN
  /\ part \in Nat \ {0} /\ page \in Nat \ {0}
  /\ part <= Len(Parts) => page <= Len(Parts[part].pages)
  /\ todo \subseteq Member
  /\ got \subseteq Record /\ torn \subseteq Record
  /\ noted \subseteq (Nat \cup Member) \X Reason
  /\ halt \in {"none", "NotCached", "limited", "failed"}
  /\ at \in [Thread -> {"idle", "look", "any", "ipv4", "create", "write"}]
  /\ record \in [Thread -> Record]
  /\ \A w \in Worker : at[w] # "idle" => phase = "members" /\ record[w] \in Member
  /\ at[Main] # "idle" => /\ phase = "parts" /\ halt = "none" /\ part <= Len(Parts)
                          /\ record[Main] = Parts[part].pages[page]
  /\ flagged \in BOOLEAN /\ heard \in [Thread -> Nat]
  /\ complete \in BOOLEAN

Done == phase = "ended" /\ halt = "none"

(* A roll call the actions list is read, or progress was told it is left   *)
(* out; so is each roll call listed again. Where the actions were not      *)
(* read, progress was told that.                                           *)
RollsAccounted ==
  \/ \E n \in DOMAIN Parts, why \in Reason :
       Parts[n].kind = "actions" /\ <<n, why>> \in noted
  \/ \A n \in DOMAIN Parts :
       Parts[n].kind = "roll" =>
         \/ Range(Parts[n].pages) \subseteq got
         \/ \E m \in DOMAIN Parts, why \in Reason :
              Parts[m].pages = Parts[n].pages /\ <<m, why>> \in noted

(* A download that comes to its end has every roll call and member it was  *)
(* told of, or told progress by name (client.rs:197-199); and a member is  *)
(* left out only where the API did not answer for it, never because of the *)
(* rate limit or a cache an offline client cannot fill (#284), whichever   *)
(* worker met it and whatever the others were at.                          *)
GapsAreNamed ==
  Done =>
    /\ RollsAccounted
    /\ \A m \in Named : m \in got \cup torn \/ <<m, "failed">> \in noted

(* Once one thread has heard that the network is unreachable, every later  *)
(* request of any thread of the run goes over IPv4 at once (#286): only a  *)
(* thread that was already asking can hear it too.                         *)
WaitsOnce ==
  [][\A t \in Thread :
       at[t] # "any" /\ at'[t] = "any" => \A u \in Thread : heard'[u] = 0]_vars

(* Once a run has come to its end with nothing left out, no offline run    *)
(* misses a record, whatever was refreshed, expired or half written since: *)
(* a read never deletes (cache.rs:10-12), and for an offline client an     *)
(* entry never expires (client.rs:66-69).                                  *)
OfflineAnswers == complete => halt # "NotCached"

(* A download that neither ends nor is killed waits for ever for the answer*)
(* to one request: the pool, its halt and its last worker hold up nothing. *)
DownloadEnds ==
  <>[](phase \in {"parts", "members"}) =>
    \E t \in Thread : <>[](at[t] \in {"any", "ipv4"})

=============================================================================
