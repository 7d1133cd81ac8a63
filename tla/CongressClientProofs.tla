------------------------ MODULE CongressClientProofs ------------------------
(***************************************************************************)
(* What CongressClient promises for every bill, cache and pool of workers. *)
(***************************************************************************)
EXTENDS CongressClient, TLAPS

USE DEF vars, disk, results, threads, http

Result == {"whole", "torn", "NotCached", "limited", "failed"}

PartNumber == 1..Len(Parts)

(* Each part has responses, and each response is a page.                   *)
LEMMA PartFacts ==
  /\ DOMAIN Parts = PartNumber /\ Len(Parts) \in Nat /\ 1 \in PartNumber
  /\ \A n \in PartNumber :
       /\ Parts[n].kind \in Kind /\ Parts[n].names \subseteq Member
       /\ Parts[n].pages \in Seq(Page)
       /\ Len(Parts[n].pages) \in Nat /\ 1 <= Len(Parts[n].pages)
       /\ DOMAIN Parts[n].pages = 1..Len(Parts[n].pages)
       /\ \A i \in 1..Len(Parts[n].pages) : Parts[n].pages[i] \in Page
<1> DEFINE Shape == [kind : Kind, pages : Seq(Page) \ {<<>>}, number : Nat,
                     names : SUBSET Member]
<1>1. Parts \in Seq(Shape) /\ Parts # <<>>
  BY PartsAssumption
<1> HIDE DEF Shape
<1>2. /\ DOMAIN Parts = PartNumber /\ Len(Parts) \in Nat /\ 1 \in PartNumber
      /\ \A n \in PartNumber : Parts[n] \in Shape
  BY <1>1 DEF PartNumber
<1>3. ASSUME NEW n \in PartNumber
      PROVE  /\ Parts[n].kind \in Kind /\ Parts[n].names \subseteq Member
             /\ Parts[n].pages \in Seq(Page) /\ Parts[n].pages # <<>>
  BY <1>2 DEF Shape
<1>4. \A s \in Seq(Page) : s # <<>> =>
        /\ Len(s) \in Nat /\ 1 <= Len(s) /\ DOMAIN s = 1..Len(s)
        /\ \A i \in 1..Len(s) : s[i] \in Page
  OBVIOUS
<1> QED
  BY <1>2, <1>3, <1>4

(* The run asks for no response of a roll call it has seen.                *)
Turn ==
  /\ part \in PartNumber /\ Seen(part) => page = 1
  /\ at[Main] # "idle" => ~Seen(part)

(* A thread that takes a result is at rest; it adds at most its record to  *)
(* what the run has, and forgets nothing the run was told.                 *)
LEMMA TakeFacts ==
  ASSUME TypeOK, Turn, NEW t \in Thread, at[t] # "idle", NEW result \in Result,
         Take(t, result)
  PROVE  /\ at' = [at EXCEPT ![t] = "idle"] /\ record' = record
         /\ phase' = phase /\ offline' = offline /\ todo' = todo
         /\ complete' = complete
         /\ got' = IF result = "whole" THEN got \cup {record[t]} ELSE got
         /\ torn' = IF result = "torn" THEN torn \cup {record[t]} ELSE torn
         /\ noted \subseteq noted' /\ noted' \subseteq (Nat \cup Member) \X Reason
         /\ halt' \in {halt, result} /\ halt' \in {"none", "NotCached", "limited", "failed"}
         /\ halt # "none" => halt' # "none"
         /\ result = "NotCached" => halt' # "none"
         /\ part' \in Nat \ {0} /\ page' \in Nat \ {0}
         /\ part' \in PartNumber => page' <= Len(Parts[part'].pages)
         /\ part' \in PartNumber /\ Seen(part') => page' = 1
<1>1. Taken(t, result) /\ noted \subseteq (Nat \cup Member) \X Reason
  BY DEF Take, TakePage, TakeMember, TypeOK
<1>2. CASE t = Main
  <2>1. TakePage(result) /\ part \in PartNumber /\ ~Seen(part) /\ page \in Nat /\ halt = "none"
    BY <1>2, PartFacts DEF Take, TypeOK, Turn, PartNumber
  <2>2. /\ part' \in {part, part + 1, Len(Parts) + 1}
        /\ part' = part => (page' = page \/ (page' = page + 1 /\ page < Len(Parts[part].pages)))
        /\ part' # part => page' = 1
    <3> DEFINE whole == result = "whole" \/ (Parts[part].kind \in {"head", "roll"} /\ result = "torn")
    <3>1. \/ UNCHANGED <<part, page>>
          \/ NextPart(Len(Parts) + 1)
          \/ NextPart(part + 1)
          \/ page < Len(Parts[part].pages) /\ page' = page + 1 /\ part' = part
      BY <2>1 DEF TakePage
    <3>2. Len(Parts) + 1 # part /\ part + 1 # part
      BY <2>1, PartFacts DEF PartNumber
    <3> QED
      BY <3>1, <3>2 DEF NextPart
  <2>3. halt' \in {halt, result} /\ (result = "NotCached" => halt' = result)
    BY <2>1 DEF TakePage, NextPart
  <2>4. halt' = result => result \in {"NotCached", "limited", "failed"}
    BY <2>1, <2>3 DEF TakePage, NextPart
  <2>5. noted' = noted \/ (noted' = noted \cup {<<part, result>>} /\ result \in Reason)
        \/ noted' = noted \cup {<<part, "torn">>}
    BY <2>1 DEF TakePage, LeaveOut, Reason
  <2>6. part \in Nat /\ "torn" \in Reason
    BY <2>1, PartFacts DEF PartNumber, Reason
  <2>7. noted \subseteq noted' /\ noted' \subseteq (Nat \cup Member) \X Reason
    BY <1>1, <2>5, <2>6
  <2>8. /\ part' \in Nat \ {0} /\ page' \in Nat \ {0}
        /\ part' \in PartNumber => page' <= Len(Parts[part'].pages)
        /\ part' \in PartNumber /\ Seen(part') => page' = 1
    BY <2>1, <2>2, PartFacts DEF PartNumber, TypeOK
  <2> QED
    BY <1>1, <2>1, <2>3, <2>4, <2>7, <2>8 DEF Taken
<1>3. CASE t # Main
  <2>1. TakeMember(t, result)
    BY <1>3 DEF Take
  <2>2. t \in Worker /\ record[t] \in Member
    BY <1>3 DEF Thread, TypeOK
  <2>3. noted \subseteq noted' /\ noted' \subseteq (Nat \cup Member) \X Reason
    BY <1>1, <2>1, <2>2 DEF TakeMember, Reason
  <2>4. part' = part /\ page' = page
    BY <2>1 DEF TakeMember
  <2>5. /\ part' \in Nat \ {0} /\ page' \in Nat \ {0}
        /\ part' \in PartNumber => page' <= Len(Parts[part'].pages)
        /\ part' \in PartNumber /\ Seen(part') => page' = 1
    BY <2>4, PartFacts DEF TypeOK, Turn, PartNumber
  <2>6. /\ halt' \in {halt, result} /\ halt' \in {"none", "NotCached", "limited", "failed"}
        /\ (halt # "none" => halt' # "none") /\ (result = "NotCached" => halt' # "none")
    BY <2>1 DEF TakeMember, TypeOK
  <2> QED
    BY <1>1, <2>3, <2>5, <2>6 DEF Taken
<1> QED
  BY <1>2, <1>3

Typed == TypeOK /\ Turn

(* A thread that takes a result leaves the state with its type.            *)
LEMMA TakeKeepsType ==
  ASSUME Typed, NEW t \in Thread, at[t] # "idle", NEW result \in Result,
         Take(t, result), cache' \in [Record -> {"none", "torn", "whole"}],
         stale' = stale, flagged' = flagged, heard' = heard
  PROVE  Typed'
<1>1. TypeOK /\ Turn
  BY DEF Typed
<1>2. record[t] \in Record
  BY <1>1 DEF TypeOK
<1>3. \A u \in Thread : at'[u] # "idle" => u # t /\ at'[u] = at[u]
  BY <1>1, TakeFacts DEF TypeOK
<1>4. at' \in [Thread -> {"idle", "look", "any", "ipv4", "create", "write"}]
  BY <1>1, TakeFacts DEF TypeOK
<1>5. \A w \in Worker : at'[w] # "idle" => phase' = "members" /\ record'[w] \in Member
  BY <1>1, <1>3, TakeFacts DEF TypeOK, Thread
<1>6. at'[Main] = "idle"
  <2>1. CASE t = Main
    BY <2>1, <1>3 DEF Thread
  <2>2. CASE t # Main
    <3>1. phase = "members"
      BY <1>1, <2>2 DEF TypeOK, Thread
    <3> QED
      BY <1>1, <1>3, <3>1 DEF TypeOK, Thread
  <2> QED
    BY <2>1, <2>2
<1>7. /\ got' \subseteq Record /\ torn' \subseteq Record
      /\ noted' \subseteq (Nat \cup Member) \X Reason
      /\ halt' \in {"none", "NotCached", "limited", "failed"}
  <2>1. /\ got' = IF result = "whole" THEN got \cup {record[t]} ELSE got
        /\ torn' = IF result = "torn" THEN torn \cup {record[t]} ELSE torn
        /\ noted' \subseteq (Nat \cup Member) \X Reason
        /\ halt' \in {"none", "NotCached", "limited", "failed"}
    BY <1>1, TakeFacts
  <2>2. got \subseteq Record /\ torn \subseteq Record
    BY <1>1 DEF TypeOK
  <2> QED
    BY <1>2, <2>1, <2>2
<1>8. /\ part' \in Nat \ {0} /\ page' \in Nat \ {0}
      /\ part' <= Len(Parts) => page' <= Len(Parts[part'].pages)
      /\ part' \in PartNumber /\ Seen(part') => page' = 1
  BY <1>1, TakeFacts, PartFacts DEF PartNumber
<1>9. /\ record' \in [Thread -> Record] /\ phase' \in {"rest", "parts", "members", "ended"}
      /\ offline' \in BOOLEAN /\ todo' \subseteq Member /\ complete' \in BOOLEAN
      /\ stale' \subseteq Record /\ flagged' \in BOOLEAN /\ heard' \in [Thread -> Nat]
  BY <1>1, TakeFacts DEF TypeOK
<1>10. TypeOK'
  BY <1>4, <1>5, <1>6, <1>7, <1>8, <1>9 DEF TypeOK
<1> QED
  BY <1>6, <1>8, <1>10 DEF Typed, Turn

(* A thread that takes nothing yet goes on with the same record.           *)
LEMMA GoKeepsType ==
  ASSUME Typed, NEW t \in Thread, at[t] # "idle",
         NEW to \in {"any", "ipv4", "create", "write"},
         at' = [at EXCEPT ![t] = to],
         UNCHANGED <<phase, offline, todo, results, record, complete>>,
         cache' \in [Record -> {"none", "torn", "whole"}], stale' \subseteq stale,
         flagged' \in BOOLEAN, heard' \in [Thread -> Nat]
  PROVE  Typed'
<1>1. \A u \in Thread : at'[u] # "idle" => at[u] # "idle"
  BY DEF Typed, TypeOK
<1>2. TypeOK'
  BY <1>1 DEF Typed, TypeOK, Thread
<1> QED
  BY <1>1, <1>2 DEF Typed, Turn, Thread

(* Type and turn are kept together.                                        *)
LEMMA TypedAlways == Spec => []Typed
<1>1. Init => Typed
  <2> SUFFICES ASSUME Init PROVE Typed
    OBVIOUS
  <2>1. Parts[1].pages[1] \in Record /\ 1 <= Len(Parts[1].pages) /\ 1 <= Len(Parts)
    BY PartFacts DEF Record, PartNumber
  <2>2. offline \in BOOLEAN /\ flagged \in BOOLEAN /\ complete \in BOOLEAN
    BY DEF Init
  <2>3. TypeOK
    BY <2>1, <2>2 DEF Init, TypeOK, Thread
  <2> QED
    BY <2>3, PartFacts DEF Init, Typed, Turn, Thread
<1>2. Typed /\ [Next]_vars => Typed'
  <2> SUFFICES ASSUME Typed, [Next]_vars PROVE Typed'
    OBVIOUS
  <2>a. TypeOK /\ Turn
    BY DEF Typed
  <2>1. CASE UNCHANGED vars
    BY <2>1 DEF Typed, TypeOK, Turn
  <2>2. CASE Start \/ Kill
    <3>1. Parts[1].pages[1] \in Record /\ 1 <= Len(Parts[1].pages) /\ 1 <= Len(Parts)
      BY PartFacts DEF Record, PartNumber
    <3>2. Fresh /\ disk' = disk /\ complete' = complete /\ phase' \in {"parts", "rest"}
          /\ offline' \in BOOLEAN
      BY <2>2, <2>a DEF Start, Kill, TypeOK
    <3>3. flagged' \in BOOLEAN /\ complete' \in BOOLEAN
      BY <2>a, <3>2 DEF Fresh, TypeOK
    <3>4. TypeOK'
      BY <2>a, <3>1, <3>2, <3>3 DEF Fresh, TypeOK, Thread
    <3> QED
      BY <3>2, <3>4, PartFacts DEF Fresh, Typed, Turn, Thread
  <2>3. CASE SkipRoll
    <3>1. page = 1 /\ part \in PartNumber
      BY <2>3, <2>a, PartFacts DEF SkipRoll, Turn, TypeOK, PartNumber
    <3>2. part + 1 <= Len(Parts) => 1 <= Len(Parts[part + 1].pages)
      BY <3>1, PartFacts DEF PartNumber
    <3>3. TypeOK'
      BY <2>3, <2>a, <3>1, <3>2 DEF SkipRoll, TypeOK
    <3> QED
      BY <2>3, <3>1, <3>3 DEF SkipRoll, Typed, Turn
  <2>4. CASE AskPage
    <3>1. part \in PartNumber /\ page \in 1..Len(Parts[part].pages)
      BY <2>4, <2>a, PartFacts DEF AskPage, TypeOK, PartNumber
    <3>2. Parts[part].pages[page] \in Record
      BY <3>1, PartFacts DEF Record
    <3>3. \A w \in Worker : w # Main
      BY ThreadAssumption
    <3>4. TypeOK'
      BY <2>4, <2>a, <3>2, <3>3 DEF AskPage, TypeOK, Thread
    <3> QED
      BY <2>4, <2>a, <3>4 DEF AskPage, Typed, Turn
  <2>5. CASE AskMembers
    <3>1. Named \subseteq Member
      BY PartFacts DEF Named
    <3>2. \A w \in Worker : at[w] = "idle"
      BY <2>5, <2>a DEF AskMembers, TypeOK
    <3> QED
      BY <2>5, <2>a, <3>1, <3>2 DEF AskMembers, Typed, TypeOK, Turn
  <2>6. ASSUME NEW w \in Worker, AskMember(w) PROVE Typed'
    <3>1. w # Main
      BY ThreadAssumption
    <3>2. PICK m \in todo : /\ todo' = todo \ {m}
                            /\ record' = [record EXCEPT ![w] = m]
      BY <2>6 DEF AskMember
    <3>3. m \in Member /\ m \in Record
      BY <3>2, <2>a DEF TypeOK, Record
    <3>4. TypeOK'
      BY <2>6, <2>a, <3>1, <3>2, <3>3 DEF AskMember, TypeOK, Thread
    <3> QED
      BY <2>6, <2>a, <3>1, <3>4 DEF AskMember, Typed, Turn, TypeOK, Thread
  <2>7. CASE End
    BY <2>7, <2>a DEF End, Typed, TypeOK, Turn, Thread
  <2>8. ASSUME NEW t \in Thread, Fetch(t) PROVE Typed'
    <3>1. at[t] # "idle" /\ record[t] \in Record
      BY <2>8, <2>a DEF Fetch, Look, Answered, Unreachable, Create, Write, SetFails, TypeOK
    <3>2. ASSUME NEW result \in Result, Take(t, result), UNCHANGED <<disk, http>>
          PROVE  Typed'
      BY <3>1, <3>2, <2>a, TakeKeepsType DEF TypeOK
    <3>3. CASE Look(t)
      <4>1. CASE IsFresh(record[t]) /\ Take(t, cache[record[t]]) /\ UNCHANGED <<disk, http>>
        BY <4>1, <3>1, <3>2, <2>a DEF TypeOK, IsFresh, Result
      <4>2. CASE Take(t, "NotCached") /\ UNCHANGED <<disk, http>>
        BY <4>2, <3>2 DEF Result
      <4>3. CASE /\ at' = [at EXCEPT ![t] = IF flagged THEN "ipv4" ELSE "any"]
                 /\ UNCHANGED <<disk, phase, offline, todo, results, record, http, complete>>
        BY <4>3, <3>1, <2>a, GoKeepsType DEF TypeOK
      <4> QED
        BY <3>3, <4>1, <4>2, <4>3 DEF Look
    <3>4. CASE Answered(t)
      <4>1. CASE Go(t, "create") /\ UNCHANGED <<disk, http>>
        BY <4>1, <3>1, <2>a, GoKeepsType DEF Go, TypeOK
      <4>2. CASE \E result \in {"limited", "failed"} : Take(t, result) /\ UNCHANGED <<disk, http>>
        BY <4>2, <3>2 DEF Result
      <4> QED
        BY <3>4, <4>1, <4>2 DEF Answered
    <3>5. CASE Unreachable(t)
      <4>1. flagged' \in BOOLEAN
        BY <3>5 DEF Unreachable
      <4>2. heard' \in [Thread -> Nat]
        BY <3>5, <2>a DEF Unreachable, TypeOK
      <4>3. Go(t, "ipv4") /\ cache' = cache /\ stale' = stale
        BY <3>5 DEF Unreachable
      <4> QED
        BY <4>1, <4>2, <4>3, <3>1, <2>a, GoKeepsType DEF Go, TypeOK
    <3>6. CASE Create(t)
      BY <3>6, <3>1, <2>a, GoKeepsType DEF Create, Go, TypeOK
    <3>7. CASE Write(t)
      BY <3>7, <3>1, <2>a, TakeKeepsType DEF Write, TypeOK, Result
    <3>8. CASE SetFails(t)
      BY <3>8, <3>2 DEF SetFails, Result
    <3> QED
      BY <2>8, <3>3, <3>4, <3>5, <3>6, <3>7, <3>8 DEF Fetch
  <2>9. ASSUME NEW r \in Record, Expire(r) PROVE Typed'
    BY <2>9, <2>a DEF Expire, Typed, TypeOK, Turn
  <2> QED
    BY <2>1, <2>2, <2>3, <2>4, <2>5, <2>6, <2>7, <2>8, <2>9 DEF Next, Download
<1> QED
  BY <1>1, <1>2, PTL DEF Spec

(* Every reachable state has its type: a worker is at a member only while  *)
(* members are taken, and the main thread only at the response it is due.  *)
THEOREM TypeCorrect == Spec => []TypeOK
<1>1. Typed => TypeOK
  BY DEF Typed
<1> QED
  BY <1>1, TypedAlways, PTL

(* A step of a fetch either takes a result, or goes on; neither removes an *)
(* entry, and a result that is a response is in the cache.                 *)
Takes(t, result) ==
  /\ Take(t, result)
  /\ \A r \in Record : cache[r] # "none" => cache'[r] # "none"
  /\ result \in {"whole", "torn"} => cache'[record[t]] # "none"
  /\ result = "NotCached" => cache[record[t]] = "none"

GoesOn(t) ==
  /\ \E to \in {"any", "ipv4", "create", "write"} : at' = [at EXCEPT ![t] = to]
  /\ UNCHANGED <<phase, offline, todo, results, record, complete>>
  /\ \A r \in Record : cache[r] # "none" => cache'[r] # "none"

(* Each step of a fetch is of one of these two kinds.                       *)
LEMMA FetchSteps ==
  ASSUME Typed, NEW t \in Thread, Fetch(t)
  PROVE  /\ at[t] # "idle" /\ record[t] \in Record
         /\ GoesOn(t) \/ \E result \in Result : Takes(t, result)
<1>a. at[t] # "idle" /\ record[t] \in Record
  BY DEF Fetch, Look, Answered, Unreachable, Create, Write, SetFails, Typed, TypeOK
<1>1. CASE Look(t)
  <2>1. CASE IsFresh(record[t]) /\ Take(t, cache[record[t]]) /\ UNCHANGED <<disk, http>>
    <3>1. cache[record[t]] \in {"whole", "torn"}
      BY <2>1, <1>a DEF Typed, TypeOK, IsFresh
    <3> QED
      BY <2>1, <1>a, <3>1 DEF Takes, Result
  <2>2. CASE ~IsFresh(record[t]) /\ offline /\ Take(t, "NotCached") /\ UNCHANGED <<disk, http>>
    <3>1. Takes(t, "NotCached")
      BY <2>2 DEF IsFresh, Takes
    <3> QED
      BY <1>a, <3>1 DEF Result
  <2>3. CASE /\ at' = [at EXCEPT ![t] = IF flagged THEN "ipv4" ELSE "any"]
             /\ UNCHANGED <<disk, phase, offline, todo, results, record, http, complete>>
    BY <2>3, <1>a DEF GoesOn
  <2> QED
    BY <1>1, <2>1, <2>2, <2>3 DEF Look
<1>2. CASE Answered(t)
  <2>1. CASE Go(t, "create") /\ UNCHANGED <<disk, http>>
    BY <2>1, <1>a DEF Go, GoesOn
  <2>2. ASSUME NEW result \in {"limited", "failed"}, Take(t, result), UNCHANGED disk
        PROVE  Takes(t, result) /\ result \in Result
    BY <2>2 DEF Takes, Result
  <2> QED
    BY <1>2, <1>a, <2>1, <2>2 DEF Answered
<1>3. CASE Unreachable(t)
  BY <1>3, <1>a DEF Unreachable, Go, GoesOn
<1>4. CASE Create(t)
  BY <1>4, <1>a DEF Create, Go, GoesOn, Typed, TypeOK
<1>5. CASE Write(t)
  <2>1. Takes(t, "whole")
    BY <1>5, <1>a DEF Write, Takes, Typed, TypeOK
  <2> QED
    BY <1>a, <2>1 DEF Result
<1>6. CASE SetFails(t)
  <2>1. Takes(t, "failed")
    BY <1>6 DEF SetFails, Takes
  <2> QED
    BY <1>a, <2>1 DEF Result
<1> QED
  BY <1>1, <1>2, <1>3, <1>4, <1>5, <1>6 DEF Fetch

(* What one thread has heard is told to all.                               *)
HeardOnce == \A t \in Thread : heard[t] # 0 => flagged

(* Only a look that meets no flag leads to a request over any family.      *)
LEMMA AsksUnflagged ==
  ASSUME Typed, [Next]_vars, NEW t \in Thread, at[t] # "any", at'[t] = "any"
  PROVE  ~flagged /\ heard' = heard
<1>a. TypeOK /\ Turn
  BY DEF Typed
<1>1. PICK u \in Thread : Fetch(u)
  <2>1. ~(Start \/ Kill)
    BY DEF Start, Kill, Fresh
  <2>2. ~(SkipRoll \/ AskPage \/ AskMembers \/ End \/ \E w \in Worker : AskMember(w))
    BY <1>a DEF SkipRoll, AskPage, AskMembers, End, AskMember, TypeOK, Thread
  <2>3. ~(UNCHANGED vars \/ \E r \in Record : Expire(r))
    BY DEF Expire
  <2> QED
    BY <2>1, <2>2, <2>3 DEF Next, Download
<1>2. ASSUME NEW result \in Result, Take(u, result) PROVE FALSE
  <2>1. at' = [at EXCEPT ![u] = "idle"]
    BY <1>a, <1>1, <1>2, FetchSteps, TakeFacts
  <2> QED
    BY <1>a, <2>1 DEF TypeOK
<1>3. \A to \in {"create", "write", "ipv4"} : ~Go(u, to)
  BY <1>a DEF Go, TypeOK
<1>4. ~Answered(u)
  BY <1>2, <1>3 DEF Answered, Result
<1>5. ~(Unreachable(u) \/ Create(u))
  BY <1>3 DEF Unreachable, Create
<1>6. ~(Write(u) \/ SetFails(u))
  BY <1>2 DEF Write, SetFails, Result
<1>7. Look(u)
  BY <1>1, <1>4, <1>5, <1>6 DEF Fetch
<1>8. ~Take(u, "NotCached") /\ ~(IsFresh(record[u]) /\ Take(u, cache[record[u]]))
  <2>1. record[u] \in Record
    BY <1>a DEF TypeOK
  <2>2. IsFresh(record[u]) => cache[record[u]] \in Result
    BY <1>a, <2>1 DEF TypeOK, IsFresh, Result
  <2> QED
    BY <1>2, <2>2 DEF Result
<1>9. at' = [at EXCEPT ![u] = IF flagged THEN "ipv4" ELSE "any"] /\ http' = http
  BY <1>7, <1>8 DEF Look
<1> QED
  BY <1>a, <1>9 DEF TypeOK

(* Once one thread has heard that the network is unreachable, each later   *)
(* request of any thread goes over IPv4 at once (http.rs:54-68).           *)
THEOREM EachWaitsOnce == Spec => WaitsOnce
<1>1. Init => HeardOnce
  BY DEF Init, HeardOnce
<1>2. TypeOK /\ Typed /\ HeardOnce /\ [Next]_vars => HeardOnce'
  <2> SUFFICES ASSUME TypeOK, Typed, HeardOnce, [Next]_vars PROVE HeardOnce'
    OBVIOUS
  <2>1. CASE UNCHANGED vars
    BY <2>1 DEF HeardOnce
  <2>2. CASE Start \/ Kill
    BY <2>2 DEF Start, Kill, Fresh, HeardOnce
  <2>3. CASE SkipRoll \/ AskPage \/ AskMembers \/ End \/ \E w \in Worker : AskMember(w)
    <3>1. /\ http' = http
          /\ at' = at \/ \E t \in Thread : at' = [at EXCEPT ![t] = "look"]
      BY <2>3 DEF SkipRoll, AskPage, AskMembers, End, AskMember, Thread
    <3> QED
      BY <3>1 DEF HeardOnce, TypeOK
  <2>4. ASSUME NEW t \in Thread, Fetch(t) PROVE HeardOnce'
    <3>0. at[t] # "idle" /\ Turn
      BY <2>4, FetchSteps DEF Typed
    <3>1. ASSUME NEW result \in Result, Take(t, result), UNCHANGED http PROVE HeardOnce'
      BY <3>0, <3>1, TakeFacts DEF HeardOnce, TypeOK
    <3>2. CASE Look(t)
      <4>1. CASE IsFresh(record[t]) /\ Take(t, cache[record[t]]) /\ UNCHANGED <<disk, http>>
        <5>1. cache[record[t]] \in Result
          BY <4>1, <2>4, FetchSteps DEF TypeOK, Result, IsFresh
        <5> QED
          BY <4>1, <5>1, <3>1
      <4>2. CASE Take(t, "NotCached") /\ UNCHANGED <<disk, http>>
        BY <4>2, <3>1 DEF Result
      <4>3. CASE /\ at' = [at EXCEPT ![t] = IF flagged THEN "ipv4" ELSE "any"]
                 /\ UNCHANGED <<disk, phase, offline, todo, results, record, http, complete>>
        BY <4>3 DEF HeardOnce, TypeOK
      <4> QED
        BY <3>2, <4>1, <4>2, <4>3 DEF Look
    <3>3. CASE Answered(t)
      <4>1. CASE Go(t, "create") /\ UNCHANGED http
        BY <4>1 DEF Go, HeardOnce, TypeOK
      <4>2. CASE \E result \in {"limited", "failed"} : Take(t, result) /\ UNCHANGED http
        BY <4>2, <3>1 DEF Result
      <4> QED
        BY <3>3, <4>1, <4>2 DEF Answered
    <3>4. CASE Unreachable(t)
      BY <3>4 DEF Unreachable, Go, HeardOnce, TypeOK
    <3>5. CASE Create(t)
      BY <3>5 DEF Create, Go, HeardOnce, TypeOK
    <3>6. CASE Write(t) \/ SetFails(t)
      BY <3>6, <3>1 DEF Write, SetFails, Result
    <3> QED
      BY <2>4, <3>2, <3>3, <3>4, <3>5, <3>6 DEF Fetch
  <2>5. ASSUME NEW r \in Record, Expire(r) PROVE HeardOnce'
    BY <2>5 DEF Expire, HeardOnce
  <2> QED
    BY <2>1, <2>2, <2>3, <2>4, <2>5 DEF Next, Download
<1>3. Typed /\ HeardOnce /\ [Next]_vars =>
        [\A t \in Thread :
           at[t] # "any" /\ at'[t] = "any" => \A u \in Thread : heard'[u] = 0]_vars
  BY AsksUnflagged DEF HeardOnce
<1> QED
  BY <1>1, <1>2, <1>3, TypedAlways, TypeCorrect, PTL DEF Spec, WaitsOnce

(* A member that is to be had is had, left out by name, still to be taken, *)
(* or at a worker.                                                         *)
MembersTaken ==
  /\ phase \in {"members", "ended"} /\ halt = "none" => part > Len(Parts)
  /\ phase \in {"members", "ended"} /\ halt = "none" =>
       \A m \in Named :
         \/ m \in got \cup torn \/ <<m, "failed">> \in noted
         \/ phase = "members" /\ m \in todo
         \/ \E w \in Worker : at[w] # "idle" /\ record[w] = m

(* Taking a member changes no part that is had: members are not pages.     *)
LEMMA WorkerStepKeepsNamed ==
  ASSUME Typed, NEW w \in Worker, at[w] # "idle",
         got' \subseteq got \cup {record[w]}, got \subseteq got'
  PROVE  Named' = Named
<1>1. record[w] \in Member
  BY DEF Typed, TypeOK
<1>2. \A n \in PartNumber : Range(Parts[n].pages) \subseteq Page
  BY PartFacts DEF Range
<1>3. \A n \in DOMAIN Parts : Range(Parts[n].pages) \subseteq got'
                                <=> Range(Parts[n].pages) \subseteq got
  BY <1>1, <1>2, PartFacts, RecordAssumption
<1> QED
  BY <1>3 DEF Named

LEMMA MembersTakenAlways == Spec => []MembersTaken
<1>1. Init => MembersTaken
  BY DEF Init, MembersTaken
<1>2. Typed /\ MembersTaken /\ [Next]_vars => MembersTaken'
  <2> SUFFICES ASSUME Typed, MembersTaken, [Next]_vars PROVE MembersTaken'
    OBVIOUS
  <2>a. TypeOK /\ Turn
    BY DEF Typed
  <2>1. CASE UNCHANGED vars
    BY <2>1 DEF MembersTaken, Named
  <2>2. CASE Start \/ Kill
    BY <2>2 DEF Start, Kill, MembersTaken
  <2>3. CASE SkipRoll \/ AskPage
    <3>1. phase = "parts" /\ phase' = phase
      BY <2>3 DEF SkipRoll, AskPage
    <3> QED
      BY <3>1 DEF MembersTaken
  <2>4. CASE AskMembers
    <3>1. Named' = Named /\ todo' = Named /\ part' = part /\ part > Len(Parts)
          /\ phase' = "members"
      BY <2>4 DEF AskMembers, Named
    <3> QED
      BY <3>1 DEF MembersTaken
  <2>5. ASSUME NEW w \in Worker, AskMember(w) PROVE MembersTaken'
    <3>1. PICK m \in todo : /\ todo' = todo \ {m}
                            /\ record' = [record EXCEPT ![w] = m]
      BY <2>5 DEF AskMember
    <3>2. Named' = Named /\ got' = got /\ torn' = torn /\ noted' = noted /\ part' = part
          /\ phase' = phase /\ halt' = halt /\ phase = "members"
      BY <2>5 DEF AskMember, Named
    <3>3. at'[w] # "idle" /\ record'[w] = m
      BY <2>5, <2>a, <3>1 DEF AskMember, TypeOK, Thread
    <3>4. \A v \in Worker : at[v] # "idle" => at'[v] # "idle" /\ record'[v] = record[v]
      BY <2>5, <2>a, <3>1 DEF AskMember, TypeOK, Thread
    <3> QED
      BY <3>1, <3>2, <3>3, <3>4 DEF MembersTaken
  <2>6. CASE End
    <3>1. /\ Named' = Named /\ got' = got /\ torn' = torn /\ noted' = noted /\ part' = part
          /\ halt' = halt /\ \A t \in Thread : at[t] = "idle"
          /\ ((phase = "members" /\ todo = {}) \/ halt # "none")
      BY <2>6 DEF End, Named
    <3> QED
      BY <3>1 DEF MembersTaken, Thread
  <2>7. ASSUME NEW t \in Thread, Fetch(t) PROVE MembersTaken'
    <3>1. at[t] # "idle"
      BY <2>7, FetchSteps
    <3>2. CASE GoesOn(t)
      <4>1. Named' = Named
        BY <3>2 DEF GoesOn, Named
      <4>2. \A v \in Worker : at[v] # "idle" => at'[v] # "idle" /\ record'[v] = record[v]
        BY <3>2, <2>a DEF GoesOn, TypeOK
      <4> QED
        BY <3>2, <4>1, <4>2 DEF GoesOn, MembersTaken
    <3>3. ASSUME NEW result \in Result, Takes(t, result) PROVE MembersTaken'
      <4>1. Take(t, result)
        BY <3>3 DEF Takes
      <4>2. CASE t = Main
        <5>1. phase' = "parts"
          BY <4>1, <4>2, <3>1, <2>a, TakeFacts DEF TypeOK
        <5> QED
          BY <5>1 DEF MembersTaken
      <4>3. CASE t # Main
        <5>1. t \in Worker /\ TakeMember(t, result) /\ phase = "members" /\ phase' = phase
          BY <4>1, <4>3, <3>1, <2>a, TakeFacts DEF Take, TypeOK, Thread
        <5>2. part' = part /\ todo' = todo /\ record' = record
              /\ \A v \in Worker : v # t => at'[v] = at[v]
          BY <4>1, <5>1, <3>1, <2>a, TakeFacts DEF TakeMember, TypeOK, Thread
        <5>3. /\ got \subseteq got' /\ torn \subseteq torn' /\ noted \subseteq noted'
              /\ got' \subseteq got \cup {record[t]}
          BY <4>1, <3>1, <2>a, TakeFacts
        <5>4. Named' = Named
          BY <5>1, <5>3, <3>1, WorkerStepKeepsNamed
        <5>5. ASSUME halt' = "none"
              PROVE  /\ halt = "none"
                     /\ record[t] \in got' \cup torn' \/ <<record[t], "failed">> \in noted'
          <6>1. halt = "none" /\ result \notin {"NotCached", "limited"}
            BY <5>1, <5>5 DEF TakeMember
          <6>2. result \in {"whole", "torn", "failed"}
            BY <6>1 DEF Result
          <6>3. result = "failed" => <<record[t], "failed">> \in noted'
            BY <5>1 DEF TakeMember
          <6>4. result \in {"whole", "torn"} => record[t] \in got' \cup torn'
            BY <5>1 DEF TakeMember, Taken
          <6> QED
            BY <6>1, <6>2, <6>3, <6>4
        <5> QED
          BY <5>1, <5>2, <5>3, <5>4, <5>5 DEF MembersTaken
      <4> QED
        BY <4>2, <4>3
    <3> QED
      BY <2>7, <3>2, <3>3, FetchSteps
  <2>8. ASSUME NEW r \in Record, Expire(r) PROVE MembersTaken'
    BY <2>8 DEF Expire, MembersTaken, Named
  <2> QED
    BY <2>1, <2>2, <2>3, <2>4, <2>5, <2>6, <2>7, <2>8 DEF Next, Download
<1> QED
  BY <1>1, <1>2, TypedAlways, PTL DEF Spec

(* Roll calls of one number are one roll call: the responses are the same.  *)
NumbersTell ==
  \A m, n \in PartNumber :
    Parts[m].kind = "roll" /\ Parts[n].kind = "roll" /\ Parts[m].number = Parts[n].number
      => Parts[m].pages = Parts[n].pages

RollAccounted(n) ==
  \/ Range(Parts[n].pages) \subseteq got
  \/ \E m \in PartNumber, why \in Reason :
       Parts[m].pages = Parts[n].pages /\ <<m, why>> \in noted

ActionsLeftOut ==
  \E n \in PartNumber, why \in Reason :
    Parts[n].kind = "actions" /\ <<n, why>> \in noted

(* The roll calls before the part a run is at are had or left out by name. *)
RollsTaken ==
  halt = "none" =>
    \/ ActionsLeftOut
    \/ \A n \in PartNumber : n < part /\ Parts[n].kind = "roll" => RollAccounted(n)

(* What a run has and was told only grows, so what is accounted for stays.  *)
LEMMA AccountedStays ==
  ASSUME got \subseteq got', noted \subseteq noted'
  PROVE  /\ ActionsLeftOut => ActionsLeftOut'
         /\ \A n \in PartNumber : RollAccounted(n) => RollAccounted(n)'
  BY DEF ActionsLeftOut, RollAccounted

LEMMA RollsTakenAlways == ASSUME NumbersTell PROVE Spec => []RollsTaken
<1>1. Init => RollsTaken
  BY DEF Init, RollsTaken, PartNumber
<1>2. Typed /\ RollsTaken /\ [Next]_vars => RollsTaken'
  <2> SUFFICES ASSUME Typed, RollsTaken, [Next]_vars PROVE RollsTaken'
    OBVIOUS
  <2>a. TypeOK /\ Turn
    BY DEF Typed
  <2>b. ASSUME got \subseteq got', noted \subseteq noted', part' = part,
               halt' = "none" => halt = "none"
        PROVE  RollsTaken'
    BY <2>b, AccountedStays DEF RollsTaken
  <2>1. CASE UNCHANGED vars
    BY <2>1, <2>b
  <2>2. CASE Start \/ Kill
    <3>1. part' = 1
      BY <2>2 DEF Start, Kill, Fresh
    <3> QED
      BY <3>1 DEF RollsTaken, PartNumber
  <2>3. CASE SkipRoll
    <3>1. part \in PartNumber /\ part' = part + 1 /\ got' = got /\ noted' = noted /\ halt' = halt
      BY <2>3, <2>a, PartFacts DEF SkipRoll, TypeOK, PartNumber
    <3>2. PICK m \in 1..(part - 1) :
            Parts[m].kind = "roll" /\ Parts[m].number = Parts[part].number
      BY <2>3 DEF SkipRoll, Seen
    <3>3. m \in PartNumber /\ m < part /\ Parts[part].kind = "roll"
      BY <2>3, <3>1, <3>2, PartFacts DEF SkipRoll, Seen, PartNumber
    <3>4. Parts[m].pages = Parts[part].pages
      BY <3>1, <3>2, <3>3 DEF NumbersTell
    <3>5. RollAccounted(m) => RollAccounted(part)
      BY <3>4 DEF RollAccounted
    <3>6. \A n \in PartNumber : n < part' => n < part \/ n = part
      BY <3>1 DEF PartNumber
    <3>7. CASE halt = "none" /\ ~ActionsLeftOut
      <4>1. \A n \in PartNumber : n < part' /\ Parts[n].kind = "roll" => RollAccounted(n)
        <5>1. \A n \in PartNumber : n < part /\ Parts[n].kind = "roll" => RollAccounted(n)
          BY <3>7 DEF RollsTaken
        <5>2. RollAccounted(part)
          BY <3>2, <3>3, <3>5, <5>1
        <5> QED
          BY <3>6, <5>1, <5>2
      <4> QED
        BY <3>1, <4>1, AccountedStays DEF RollsTaken
    <3> QED
      BY <3>1, <3>7, AccountedStays DEF RollsTaken
  <2>4. CASE AskPage \/ AskMembers \/ End \/ \E w \in Worker : AskMember(w)
    BY <2>4, <2>b DEF AskPage, AskMembers, End, AskMember
  <2>5. ASSUME NEW t \in Thread, Fetch(t) PROVE RollsTaken'
    <3>1. at[t] # "idle"
      BY <2>5, FetchSteps
    <3>2. CASE GoesOn(t)
      BY <3>2, <2>b DEF GoesOn
    <3>3. ASSUME NEW result \in Result, Takes(t, result) PROVE RollsTaken'
      <4>1. Take(t, result)
        BY <3>3 DEF Takes
      <4>2. got \subseteq got' /\ noted \subseteq noted' /\ (halt' = "none" => halt = "none")
        BY <4>1, <3>1, <2>a, TakeFacts
      <4>3. CASE t # Main
        BY <4>1, <4>2, <4>3, <2>b DEF Take, TakeMember
      <4>4. CASE t = Main
        <5>1. TakePage(result) /\ part \in PartNumber
          BY <4>1, <4>4, <3>1, <2>a, PartFacts DEF Take, TypeOK, PartNumber
        <5>2. CASE UNCHANGED part
          BY <5>2, <4>2, <2>b
        <5>3. CASE Parts[part].kind = "actions" /\ result \in Reason /\ LeaveOut(result)
          BY <5>1, <5>3 DEF LeaveOut, RollsTaken, ActionsLeftOut
        <5>4. CASE /\ part' = part + 1
                   /\ Parts[part].kind = "roll" =>
                        \/ result \in Reason /\ LeaveOut(result)
                        \/ "torn" \in Reason /\ LeaveOut("torn")
                        \/ Range(Parts[part].pages) \subseteq got'
          <6>1. ASSUME NEW why \in Reason, LeaveOut(why)
                PROVE  \E m \in PartNumber, w \in Reason :
                         Parts[m].pages = Parts[part].pages /\ <<m, w>> \in noted'
            <7>1. <<part, why>> \in noted'
              BY <6>1 DEF LeaveOut
            <7> QED
              BY <5>1, <6>1, <7>1
          <6>2. ASSUME Parts[part].kind = "roll"
                PROVE  \/ Range(Parts[part].pages) \subseteq got'
                       \/ \E m \in PartNumber, w \in Reason :
                            Parts[m].pages = Parts[part].pages /\ <<m, w>> \in noted'
            BY <5>4, <6>1, <6>2
          <6>3. \A n \in PartNumber : n < part' => n < part \/ n = part
            BY <5>1, <5>4 DEF PartNumber
          <6>4. ASSUME NEW n \in PartNumber, n < part', Parts[n].kind = "roll",
                       n < part => RollAccounted(n)
                PROVE  RollAccounted(n)'
            <7>1. CASE n < part
              BY <7>1, <6>4, <4>2, AccountedStays
            <7>2. CASE n = part
              BY <7>2, <6>2, <6>4 DEF RollAccounted
            <7> QED
              BY <7>1, <7>2, <6>3, <6>4
          <6> QED
            BY <6>4, <4>2, AccountedStays DEF RollsTaken
        <5> QED
          BY <5>1, <5>2, <5>3, <5>4 DEF TakePage, NextPart, Reason
      <4> QED
        BY <4>3, <4>4
    <3> QED
      BY <2>5, <3>2, <3>3, FetchSteps
  <2>6. ASSUME NEW r \in Record, Expire(r) PROVE RollsTaken'
    BY <2>6, <2>b DEF Expire
  <2> QED
    BY <2>1, <2>2, <2>3, <2>4, <2>5, <2>6 DEF Next, Download
<1> QED
  BY <1>1, <1>2, TypedAlways, PTL DEF Spec

(* Where numbers tell roll calls apart, a download that comes to its end   *)
(* has each roll call and member, or has told progress by name that it is  *)
(* left out, whichever worker was refused while others were at theirs.     *)
THEOREM GapsAreAlwaysNamed == ASSUME NumbersTell PROVE Spec => []GapsAreNamed
<1>1. Typed /\ MembersTaken /\ RollsTaken => GapsAreNamed
  <2> SUFFICES ASSUME Typed, MembersTaken, RollsTaken, Done
               PROVE  /\ RollsAccounted
                      /\ \A m \in Named : m \in got \cup torn \/ <<m, "failed">> \in noted
    BY DEF GapsAreNamed
  <2>1. phase = "ended" /\ halt = "none"
    BY DEF Done
  <2>2. \A w \in Worker : at[w] = "idle"
    BY <2>1 DEF Typed, TypeOK
  <2>3. \A n \in PartNumber : n < part
    BY <2>1, PartFacts DEF MembersTaken, Typed, TypeOK, PartNumber
  <2>4. RollsAccounted
    BY <2>1, <2>3, PartFacts DEF RollsTaken, RollAccounted, ActionsLeftOut, RollsAccounted
  <2> QED
    BY <2>1, <2>2, <2>4 DEF MembersTaken
<1> QED
  BY <1>1, TypedAlways, MembersTakenAlways, RollsTakenAlways, PTL

(* What a run can come to ask for: the responses of the parts it does not   *)
(* skip, and the members named by the parts those make whole.              *)
PagesAsked == UNION {Range(Parts[n].pages) : n \in {m \in PartNumber : ~Seen(m)}}

Asked ==
  PagesAsked \cup UNION {Parts[n].names :
                           n \in {m \in PartNumber : Range(Parts[m].pages) \subseteq PagesAsked}}

AsksOnlyAsked ==
  /\ got \cap Page \subseteq PagesAsked
  /\ at[Main] # "idle" => record[Main] \in PagesAsked
  /\ todo \subseteq Asked
  /\ \A w \in Worker : at[w] # "idle" => record[w] \in Asked

LEMMA NamedIsAsked == ASSUME got \cap Page \subseteq PagesAsked PROVE Named \subseteq Asked
<1>1. \A n \in PartNumber : Range(Parts[n].pages) \subseteq Page
  BY PartFacts DEF Range
<1>2. \A n \in PartNumber : Range(Parts[n].pages) \subseteq got
                              => Range(Parts[n].pages) \subseteq PagesAsked
  BY <1>1
<1> QED
  BY <1>2, PartFacts DEF Named, Asked

LEMMA AsksOnlyAskedAlways == Spec => []AsksOnlyAsked
<1>1. Init => AsksOnlyAsked
  BY DEF Init, AsksOnlyAsked, Thread
<1>2. Typed /\ AsksOnlyAsked /\ [Next]_vars => AsksOnlyAsked'
  <2> SUFFICES ASSUME Typed, AsksOnlyAsked, [Next]_vars PROVE AsksOnlyAsked'
    OBVIOUS
  <2>a. TypeOK /\ Turn
    BY DEF Typed
  <2>1. CASE UNCHANGED vars
    BY <2>1 DEF AsksOnlyAsked
  <2>2. CASE Start \/ Kill
    BY <2>2 DEF Start, Kill, Fresh, AsksOnlyAsked, Thread
  <2>3. CASE SkipRoll \/ End
    BY <2>3 DEF SkipRoll, End, AsksOnlyAsked
  <2>4. CASE AskPage
    <3>1. part \in PartNumber /\ page \in DOMAIN Parts[part].pages /\ ~Seen(part)
      BY <2>4, <2>a, PartFacts DEF AskPage, TypeOK, PartNumber
    <3>2. Parts[part].pages[page] \in PagesAsked
      BY <3>1 DEF PagesAsked, Range
    <3>3. \A w \in Worker : w # Main /\ at[w] = "idle"
      BY <2>4, <2>a, ThreadAssumption DEF AskPage, TypeOK
    <3> QED
      BY <2>4, <2>a, <3>2, <3>3 DEF AskPage, AsksOnlyAsked, TypeOK, Thread
  <2>5. CASE AskMembers
    BY <2>5, NamedIsAsked DEF AskMembers, AsksOnlyAsked
  <2>6. ASSUME NEW w \in Worker, AskMember(w) PROVE AsksOnlyAsked'
    <3>1. w # Main
      BY ThreadAssumption
    <3> QED
      BY <2>6, <2>a, <3>1 DEF AskMember, AsksOnlyAsked, TypeOK, Thread
  <2>7. ASSUME NEW t \in Thread, Fetch(t) PROVE AsksOnlyAsked'
    <3>1. at[t] # "idle"
      BY <2>7, FetchSteps
    <3>2. CASE GoesOn(t)
      BY <3>1, <3>2, <2>a DEF GoesOn, AsksOnlyAsked, TypeOK, Thread
    <3>3. ASSUME NEW result \in Result, Takes(t, result) PROVE AsksOnlyAsked'
      <4>1. /\ at' = [at EXCEPT ![t] = "idle"] /\ record' = record /\ todo' = todo
            /\ got' \subseteq got \cup {record[t]}
        BY <3>1, <3>3, <2>a, TakeFacts DEF Takes
      <4>2. record[t] \in Page => record[t] \in PagesAsked
        BY <3>1, <2>a, RecordAssumption DEF AsksOnlyAsked, TypeOK, Thread
      <4> QED
        BY <4>1, <4>2, <2>a DEF AsksOnlyAsked, TypeOK, Thread
    <3> QED
      BY <2>7, <3>2, <3>3, FetchSteps
  <2>8. ASSUME NEW r \in Record, Expire(r) PROVE AsksOnlyAsked'
    BY <2>8 DEF Expire, AsksOnlyAsked
  <2> QED
    BY <2>1, <2>2, <2>3, <2>4, <2>5, <2>6, <2>7, <2>8 DEF Next, Download
<1> QED
  BY <1>1, <1>2, TypedAlways, PTL DEF Spec

NothingLeftOut == halt = "none" /\ noted = {} /\ torn = {}

(* A run with nothing left out has every response it is past.              *)
PartsHad ==
  NothingLeftOut =>
    /\ \A n \in PartNumber : n < part /\ ~Seen(n) => Range(Parts[n].pages) \subseteq got
    /\ part \in PartNumber => \A i \in 1..(page - 1) : Parts[part].pages[i] \in got

LEMMA PartsHadAlways == Spec => []PartsHad
<1>1. Init => PartsHad
  BY DEF Init, PartsHad, PartNumber
<1>2. Typed /\ PartsHad /\ [Next]_vars => PartsHad'
  <2> SUFFICES ASSUME Typed, PartsHad, [Next]_vars, NothingLeftOut'
               PROVE  PartsHad'
    BY DEF PartsHad
  <2>a. TypeOK /\ Turn
    BY DEF Typed
  <2>b. ASSUME got \subseteq got', UNCHANGED <<part, page>>, NothingLeftOut PROVE PartsHad'
    BY <2>b DEF PartsHad
  <2>1. CASE UNCHANGED vars
    BY <2>1, <2>b DEF NothingLeftOut
  <2>2. CASE Start \/ Kill
    <3>1. part' = 1 /\ page' = 1
      BY <2>2 DEF Start, Kill, Fresh
    <3> QED
      BY <3>1 DEF PartsHad, PartNumber
  <2>3. CASE SkipRoll
    <3>1. /\ part' = part + 1 /\ page' = page /\ got' = got /\ part \in PartNumber
          /\ Seen(part) /\ page = 1 /\ NothingLeftOut
      BY <2>3, <2>a, PartFacts DEF SkipRoll, TypeOK, Turn, PartNumber, NothingLeftOut
    <3>2. \A n \in PartNumber : n < part' => n < part \/ n = part
      BY <3>1 DEF PartNumber
    <3>3. \A n \in PartNumber : n < part' /\ ~Seen(n) => Range(Parts[n].pages) \subseteq got
      BY <3>1, <3>2 DEF PartsHad
    <3> QED
      BY <3>1, <3>3 DEF PartsHad
  <2>4. CASE AskPage \/ AskMembers \/ End \/ \E w \in Worker : AskMember(w)
    BY <2>4, <2>b DEF AskPage, AskMembers, End, AskMember, NothingLeftOut
  <2>5. ASSUME NEW t \in Thread, Fetch(t) PROVE PartsHad'
    <3>1. at[t] # "idle"
      BY <2>5, FetchSteps
    <3>2. CASE GoesOn(t)
      BY <3>2, <2>b DEF GoesOn, NothingLeftOut
    <3>3. ASSUME NEW result \in Result, Takes(t, result) PROVE PartsHad'
      <4>1. Take(t, result)
        BY <3>3 DEF Takes
      <4>2. /\ NothingLeftOut /\ got \subseteq got' /\ result # "torn"
            /\ result = "whole" => got' = got \cup {record[t]}
        BY <4>1, <3>1, <2>a, TakeFacts DEF NothingLeftOut
      <4>3. CASE t # Main
        BY <4>1, <4>2, <4>3, <2>b DEF Take, TakeMember
      <4>4. CASE t = Main
        <5>1. /\ TakePage(result) /\ part \in PartNumber /\ page \in 1..Len(Parts[part].pages)
              /\ record[t] = Parts[part].pages[page] /\ halt = "none"
          BY <4>1, <4>4, <3>1, <2>a, PartFacts DEF Take, TypeOK, PartNumber
        <5>2. noted' = {} /\ halt' = "none"
          BY DEF NothingLeftOut
        <5>3. /\ result = "whole"
              /\ \/ page < Len(Parts[part].pages) /\ page' = page + 1 /\ part' = part
                 \/ page = Len(Parts[part].pages) /\ page' = 1 /\ part' = part + 1
          BY <4>2, <5>1, <5>2 DEF TakePage, LeaveOut, NextPart, Result
        <5>4. \A i \in 1..page : Parts[part].pages[i] \in got'
          <6>1. \A i \in 1..page : i \in 1..(page - 1) \/ i = page
            BY <5>1
          <6>2. \A i \in 1..(page - 1) : Parts[part].pages[i] \in got
            BY <4>2, <5>1 DEF PartsHad
          <6> QED
            BY <4>2, <5>1, <5>3, <6>1, <6>2
        <5>5. CASE page < Len(Parts[part].pages) /\ page' = page + 1 /\ part' = part
          <6>1. (page + 1) - 1 = page
            BY <5>1
          <6> QED
            BY <4>2, <5>4, <5>5, <6>1 DEF PartsHad
        <5>6. CASE page = Len(Parts[part].pages) /\ page' = 1 /\ part' = part + 1
          <6>1. Range(Parts[part].pages) \subseteq got'
            BY <5>1, <5>4, <5>6, PartFacts DEF Range
          <6>2. \A n \in PartNumber : n < part' => n < part \/ n = part
            BY <5>1, <5>6 DEF PartNumber
          <6>3. \A n \in PartNumber : n < part' /\ ~Seen(n) => Range(Parts[n].pages) \subseteq got'
            BY <4>2, <6>1, <6>2 DEF PartsHad
          <6> QED
            BY <5>6, <6>3 DEF PartsHad
        <5> QED
          BY <5>3, <5>5, <5>6
      <4> QED
        BY <4>3, <4>4
    <3> QED
      BY <2>5, <3>2, <3>3, FetchSteps
  <2>6. ASSUME NEW r \in Record, Expire(r) PROVE PartsHad'
    BY <2>6, <2>b DEF Expire, NothingLeftOut
  <2> QED
    BY <2>1, <2>2, <2>3, <2>4, <2>5, <2>6 DEF Next, Download
<1> QED
  BY <1>1, <1>2, TypedAlways, PTL DEF Spec

(* A run that comes to its end with nothing left out has all it could ask. *)
LEMMA CompleteHasAsked ==
  ASSUME Typed, MembersTaken, PartsHad, NothingLeftOut, phase = "members", todo = {},
         \A t \in Thread : at[t] = "idle"
  PROVE  Asked \subseteq got
<1>1. \A n \in PartNumber : n < part
  BY PartFacts DEF MembersTaken, NothingLeftOut, Typed, TypeOK, PartNumber
<1>2. PagesAsked \subseteq got
  BY <1>1 DEF PartsHad, PagesAsked
<1>3. Named \subseteq got
  BY DEF MembersTaken, NothingLeftOut, Thread
<1>4. \A n \in PartNumber : Range(Parts[n].pages) \subseteq PagesAsked
                              => Range(Parts[n].pages) \subseteq got
  BY <1>2
<1> QED
  BY <1>2, <1>3, <1>4, PartFacts DEF Asked, Named

EntriesStand ==
  /\ \A r \in got \cup torn : cache[r] # "none"
  /\ complete => halt # "NotCached" /\ \A r \in Asked : cache[r] # "none"

(* Once a run has come to its end with nothing left out, no offline run    *)
(* misses a record, whatever was expired, refreshed or half written since  *)
(* (cache.rs:10-12, client.rs:66-69).                                      *)
THEOREM OfflineAlwaysAnswers == Spec => []OfflineAnswers
<1>1. Init => EntriesStand
  BY DEF Init, EntriesStand
<1>2. /\ Typed /\ MembersTaken /\ PartsHad /\ AsksOnlyAsked /\ EntriesStand
      /\ [Next]_vars
      => EntriesStand'
  <2> SUFFICES ASSUME Typed, MembersTaken, PartsHad, AsksOnlyAsked, EntriesStand,
                      [Next]_vars
               PROVE  EntriesStand'
    OBVIOUS
  <2>a. TypeOK /\ Turn
    BY DEF Typed
  <2>1. CASE UNCHANGED vars
    BY <2>1 DEF EntriesStand
  <2>2. CASE Start \/ Kill
    BY <2>2 DEF Start, Kill, Fresh, EntriesStand
  <2>3. CASE SkipRoll \/ AskPage \/ AskMembers \/ \E w \in Worker : AskMember(w)
    BY <2>3 DEF SkipRoll, AskPage, AskMembers, AskMember, EntriesStand
  <2>4. CASE End
    <3>1. CASE halt = "none" /\ noted = {} /\ torn = {}
      <4>1. phase = "members" /\ todo = {} /\ \A t \in Thread : at[t] = "idle"
        BY <2>4, <3>1 DEF End
      <4>2. Asked \subseteq got
        BY <3>1, <4>1, CompleteHasAsked DEF NothingLeftOut
      <4> QED
        BY <2>4, <3>1, <4>2 DEF End, EntriesStand
    <3>2. CASE ~(halt = "none" /\ noted = {} /\ torn = {})
      BY <2>4, <3>2 DEF End, EntriesStand
    <3> QED
      BY <3>1, <3>2
  <2>5. ASSUME NEW t \in Thread, Fetch(t) PROVE EntriesStand'
    <3>1. at[t] # "idle" /\ record[t] \in Record
      BY <2>5, FetchSteps
    <3>2. Asked \subseteq Record /\ got \cup torn \subseteq Record
      <4>1. PagesAsked \subseteq Page
        BY PartFacts DEF PagesAsked, Range
      <4> QED
        BY <4>1, <2>a, PartFacts DEF Asked, Record, TypeOK
    <3>3. CASE GoesOn(t)
      BY <3>2, <3>3 DEF GoesOn, EntriesStand
    <3>4. ASSUME NEW result \in Result, Takes(t, result) PROVE EntriesStand'
      <4>1. Take(t, result)
        BY <3>4 DEF Takes
      <4>2. /\ halt' \in {halt, result} /\ complete' = complete
            /\ got' = IF result = "whole" THEN got \cup {record[t]} ELSE got
            /\ torn' = IF result = "torn" THEN torn \cup {record[t]} ELSE torn
        BY <4>1, <3>1, <2>a, TakeFacts
      <4>3. record[t] \in Asked
        BY <3>1 DEF AsksOnlyAsked, Asked, Thread
      <4>4. complete => result # "NotCached"
        BY <3>4, <4>3 DEF Takes, EntriesStand
      <4>5. \A r \in got' \cup torn' : cache'[r] # "none"
        BY <3>2, <3>4, <4>2 DEF Takes, EntriesStand
      <4> QED
        BY <3>2, <3>4, <4>2, <4>4, <4>5 DEF Takes, EntriesStand
    <3> QED
      BY <2>5, <3>3, <3>4, FetchSteps
  <2>6. ASSUME NEW r \in Record, Expire(r) PROVE EntriesStand'
    BY <2>6 DEF Expire, EntriesStand
  <2> QED
    BY <2>1, <2>2, <2>3, <2>4, <2>5, <2>6 DEF Next, Download
<1>3. EntriesStand => OfflineAnswers
  BY DEF EntriesStand, OfflineAnswers
<1> QED
  BY <1>1, <1>2, <1>3, TypedAlways, MembersTakenAlways, PartsHadAlways,
     AsksOnlyAskedAlways, PTL DEF Spec
=============================================================================
