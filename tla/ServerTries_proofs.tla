-------------------------- MODULE ServerTries_proofs --------------------------
(***************************************************************************)
(* What doDNSQuery asks the upstreams for one request, and what becomes of *)
(* the answers: the exchanges a handler has made, counted against the tries *)
(* it is allowed, and the response they lead to.                           *)
(***************************************************************************)
EXTENDS DohServer_proofs, FiniteSetTheorems

(* The exchanges with upstreams. *)

Try == [net : {"udp", "tcp"}, upstream : Upstream, result : {"ok", "error", "truncated"}]

Truncated(e) == e.net = "udp" /\ e.result = "truncated"

Failed(e) == e.result = "error" \/ (e.net = "tcp" /\ e.result = "truncated")

Failures(a) == {i \in DOMAIN a : Failed(a[i])}

(* Which exchange may follow which. *)
Chained(a) ==
    \A i \in DOMAIN a :
        /\ a[i].result = "ok" => i = Len(a)
        /\ Truncated(a[i]) /\ i # Len(a) => a[i + 1].net = "tcp" /\ a[i + 1].upstream = a[i].upstream
        /\ a[i].net = "tcp" /\ ~TCPOnly => i > 1 /\ Truncated(a[i - 1])

(* A failure costs at most two exchanges, and so does what the last try has made so far. *)
Spent(a) ==
    Len(a) <= 2 * Cardinality(Failures(a)) + (IF a = <<>> \/ Failed(Last(a)) THEN 0
                                              ELSE IF Truncated(Last(a)) THEN 1 ELSE 2)

(* The tries of a handler, by the time it is where it is. *)
Tried(p, a) ==
    /\ a \in Seq(Try) /\ Chained(a) /\ Spent(a)
    /\ p.tries \in 0..Tries - 1
    /\ ~QueryPacks(p.req) => a = <<>>
    /\ p.pc \in {"idle", "save"} => a = <<>> /\ p.tries = 0
    /\ p.pc = "query" => a = <<>> \/ Failed(Last(a))
    /\ p.pc = "tcp" => /\ ~TCPOnly /\ a # <<>>
                       /\ Truncated(Last(a)) /\ Last(a).upstream = p.upstream
    /\ p.pc = "lookup" => a # <<>> /\ Last(a).result = "ok"
    /\ QueryPacks(p.req) /\ (p.pc # "done" \/ (a # <<>> /\ Last(a).result = "ok"))
         => Cardinality(Failures(a)) = p.tries
    /\ p.pc = "done" /\ a # <<>> /\ Last(a).result # "ok"
         => Failed(Last(a)) /\ Cardinality(Failures(a)) = Tries

(* What a handler has written. *)
Answered(p, a, o) ==
    p.pc = "done" =>
        \/ p.req.errcode = 444 /\ o = <<ProbeResponse(p.r)>>
        \/ p.req.errcode \notin {0, 444} /\ o = <<FormatError(p.req.errcode)>>
        \/ /\ p.req.errcode = 0 /\ o = <<FormatError(503)>>
           /\ a = <<>> \/ Last(a).result # "ok"
        \/ /\ p.req.errcode = 0 /\ a # <<>> /\ Last(a).result = "ok"
           /\ o = <<GenerateResponse(p.r, p.req, postLookup(p.response, p.req.ads))>>

Work(h) == Tried(proc[h], asked[h]) /\ Answered(proc[h], asked[h], out[h])

(* A failure more is counted once. *)
LEMMA FailuresOfAppend ==
    ASSUME NEW a \in Seq(Try), NEW e \in Try
    PROVE  /\ Cardinality(Failures(a)) \in Nat
           /\ Cardinality(Failures(Append(a, e))) = Cardinality(Failures(a)) + (IF Failed(e) THEN 1 ELSE 0)
<1> DEFINE b == Append(a, e)
           n == Len(a)
<1>1. n \in Nat /\ DOMAIN a = 1..n /\ DOMAIN b = 1..n + 1
  OBVIOUS
<1>2. (\A i \in 1..n : b[i] = a[i]) /\ b[n + 1] = e
  OBVIOUS
<1>3. Failures(a) \subseteq 1..n
  BY <1>1 DEF Failures
<1>4. IsFiniteSet(Failures(a)) /\ Cardinality(Failures(a)) \in Nat
  <2>1. IsFiniteSet(1..n)
    BY <1>1, FS_Interval
  <2> QED
    BY <1>3, <2>1, FS_Subset, FS_CardinalityType
<1> HIDE DEF b, n
<1>5. CASE Failed(e)
  <2>1. Failures(b) = Failures(a) \cup {n + 1}
    BY <1>1, <1>2, <1>5 DEF Failures
  <2>2. n + 1 \notin Failures(a)
    BY <1>1, <1>3
  <2>3. Cardinality(Failures(a) \cup {n + 1}) = Cardinality(Failures(a)) + 1
    <3> DEFINE F == Failures(a)
    <3>1. IsFiniteSet(F) /\ n + 1 \notin F
      BY <1>4, <2>2
    <3> HIDE DEF F
    <3>2. Cardinality(F \cup {n + 1}) = Cardinality(F) + 1
      BY <3>1, FS_AddElement, Zenon
    <3> QED
      BY <3>2, Zenon DEF F
  <2> QED
    BY <1>4, <1>5, <2>1, <2>3 DEF b
<1>6. CASE ~Failed(e)
  <2>1. Failures(b) = Failures(a)
    BY <1>1, <1>2, <1>6 DEF Failures
  <2> QED
    BY <1>4, <1>6, <2>1 DEF b
<1> QED
  BY <1>5, <1>6

(* doDNSQuery asks another upstream when a try has failed, the same one when it has truncated. *)
Follows(a, e) ==
    \/ /\ a = <<>> \/ Failed(Last(a))
       /\ e.net = IF TCPOnly THEN "tcp" ELSE "udp"
    \/ /\ a # <<>> /\ Truncated(Last(a))
       /\ e.net = "tcp" /\ e.upstream = Last(a).upstream

(* Such an exchange keeps the order and the count of the tries. *)
LEMMA AppendTry ==
    ASSUME NEW a \in Seq(Try), Chained(a), Spent(a), NEW e \in Try, Follows(a, e)
    PROVE  LET b == Append(a, e)
           IN  /\ b \in Seq(Try) /\ b # <<>> /\ Last(b) = e
               /\ Chained(b) /\ Spent(b)
<1> DEFINE b == Append(a, e)
           n == Len(a)
<1>1. n \in Nat /\ DOMAIN a = 1..n /\ DOMAIN b = 1..n + 1 /\ Len(b) = n + 1 /\ b \in Seq(Try)
  OBVIOUS
<1>2. (\A i \in 1..n : b[i] = a[i]) /\ b[n + 1] = e
  OBVIOUS
<1>3. a = <<>> <=> n = 0
  OBVIOUS
<1>4. Last(b) = e /\ Last(a) = a[n] /\ b # <<>>
  BY <1>1, <1>2 DEF Last
<1>5. Failed(e) \/ Truncated(e) \/ e.result = "ok"
  BY DEF Try, Failed, Truncated
<1>6. \A x : ~(Failed(x) /\ Truncated(x)) /\ (x.result = "ok" => ~Failed(x) /\ ~Truncated(x))
  BY DEF Failed, Truncated
<1>7. n # 0 => Failed(a[n]) \/ (Truncated(a[n]) /\ e.net = "tcp" /\ e.upstream = a[n].upstream)
  BY <1>3, <1>4 DEF Follows
<1>8. e.net = "tcp" /\ ~TCPOnly => n # 0 /\ Truncated(a[n])
  BY <1>3, <1>4 DEF Follows
<1>9. Chained(b)
  <2> HIDE DEF b, n
  <2> SUFFICES ASSUME NEW i \in 1..n + 1
               PROVE  /\ b[i].result = "ok" => i = n + 1
                      /\ Truncated(b[i]) /\ i # n + 1 => b[i + 1].net = "tcp" /\ b[i + 1].upstream = b[i].upstream
                      /\ b[i].net = "tcp" /\ ~TCPOnly => i > 1 /\ Truncated(b[i - 1])
    BY <1>1 DEF Chained
  <2>1. CASE i = n + 1
    BY <1>1, <1>2, <1>8, <2>1
  <2>2. CASE i = n /\ n # 0
    <3>1. b[i] = a[n] /\ b[i + 1] = e
      BY <1>1, <1>2, <2>2
    <3>2. a[n].result # "ok"
      BY <1>6, <1>7, <2>2
    <3>3. Truncated(a[n]) => e.net = "tcp" /\ e.upstream = a[n].upstream
      BY <1>6, <1>7, <2>2
    <3>4. a[n].net = "tcp" /\ ~TCPOnly => n > 1 /\ Truncated(a[n - 1])
      BY <1>1, <2>2 DEF Chained
    <3>5. n > 1 => b[n - 1] = a[n - 1]
      BY <1>1, <1>2
    <3> QED
      BY <2>2, <3>1, <3>2, <3>3, <3>4, <3>5
  <2>3. CASE i < n
    <3>1. b[i] = a[i] /\ b[i + 1] = a[i + 1] /\ (i > 1 => b[i - 1] = a[i - 1]) /\ i \in DOMAIN a /\ i # n
      BY <1>1, <1>2, <2>3
    <3>2. /\ a[i].result # "ok"
          /\ Truncated(a[i]) => a[i + 1].net = "tcp" /\ a[i + 1].upstream = a[i].upstream
          /\ a[i].net = "tcp" /\ ~TCPOnly => i > 1 /\ Truncated(a[i - 1])
      BY <3>1 DEF Chained, n
    <3> QED
      BY <3>1, <3>2
  <2> QED
    BY <1>1, <2>1, <2>2, <2>3
<1>10. Spent(b)
  <2> DEFINE f == Cardinality(Failures(a))
             g == Cardinality(Failures(b))
  <2>1. f \in Nat /\ g = f + (IF Failed(e) THEN 1 ELSE 0)
    BY FailuresOfAppend
  <2>2. n <= 2 * f + (IF n = 0 \/ Failed(a[n]) THEN 0 ELSE IF Truncated(a[n]) THEN 1 ELSE 2)
    BY <1>3, <1>4 DEF Spent
  <2>3. Spent(b) <=> n + 1 <= 2 * g + (IF Failed(e) THEN 0 ELSE IF Truncated(e) THEN 1 ELSE 2)
    BY <1>1, <1>4 DEF Spent
  <2> HIDE DEF b, n, f, g
  <2>4. n <= 2 * f + 1
    BY <1>1, <1>7, <2>1, <2>2
  <2>5. CASE Failed(e)
    BY <1>1, <2>1, <2>3, <2>4, <2>5
  <2>6. CASE Truncated(e)
    <3>1. n = 0 \/ Failed(a[n])
      BY <1>7, <2>6 DEF Truncated
    <3> QED
      BY <1>1, <1>6, <2>1, <2>2, <2>3, <2>6, <3>1
  <2>7. CASE e.result = "ok"
    BY <1>1, <1>6, <2>1, <2>3, <2>4, <2>7
  <2> QED
    BY <1>5, <2>5, <2>6, <2>7
<1> QED
  BY <1>1, <1>4, <1>9, <1>10

(* Before the first exchange. *)
LEMMA NoTries == <<>> \in Seq(Try) /\ Chained(<<>>) /\ Spent(<<>>) /\ Cardinality(Failures(<<>>)) = 0
<1>1. Failures(<<>>) = {}
  BY DEF Failures
<1>2. Cardinality({}) = 0
  BY FS_EmptySet
<1>3. Cardinality(Failures(<<>>)) = 0
  BY <1>1, <1>2
<1>4. Spent(<<>>)
  BY <1>3 DEF Spent
<1>5. <<>> \in Seq(Try) /\ Chained(<<>>)
  BY DEF Chained
<1> QED
  BY <1>3, <1>4, <1>5

WInv == IInv /\ \A h \in Handler : Work(h)

(* The parts of the invariant. *)
LEMMA WorkParts ==
    ASSUME WInv, NEW h \in Handler
    PROVE  /\ IInv /\ Shape /\ HandlerInv(h)
           /\ Tried(proc[h], asked[h]) /\ Answered(proc[h], asked[h], out[h])
  BY DEF WInv, IInv, Work

(* Again it is enough to look at the handler that takes the step. *)
LEMMA OneWorks ==
    ASSUME WInv, IInv', NEW h \in Handler, Keeps(h), Tried(proc[h], asked[h])', Answered(proc[h], asked[h], out[h])'
    PROVE  WInv'
<1>1. ASSUME NEW g \in Handler, g # h
      PROVE  Work(g)'
  <2>1. Work(g) /\ proc'[g] = proc[g] /\ asked'[g] = asked[g] /\ out'[g] = out[g]
    BY <1>1 DEF WInv, Keeps
  <2> QED
    BY <2>1, Zenon DEF Work
<1>2. Work(h)'
  BY DEF Work
<1> QED
  BY <1>1, <1>2 DEF WInv

(* handlerFunc up to its first wait. *)
LEMMA HandlerFuncWork ==
    ASSUME WInv, NEW h \in Handler, handlerFunc(h)
    PROVE  WInv'
<1>1. IInv'
  BY WorkParts, HandlerFuncInv, OneHandler
<1>2. PICK r \in Request, id \in FreshId :
          LET req == Parsed(r, id)
          IN  \/ req.errcode = 0 /\ Accept(h, r, req)
              \/ req.errcode = 444 /\ Refuse(h, r, req, ProbeResponse(r))
              \/ req.errcode \notin {0, 444} /\ Refuse(h, r, req, FormatError(req.errcode))
  BY DEF handlerFunc
<1> DEFINE req == Parsed(r, id)
<1>3. asked' = asked /\ tracked' = tracked /\ Shape /\ asked[h] = <<>> /\ out[h] = <<>>
  <2>1. asked' = asked /\ tracked' = tracked /\ proc[h].pc = "idle"
    BY DEF handlerFunc
  <2>2. Shape /\ HandlerInv(h)
    BY WorkParts
  <2> QED
    BY <2>1, <2>2 DEF HandlerInv, Reached
<1> HIDE DEF req
<1>4. 0 \in 0..Tries - 1
  BY ServerAssumption
<1>5. CASE req.errcode = 0 /\ Accept(h, r, req)
  <2>1. /\ Keeps(h) /\ proc'[h].pc \in {"save", "query"} /\ proc'[h].tries = 0
    BY <1>3, <1>5 DEF Accept, Idle, Shape, Keeps, Fields
  <2>2. Tried(proc[h], asked[h])'
    BY <1>3, <1>4, <2>1, NoTries DEF Tried
  <2>3. Answered(proc[h], asked[h], out[h])'
    BY <2>1 DEF Answered
  <2> QED
    BY <1>1, <2>1, <2>2, <2>3, OneWorks
<1>6. ASSUME NEW response, Refuse(h, r, req, response),
             \/ req.errcode = 444 /\ response = ProbeResponse(r)
             \/ req.errcode \notin {0, 444} /\ response = FormatError(req.errcode)
      PROVE  WInv'
  <2>1. /\ Keeps(h) /\ proc'[h].pc = "done" /\ proc'[h].tries = 0 /\ proc'[h].r = r /\ proc'[h].req = req
        /\ out'[h] = Append(<<>>, response)
    BY <1>3, <1>6 DEF Refuse, Write, Idle, Shape, Keeps, Fields
  <2>2. Tried(proc[h], asked[h])'
    BY <1>3, <1>4, <2>1, NoTries DEF Tried
  <2>3. Answered(proc[h], asked[h], out[h])'
    BY <1>6, <2>1, AppendToEmpty DEF Answered
  <2> QED
    BY <1>1, <2>1, <2>2, <2>3, OneWorks
<1> QED
  BY <1>2, <1>5, <1>6 DEF req

(* The hand-over to the tracker. *)
LEMMA SaveDomainWork ==
    ASSUME WInv, NEW h \in Handler, SaveDomain(h)
    PROVE  WInv'
<1>1. IInv' /\ Shape /\ Tried(proc[h], asked[h]) /\ proc[h].pc = "save"
  <2>1. IInv /\ Shape /\ HandlerInv(h) /\ Tried(proc[h], asked[h])
    BY WorkParts
  <2>2. IInv'
    BY <2>1, SaveDomainInv, OneHandler
  <2> QED
    BY <2>1, <2>2 DEF SaveDomain
<1>2. /\ Keeps(h) /\ asked' = asked
      /\ proc'[h].pc = "query" /\ proc'[h].tries = proc[h].tries /\ proc'[h].req = proc[h].req
  BY <1>1 DEF SaveDomain, Shape, Keeps, Fields
<1>3. Tried(proc[h], asked[h])'
  BY <1>1, <1>2 DEF Tried
<1>4. Answered(proc[h], asked[h], out[h])'
  BY <1>2 DEF Answered
<1> QED
  BY <1>1, <1>2, <1>3, <1>4, OneWorks

(* The exchanges a handler may make where it is. *)
MayAsk(p, net, u) ==
    /\ u \in Upstream
    /\ \/ p.pc = "query" /\ net = IF TCPOnly THEN "tcp" ELSE "udp"
       \/ p.pc = "tcp" /\ net = "tcp" /\ u = p.upstream

Entry(net, u, result) == [net |-> net, upstream |-> u, result |-> result]

(* What such an exchange adds to the history. *)
LEMMA ExchangeWork ==
    ASSUME Shape, NEW h \in Handler, Tried(proc[h], asked[h]), QueryPacks(proc[h].req),
           NEW net, NEW u, MayAsk(proc[h], net, u), NEW result \in {"ok", "error", "truncated"},
           Exchange(h, net, u, result)
    PROVE  LET a == asked'[h]
               e == Entry(net, u, result)
           IN  /\ a \in Seq(Try) /\ a # <<>> /\ Last(a) = e /\ Chained(a) /\ Spent(a)
               /\ Cardinality(Failures(a)) = proc[h].tries + (IF Failed(e) THEN 1 ELSE 0)
<1> DEFINE e == Entry(net, u, result)
<1>1. e \in Try
  BY DEF Try, MayAsk, Entry
<1>2. asked'[h] = Append(asked[h], e)
  BY DEF Exchange, Shape, Entry
<1>3. e.net = net /\ e.upstream = u /\ e.result = result
  BY DEF Entry
<1> HIDE DEF e
<1>4. Follows(asked[h], e)
  BY <1>3 DEF Follows, Tried, MayAsk
<1>5. asked[h] \in Seq(Try) /\ Chained(asked[h]) /\ Spent(asked[h])
  BY DEF Tried
<1>6. Cardinality(Failures(asked[h])) = proc[h].tries
  BY DEF Tried, MayAsk
<1>7. Cardinality(Failures(asked'[h])) = Cardinality(Failures(asked[h])) + (IF Failed(e) THEN 1 ELSE 0)
  BY <1>1, <1>2, <1>5, FailuresOfAppend
<1>8. LET a == asked'[h]
      IN  a \in Seq(Try) /\ a # <<>> /\ Last(a) = e /\ Chained(a) /\ Spent(a)
  BY <1>1, <1>2, <1>4, <1>5, AppendTry
<1> QED
  BY <1>6, <1>7, <1>8 DEF e

(* A try that fails, with another to come or as the last. *)
LEMMA FailsWork ==
    ASSUME WInv, IInv', NEW h \in Handler, UNCHANGED tracked,
           NEW net, NEW u, MayAsk(proc[h], net, u), NEW result \in {"error", "truncated"},
           result = "truncated" => net = "tcp", Fails(h, net, u, result)
    PROVE  WInv'
<1> DEFINE e == Entry(net, u, result)
           p == proc[h]
<1>1. Shape /\ Tried(p, asked[h]) /\ out[h] = <<>> /\ p.req.errcode = 0 /\ Exchange(h, net, u, result)
  <2>1. HandlerInv(h) /\ Shape /\ Tried(p, asked[h]) /\ Exchange(h, net, u, result)
    BY WorkParts DEF Fails
  <2>2. p.pc \in {"query", "tcp"}
    BY DEF MayAsk
  <2> QED
    BY <2>1, <2>2 DEF HandlerInv, Reached, Busy
<1>2. p.tries \in 0..Tries - 1 /\ Tries \in Nat /\ p.pc \in {"query", "tcp"}
  BY <1>1, ServerAssumption DEF Tried, MayAsk
<1>3. DOMAIN asked' = Handler /\ \A g \in Handler \ {h} : asked'[g] = asked[g]
  BY <1>1, ExchangeKeeps
<1>4. \/ /\ ~QueryPacks(p.req) /\ asked'[h] = <<>>
      \/ /\ QueryPacks(p.req) /\ asked'[h] # <<>> /\ Failed(Last(asked'[h])) /\ Last(asked'[h]).result # "ok"
         /\ Cardinality(Failures(asked'[h])) = p.tries + 1
  <2>1. CASE ~QueryPacks(p.req)
    BY <1>1, <2>1 DEF Exchange, Tried
  <2>2. CASE QueryPacks(p.req)
    <3>1. Failed(e) /\ e.result # "ok"
      BY DEF Failed, Entry
    <3>2. result \in {"ok", "error", "truncated"}
      OBVIOUS
    <3>3. /\ asked'[h] # <<>> /\ Last(asked'[h]) = e
          /\ Cardinality(Failures(asked'[h])) = p.tries + (IF Failed(e) THEN 1 ELSE 0)
      BY <1>1, <2>2, <3>2, ExchangeWork
    <3> HIDE DEF e
    <3> QED
      BY <2>2, <3>1, <3>3
  <2> QED
    BY <2>1, <2>2
<1>5. asked'[h] \in Seq(Try) /\ Chained(asked'[h]) /\ Spent(asked'[h])
  <2>1. CASE ~QueryPacks(p.req)
    BY <1>4, <2>1, NoTries, Zenon
  <2>2. CASE QueryPacks(p.req)
    <3>1. result \in {"ok", "error", "truncated"}
      OBVIOUS
    <3> QED
      BY <1>1, <2>2, <3>1, ExchangeWork, Zenon
  <2> QED
    BY <2>1, <2>2
<1>6. CASE /\ p.tries + 1 < Tries
           /\ proc' = [proc EXCEPT ![h].pc = "query", ![h].tries = @ + 1]
           /\ UNCHANGED out
  <2>1. /\ Keeps(h) /\ proc'[h].pc = "query" /\ proc'[h].req = p.req /\ proc'[h].tries = p.tries + 1
    BY <1>1, <1>3, <1>6 DEF Shape, Keeps, Fields
  <2>2. p.tries + 1 \in 0..Tries - 1
    BY <1>2, <1>6
  <2> HIDE DEF p
  <2>3. Tried(proc[h], asked[h])'
    BY <1>4, <1>5, <2>1, <2>2 DEF Tried
  <2>4. Answered(proc[h], asked[h], out[h])'
    BY <2>1 DEF Answered
  <2> QED
    BY <2>1, <2>3, <2>4, OneWorks
<1>7. CASE /\ ~(p.tries + 1 < Tries)
           /\ proc' = [proc EXCEPT ![h].pc = "done"]
           /\ Write(h, FormatError(503))
  <2>1. /\ Keeps(h) /\ proc'[h].pc = "done" /\ proc'[h].req = p.req /\ proc'[h].tries = p.tries
        /\ proc'[h].r = p.r /\ out'[h] = Append(<<>>, FormatError(503))
    BY <1>1, <1>3, <1>7 DEF Shape, Keeps, Fields, Write
  <2>2. p.tries + 1 = Tries
    BY <1>2, <1>7
  <2> HIDE DEF p
  <2>3. Tried(proc[h], asked[h])'
    BY <1>2, <1>4, <1>5, <2>1, <2>2 DEF Tried
  <2>4. Answered(proc[h], asked[h], out[h])'
    BY <1>1, <1>4, <2>1, AppendToEmpty DEF Answered
  <2> QED
    BY <2>1, <2>3, <2>4, OneWorks
<1> QED
  BY <1>6, <1>7 DEF Fails

(* A try that is answered. *)
LEMMA SucceedsWork ==
    ASSUME WInv, IInv', NEW h \in Handler, UNCHANGED tracked, QueryPacks(proc[h].req),
           NEW net, NEW u, MayAsk(proc[h], net, u), NEW m, Succeeds(h, net, u, m)
    PROVE  WInv'
<1> DEFINE e == Entry(net, u, "ok")
<1>1. Shape /\ Tried(proc[h], asked[h]) /\ Exchange(h, net, u, "ok")
  BY WorkParts DEF Succeeds
<1>2. e.result = "ok" /\ ~Failed(e)
  BY DEF Entry, Failed
<1>3. LET a == asked'[h]
      IN  /\ a \in Seq(Try) /\ a # <<>> /\ Last(a) = e /\ Chained(a) /\ Spent(a)
          /\ Cardinality(Failures(a)) = proc[h].tries + (IF Failed(e) THEN 1 ELSE 0)
  BY <1>1, ExchangeWork
<1> HIDE DEF e
<1>4. proc[h].tries \in 0..Tries - 1 /\ proc[h].tries + 0 = proc[h].tries
  <2>1. proc[h].tries \in 0..Tries - 1
    BY <1>1 DEF Tried
  <2>2. Tries \in Nat
    BY ServerAssumption
  <2> QED
    BY <2>1, <2>2
<1>5. DOMAIN asked' = Handler /\ \A g \in Handler \ {h} : asked'[g] = asked[g]
  BY <1>1, ExchangeKeeps
<1>6. /\ Keeps(h) /\ proc'[h].pc = "lookup" /\ proc'[h].req = proc[h].req /\ proc'[h].tries = proc[h].tries
  BY <1>1, <1>5 DEF Succeeds, Shape, Keeps, Fields
<1>7. Tried(proc[h], asked[h])'
  BY <1>2, <1>3, <1>4, <1>6 DEF Tried
<1>8. Answered(proc[h], asked[h], out[h])'
  BY <1>6 DEF Answered
<1> QED
  BY <1>6, <1>7, <1>8, OneWorks

(* A try over UDP whose answer is truncated. *)
LEMMA TruncatedWork ==
    ASSUME WInv, IInv', NEW h \in Handler, UNCHANGED <<tracked, out>>, QueryPacks(proc[h].req),
           ~TCPOnly, NEW u \in Upstream, proc[h].pc = "query", Exchange(h, "udp", u, "truncated"),
           proc' = [proc EXCEPT ![h].pc = "tcp", ![h].upstream = u]
    PROVE  WInv'
<1> DEFINE e == Entry("udp", u, "truncated")
<1>1. Shape /\ Tried(proc[h], asked[h]) /\ MayAsk(proc[h], "udp", u)
  BY WorkParts DEF MayAsk
<1>2. e.result # "ok" /\ ~Failed(e) /\ Truncated(e) /\ e.upstream = u
  BY DEF Entry, Failed, Truncated
<1>3. LET a == asked'[h]
      IN  /\ a \in Seq(Try) /\ a # <<>> /\ Last(a) = e /\ Chained(a) /\ Spent(a)
          /\ Cardinality(Failures(a)) = proc[h].tries + (IF Failed(e) THEN 1 ELSE 0)
  BY <1>1, ExchangeWork
<1> HIDE DEF e
<1>4. proc[h].tries \in 0..Tries - 1 /\ proc[h].tries + 0 = proc[h].tries
  <2>1. proc[h].tries \in 0..Tries - 1
    BY <1>1 DEF Tried
  <2>2. Tries \in Nat
    BY ServerAssumption
  <2> QED
    BY <2>1, <2>2
<1>5. DOMAIN asked' = Handler /\ \A g \in Handler \ {h} : asked'[g] = asked[g]
  BY <1>1, ExchangeKeeps
<1>6. /\ Keeps(h) /\ proc'[h].pc = "tcp" /\ proc'[h].req = proc[h].req /\ proc'[h].tries = proc[h].tries
      /\ proc'[h].upstream = u
  BY <1>1, <1>5 DEF Shape, Keeps, Fields
<1>7. Tried(proc[h], asked[h])'
  BY <1>2, <1>3, <1>4, <1>6 DEF Tried
<1>8. Answered(proc[h], asked[h], out[h])'
  BY <1>6 DEF Answered
<1> QED
  BY <1>6, <1>7, <1>8, OneWorks, Zenon

(* doDNSQuery. *)
LEMMA DoDNSQueryWork ==
    ASSUME WInv, NEW h \in Handler, doDNSQuery(h)
    PROVE  WInv'
<1>1. IInv' /\ UNCHANGED tracked /\ Tried(proc[h], asked[h])
  <2>1. IInv /\ Shape /\ HandlerInv(h) /\ Tried(proc[h], asked[h])
    BY WorkParts
  <2>2. IInv'
    BY <2>1, DoDNSQueryInv, OneHandler
  <2> QED
    BY <2>1, <2>2 DEF doDNSQuery, UDPExchange, TCPExchange
<1>2. CASE UDPExchange(h)
  <2>1. PICK u \in Upstream :
          \/ Fails(h, "udp", u, "error")
          \/ /\ QueryPacks(proc[h].req)
             /\ \E m \in Reply :
                   \/ Succeeds(h, "udp", u, m)
                   \/ /\ Exchange(h, "udp", u, "truncated")
                      /\ proc' = [proc EXCEPT ![h].pc = "tcp", ![h].upstream = u]
                      /\ UNCHANGED out
    BY <1>2, Zenon DEF UDPExchange
  <2>2. proc[h].pc = "query" /\ ~TCPOnly /\ MayAsk(proc[h], "udp", u)
    BY <1>2 DEF UDPExchange, MayAsk
  <2>3. CASE Fails(h, "udp", u, "error")
    <3>1. "error" \in {"error", "truncated"} /\ "error" # "truncated"
      OBVIOUS
    <3> QED
      BY <1>1, <2>2, <2>3, <3>1, FailsWork, Zenon
  <2>4. ASSUME QueryPacks(proc[h].req), NEW m, Succeeds(h, "udp", u, m)
        PROVE  WInv'
    BY <1>1, <2>2, <2>4, SucceedsWork
  <2>5. CASE /\ QueryPacks(proc[h].req)
             /\ Exchange(h, "udp", u, "truncated")
             /\ proc' = [proc EXCEPT ![h].pc = "tcp", ![h].upstream = u]
             /\ UNCHANGED out
    <3>1. UNCHANGED <<tracked, out>>
      BY <1>1, <2>5
    <3> QED
      BY <1>1, <2>2, <2>5, <3>1, TruncatedWork, Zenon
  <2> QED
    BY <2>1, <2>3, <2>4, <2>5
<1>3. CASE TCPExchange(h)
  <2>1. PICK u \in IF TCPOnly THEN Upstream ELSE {proc[h].upstream} :
          \/ Fails(h, "tcp", u, "error")
          \/ /\ QueryPacks(proc[h].req)
             /\ \E m \in Reply : Succeeds(h, "tcp", u, m) \/ Fails(h, "tcp", u, "truncated")
    BY <1>3, Zenon DEF TCPExchange
  <2>2. proc[h].pc = "tcp" \/ (proc[h].pc = "query" /\ TCPOnly)
    BY <1>3 DEF TCPExchange
  <2>3. MayAsk(proc[h], "tcp", u)
    <3>1. CASE proc[h].pc = "tcp"
      <4>1. /\ ~TCPOnly /\ asked[h] # <<>> /\ asked[h] \in Seq(Try)
            /\ Last(asked[h]).upstream = proc[h].upstream
        BY <1>1, <3>1 DEF Tried
      <4>2. Last(asked[h]) \in Try
        BY <4>1 DEF Last
      <4>3. u = proc[h].upstream /\ u \in Upstream
        BY <2>1, <4>1, <4>2 DEF Try
      <4> QED
        BY <3>1, <4>3 DEF MayAsk
    <3>2. CASE proc[h].pc = "query" /\ TCPOnly
      BY <2>1, <3>2 DEF MayAsk
    <3> QED
      BY <2>2, <3>1, <3>2
  <2>4. ASSUME NEW result \in {"error", "truncated"}, Fails(h, "tcp", u, result)
        PROVE  WInv'
    BY <1>1, <2>3, <2>4, FailsWork
  <2>5. ASSUME QueryPacks(proc[h].req), NEW m, Succeeds(h, "tcp", u, m)
        PROVE  WInv'
    BY <1>1, <2>3, <2>5, SucceedsWork
  <2> QED
    BY <2>1, <2>4, <2>5
<1> QED
  BY <1>2, <1>3 DEF doDNSQuery

(* The response. *)
LEMMA RespondWork ==
    ASSUME WInv, NEW h \in Handler, Respond(h)
    PROVE  WInv'
<1> DEFINE response == GenerateResponse(proc[h].r, proc[h].req, postLookup(proc[h].response, proc[h].req.ads))
<1>1. /\ Shape /\ Tried(proc[h], asked[h]) /\ proc[h].pc = "lookup" /\ out[h] = <<>>
      /\ proc[h].req.errcode = 0
  <2>1. Shape /\ Tried(proc[h], asked[h]) /\ HandlerInv(h) /\ proc[h].pc = "lookup"
    BY WorkParts DEF Respond
  <2> QED
    BY <2>1 DEF HandlerInv, Reached, Busy
<1>2. Write(h, response) /\ proc' = [proc EXCEPT ![h].pc = "done"] /\ UNCHANGED <<asked, tracked>>
  BY DEF Respond
<1>3. IInv'
  BY WorkParts, RespondInv, OneHandler
<1> HIDE DEF response
<1>4. /\ Keeps(h) /\ proc'[h].pc = "done" /\ proc'[h].r = proc[h].r /\ proc'[h].req = proc[h].req
      /\ proc'[h].tries = proc[h].tries /\ proc'[h].response = proc[h].response
      /\ out'[h] = Append(<<>>, response)
  BY <1>1, <1>2 DEF Write, Shape, Keeps, Fields
<1>5. asked'[h] = asked[h] /\ asked[h] # <<>> /\ Last(asked[h]).result = "ok"
  BY <1>1, <1>2 DEF Tried
<1>6. Tried(proc[h], asked[h])'
  BY <1>1, <1>4, <1>5 DEF Tried
<1>7. out'[h] = <<response>>
  BY <1>4, AppendToEmpty
<1>8. Answered(proc[h], asked[h], out[h])'
  <2>1. response = GenerateResponse(proc'[h].r, proc'[h].req, postLookup(proc'[h].response, proc'[h].req.ads))
    BY <1>4 DEF response
  <2>2. /\ proc'[h].req.errcode = 0 /\ asked'[h] # <<>> /\ Last(asked'[h]).result = "ok"
        /\ out'[h] = <<GenerateResponse(proc'[h].r, proc'[h].req, postLookup(proc'[h].response, proc'[h].req.ads))>>
    BY <1>1, <1>4, <1>5, <1>7, <2>1
  <2> QED
    BY <2>2, Zenon DEF Answered
<1> QED
  BY <1>3, <1>4, <1>6, <1>8, OneWorks

(* The handler is free for another request. *)
LEMMA ReturnWork ==
    ASSUME WInv, NEW h \in Handler, Return(h)
    PROVE  WInv'
<1>1. IInv' /\ Shape
  BY WorkParts, ReturnInv, OneHandler
<1>2. Keeps(h) /\ proc'[h].pc = "idle" /\ proc'[h].tries = 0 /\ asked'[h] = <<>>
  BY <1>1 DEF Return, Idle, Shape, Keeps, Fields
<1>3. 0 \in 0..Tries - 1
  BY ServerAssumption
<1>4. Tried(proc[h], asked[h])'
  BY <1>2, <1>3, NoTries DEF Tried
<1>5. Answered(proc[h], asked[h], out[h])'
  BY <1>2 DEF Answered
<1> QED
  BY <1>1, <1>2, <1>4, <1>5, OneWorks

(* Handlers without a request have made no try. *)
LEMMA InitWork == Init => WInv
<1> SUFFICES ASSUME Init PROVE WInv
  OBVIOUS
<1>1. IInv
  BY InitInv
<1>2. ASSUME NEW h \in Handler PROVE Work(h)
  <2>1. proc[h].pc = "idle" /\ proc[h].tries = 0 /\ asked[h] = <<>>
    BY DEF Init, Idle
  <2>2. 0 \in 0..Tries - 1
    BY ServerAssumption
  <2>3. Tried(proc[h], asked[h])
    BY <2>1, <2>2, NoTries DEF Tried
  <2>4. Answered(proc[h], asked[h], out[h])
    BY <2>1 DEF Answered
  <2> QED
    BY <2>3, <2>4 DEF Work
<1> QED
  BY <1>1, <1>2 DEF WInv

(* Every step keeps the history and the response in line. *)
LEMMA StepWork == WInv /\ [Next]_vars => WInv'
<1> SUFFICES ASSUME WInv, [Next]_vars
             PROVE  WInv'
  OBVIOUS
<1>1. ASSUME NEW h \in Handler, handlerFunc(h) \/ SaveDomain(h) \/ doDNSQuery(h) \/ Respond(h) \/ Return(h)
      PROVE  WInv'
  BY <1>1, HandlerFuncWork, SaveDomainWork, DoDNSQueryWork, RespondWork, ReturnWork
<1>2. CASE UNCHANGED vars
  <2>1. proc' = proc /\ asked' = asked /\ out' = out
    BY <1>2 DEF vars
  <2>2. IInv'
    BY <1>2, StepInv DEF WInv
  <2>3. ASSUME NEW h \in Handler PROVE Work(h)'
    <3>1. Work(h)
      BY DEF WInv
    <3> QED
      BY <2>1, <3>1, Zenon DEF Work
  <2> QED
    BY <2>2, <2>3 DEF WInv
<1> QED
  BY <1>1, <1>2 DEF Next

(* The history of exchanges and the response belong to where the handler is. *)
THEOREM WorkInductive == Spec => []WInv
  BY InitWork, StepWork, PTL DEF Spec

(* doDNSQuery: the tries are used up before an error is returned, and none follows an answer. *)
THEOREM EveryTryIsMade == Spec => []EveryTryIsUsed
<1>1. WInv => EveryTryIsUsed
  <2> SUFFICES ASSUME WInv, NEW h \in Handler
               PROVE  LET a == asked[h]
                          failed == {i \in DOMAIN a : a[i].result = "error" \/ (a[i].net = "tcp" /\ a[i].result = "truncated")}
                      IN  /\ \A i \in DOMAIN a :
                                /\ a[i].result = "ok" => i = Len(a)
                                /\ a[i].net = "udp" /\ a[i].result = "truncated"
                                     => IF i = Len(a) THEN proc[h].pc = "tcp"
                                        ELSE a[i + 1].net = "tcp" /\ a[i + 1].upstream = a[i].upstream
                                /\ a[i].net = "tcp" /\ ~TCPOnly
                                     => i > 1 /\ a[i - 1].net = "udp" /\ a[i - 1].result = "truncated"
                          /\ Done(h) /\ a # <<>> => (Resolved(h) \/ Cardinality(failed) = Tries)
                          /\ Cardinality(failed) <= Tries
    BY Zenon DEF EveryTryIsUsed
  <2> DEFINE a == asked[h]
             p == proc[h]
             failed == {i \in DOMAIN a : a[i].result = "error" \/ (a[i].net = "tcp" /\ a[i].result = "truncated")}
  <2>1. Tried(p, a) /\ p.pc \in Busy \cup {"idle", "done"}
    <3>1. Tried(p, a) /\ HandlerInv(h)
      BY WorkParts
    <3> QED
      BY <3>1 DEF HandlerInv, Reached
  <2>2. failed = Failures(a)
    BY DEF Failures, Failed
  <2>3. Tries \in Nat /\ p.tries \in 0..Tries - 1 /\ a \in Seq(Try) /\ Chained(a)
    BY <2>1, ServerAssumption DEF Tried
  <2> HIDE DEF failed
  <2>4. ASSUME NEW i \in DOMAIN a
        PROVE  /\ a[i].result = "ok" => i = Len(a)
               /\ a[i].net = "udp" /\ a[i].result = "truncated"
                    => IF i = Len(a) THEN p.pc = "tcp"
                       ELSE a[i + 1].net = "tcp" /\ a[i + 1].upstream = a[i].upstream
               /\ a[i].net = "tcp" /\ ~TCPOnly
                    => i > 1 /\ a[i - 1].net = "udp" /\ a[i - 1].result = "truncated"
    <3>1. /\ a[i].result = "ok" => i = Len(a)
          /\ Truncated(a[i]) /\ i # Len(a) => a[i + 1].net = "tcp" /\ a[i + 1].upstream = a[i].upstream
          /\ a[i].net = "tcp" /\ ~TCPOnly => i > 1 /\ Truncated(a[i - 1])
      BY <2>3 DEF Chained
    <3>2. i = Len(a) => Last(a) = a[i] /\ a # <<>>
      BY <2>3 DEF Last
    <3>3. a # <<>> /\ Truncated(Last(a)) => p.pc = "tcp"
      BY <2>1 DEF Tried, Busy, Truncated, Failed
    <3> HIDE DEF a, p
    <3> QED
      BY <3>1, <3>2, <3>3 DEF Truncated
  <2>5. Done(h) /\ a # <<>> => (Resolved(h) \/ Cardinality(failed) = Tries)
    BY <2>1, <2>2 DEF Tried, Done, Resolved
  <2>6. Cardinality(failed) <= Tries
    <3>1. CASE a = <<>>
      BY <2>2, <2>3, <3>1, NoTries
    <3>2. CASE a # <<>>
      <4>1. Cardinality(Failures(a)) \in {p.tries, Tries}
        BY <2>1, <3>2 DEF Tried
      <4> QED
        BY <2>2, <2>3, <4>1
    <3> QED
      BY <3>1, <3>2
  <2> QED
    BY <2>4, <2>5, <2>6 DEF failed
<1> QED
  BY <1>1, WorkInductive, PTL

(* What is logged is a name. *)
LEMMA QuestionIsName ==
    ASSUME NEW r \in Request, NEW id, Parsed(r, id).errcode = 0
    PROVE  Head(Parsed(r, id).questions) \in STRING
<1> DEFINE req == ParseRequest(r, id)
<1>1. /\ req.errcode = 0 /\ Len(req.questions) = 1 /\ Parsed(r, id).questions = req.questions
  BY Patched
<1>2. CASE contentType(r) = "dns-json"
  <2>1. req = parseRequestGoogle(r, id)
    BY <1>2, Parsers
  <2> HIDE DEF req
  <2>2. req.questions = <<r.name>>
    BY <1>1, <2>1, GoogleAccepts, Zenon
  <2>3. r.name \in STRING
    BY ServerAssumption
  <2> QED
    BY <1>1, <2>2, <2>3
<1>3. CASE contentType(r) \in Wire
  <2>1. req = parseRequestIETF(r, id)
    BY <1>3, Parsers
  <2> HIDE DEF req
  <2>2. req.questions = r.packet.questions
    BY <1>1, <2>1, IETFAccepts, Zenon
  <2>3. r.packet.questions \in Seq(STRING)
    BY ServerAssumption
  <2> QED
    BY <1>1, <2>2, <2>3
<1>4. CASE contentType(r) # "dns-json" /\ contentType(r) \notin Wire
  BY <1>1, <1>4, Parsers DEF Refused
<1> QED
  BY <1>2, <1>3, <1>4

(* Type correctness, with the bound on the exchanges for one request. *)
THEOREM TypeCorrect == Spec => []TypeOK
<1>1. WInv => TypeOK
  <2> SUFFICES ASSUME WInv PROVE TypeOK
    OBVIOUS
  <2>1. ASSUME NEW h \in Handler
        PROVE  /\ proc[h].pc \in {"idle", "save", "query", "tcp", "lookup", "done"}
               /\ proc[h].pc # "idle" => proc[h].r \in Request
               /\ proc[h].tries \in 0..Tries - 1
               /\ Len(asked[h]) <= 2 * Tries
    <3> DEFINE a == asked[h]
               p == proc[h]
               f == Cardinality(Failures(a))
    <3>1. HandlerInv(h) /\ Tried(p, a)
      BY WorkParts
    <3>2. p.pc \in Busy \cup {"idle", "done"} /\ (p.pc # "idle" => p.r \in Request)
      BY <3>1 DEF HandlerInv, Reached
    <3>3. p.tries \in 0..Tries - 1 /\ Tries \in Nat /\ a \in Seq(Try)
      BY <3>1, ServerAssumption DEF Tried
    <3>4. CASE a = <<>>
      BY <3>2, <3>3, <3>4 DEF Busy
    <3>5. CASE a # <<>>
      <4>1. Last(a) \in Try
        BY <3>3, <3>5 DEF Last
      <4>2. Failed(Last(a)) \/ Truncated(Last(a)) \/ Last(a).result = "ok"
        BY <4>1 DEF Try, Failed, Truncated
      <4>3. Len(a) <= 2 * f + (IF Failed(Last(a)) THEN 0 ELSE IF Truncated(Last(a)) THEN 1 ELSE 2)
        BY <3>1, <3>5 DEF Tried, Spent
      <4>4. f = p.tries \/ (f = Tries /\ Failed(Last(a)))
        BY <3>1, <3>5 DEF Tried
      <4>5. Len(a) \in Nat
        BY <3>3
      <4> HIDE DEF a, f, p
      <4>6. Len(a) <= 2 * Tries
        BY <3>3, <4>3, <4>4, <4>5
      <4> QED
        BY <3>2, <3>3, <4>6 DEF Busy, a, p
    <3> QED
      BY <3>4, <3>5
  <2>2. ASSUME NEW h \in Handler PROVE tracked[h] \in Seq(STRING)
    <3>1. HandlerInv(h)
      BY WorkParts
    <3>2. \/ tracked[h] = <<>>
          \/ /\ tracked[h] = <<Head(proc[h].req.questions)>>
             /\ proc[h].req.errcode = 0 /\ proc[h].pc # "idle"
      BY <3>1 DEF HandlerInv, Reached, Busy
    <3>3. proc[h].req.errcode = 0 /\ proc[h].pc # "idle" => Head(proc[h].req.questions) \in STRING
      BY <3>1, QuestionIsName DEF HandlerInv, Reached
    <3>4. \A S : \A x \in S : <<x>> \in Seq(S)
      OBVIOUS
    <3>5. <<>> \in Seq(STRING)
      OBVIOUS
    <3> QED
      BY <3>2, <3>3, <3>4, <3>5, Zenon
  <2> QED
    BY <2>1, <2>2 DEF TypeOK
<1> QED
  BY <1>1, WorkInductive, PTL

(* The response given to r, an answer or not, is one that r can use. *)
Suits(given, r, resolved) ==
    /\ given.type # "json"
         => /\ given.type \in Wire
            /\ given.id = IF contentType(r) \in Wire THEN r.packet.id ELSE 0
    /\ resolved /\ given.status # 500
         => \A i \in DOMAIN r.accept :
               /\ Known(r.accept[i])
               /\ \A j \in 1..i - 1 : ~Known(r.accept[j])
               => (r.accept[i].type = "json") = (given.type = "json")

(* An error does. *)
LEMMA ErrorSuits ==
    ASSUME NEW errcode, NEW r
    PROVE  Suits(FormatError(errcode), r, FALSE)
<1>1. FormatError(errcode).type = "json"
  BY DEF FormatError, Response
<1> QED
  BY <1>1 DEF Suits

(* The answer to the probe of dnscrypt-proxy does. *)
LEMMA ProbeSuits ==
    ASSUME NEW r, contentType(r) \in Wire
    PROVE  Suits(ProbeResponse(r), r, FALSE)
<1>1. ProbeResponse(r).type = "dns-message" /\ ProbeResponse(r).id = r.packet.id
  BY DEF ProbeResponse, Response
<1>2. "dns-message" \in Wire
  BY DEF Wire
<1> QED
  BY <1>1, <1>2 DEF Suits

(* What is written for an answer does. *)
LEMMA AnswerSuits ==
    ASSUME NEW r \in Request, NEW id, NEW msg, NEW req, req = Parsed(r, id), req.errcode = 0,
           NEW resolved \in BOOLEAN
    PROVE  Suits(GenerateResponse(r, req, msg), r, resolved)
<1> DEFINE given == GenerateResponse(r, req, msg)
<1>1. /\ contentType(r) \in Wire \cup {"dns-json"}
      /\ req.transactionID = IF contentType(r) \in Wire THEN r.packet.id ELSE 0
  BY Transaction
<1>2. /\ responseType(r) \in {"json", "dns-message"}
      /\ \A i \in DOMAIN r.accept :
            Known(r.accept[i]) /\ (\A j \in 1..i - 1 : ~Known(r.accept[j]))
              => (r.accept[i].type = "json") = (responseType(r) = "json")
  BY <1>1, ResponseType
<1>3. \/ responseType(r) = "json" /\ given.type = "json"
      \/ responseType(r) = "dns-message" /\ given.type \in Wire /\ given.id = req.transactionID
      \/ given.type = "json" /\ given.status = 500
  BY <1>2, AnswerType
<1>4. "json" \notin Wire
  BY DEF Wire
<1> HIDE DEF given
<1>5. Suits(given, r, resolved)
  BY <1>1, <1>2, <1>3, <1>4 DEF Suits
<1> QED
  BY <1>5 DEF given

(* handlerFunc: one response, of a type the client has asked for, with the Id of its packet. *)
THEOREM ResponsesFitRequests == Spec => []ResponseFitsRequest
<1>1. WInv => ResponseFitsRequest
  <2> SUFFICES ASSUME WInv, NEW h \in Handler
               PROVE  /\ Len(out[h]) = IF Done(h) THEN 1 ELSE 0
                      /\ Done(h) => Suits(Given(h), proc[h].r, Resolved(h))
    BY DEF ResponseFitsRequest, Suits
  <2>1. HandlerInv(h) /\ Answered(proc[h], asked[h], out[h])
    BY WorkParts
  <2>2. Len(out[h]) = IF Done(h) THEN 1 ELSE 0
    <3>1. IF Done(h) THEN Len(out[h]) = 1 ELSE out[h] = <<>>
      BY <2>1 DEF HandlerInv, Reached, Done
    <3> QED
      BY <3>1
  <2>3. ASSUME Done(h) PROVE Suits(Given(h), proc[h].r, Resolved(h))
    <3> DEFINE r == proc[h].r
               req == proc[h].req
               msg == postLookup(proc[h].response, req.ads)
    <3>1. PICK id \in FreshId : r \in Request /\ req = Parsed(r, id)
      BY <2>1, <2>3 DEF HandlerInv, Reached, Done
    <3>2. req.errcode # 0 => ~Resolved(h)
      BY <2>1, <2>3 DEF HandlerInv, Reached, Done, Resolved
    <3>3. \/ req.errcode = 444 /\ out[h] = <<ProbeResponse(r)>>
          \/ req.errcode # 0 /\ out[h] = <<FormatError(req.errcode)>>
          \/ out[h] = <<FormatError(503)>> /\ ~Resolved(h)
          \/ req.errcode = 0 /\ out[h] = <<GenerateResponse(r, req, msg)>>
      BY <2>1, <2>3, Zenon DEF Answered, Done, Resolved
    <3>4. \A x : out[h] = <<x>> => Given(h) = x
      BY DEF Given
    <3>5. Resolved(h) \in BOOLEAN
      BY DEF Resolved
    <3> HIDE DEF r, req, msg
    <3>6. CASE req.errcode = 444 /\ out[h] = <<ProbeResponse(r)>>
      <4>1. contentType(r) \in Wire
        BY <3>1, <3>6, Transaction
      <4>2. Suits(ProbeResponse(r), r, FALSE)
        BY <4>1, ProbeSuits
      <4>3. Given(h) = ProbeResponse(r) /\ Resolved(h) = FALSE
        BY <3>2, <3>4, <3>5, <3>6
      <4> QED
        BY <4>2, <4>3, Zenon DEF r
    <3>7. ASSUME NEW errcode, out[h] = <<FormatError(errcode)>>, ~Resolved(h)
          PROVE  Suits(Given(h), proc[h].r, Resolved(h))
      <4>1. Suits(FormatError(errcode), proc[h].r, FALSE)
        BY ErrorSuits
      <4>2. Given(h) = FormatError(errcode) /\ Resolved(h) = FALSE
        BY <3>4, <3>5, <3>7
      <4> QED
        BY <4>1, <4>2, Zenon
    <3>8. CASE req.errcode = 0 /\ out[h] = <<GenerateResponse(r, req, msg)>>
      <4>1. Suits(GenerateResponse(r, req, msg), r, Resolved(h))
        BY <3>1, <3>5, <3>8, AnswerSuits
      <4>2. Given(h) = GenerateResponse(r, req, msg)
        BY <3>4, <3>8
      <4> QED
        BY <4>1, <4>2, Zenon DEF r
    <3> QED
      BY <3>2, <3>3, <3>6, <3>7, <3>8
  <2> QED
    BY <2>2, <2>3
<1> QED
  BY <1>1, WorkInductive, PTL
===============================================================================
