------------------------ MODULE StreamExchangeProofs ------------------------
(* What StreamExchange guarantees of every answer, for all messages, events   *)
(* and faults: the client of every adapter gets what ClientStream promises,   *)
(* the summary of the attempt tells what the client has, and the stream of a  *)
(* message that nothing disturbed delivers it.                                *)
EXTENDS StreamExchange, SequenceTheorems, WellFoundedInduction, TLAPS

Content == {"role", "text", "call", "args", "chunk", "block"}

\* A chunk of kind b may follow one of kind a.
Follows(a, b) ==
    \/ b \in Content /\ a \in Content \cup {"nothing"}
    \/ b = "finish" /\ a \in Content \cup {"nothing"} /\ adapter = "codex"
    \/ b = "usage" /\ a = "finish" /\ adapter = "codex"
    \/ b = "done" /\ a \in IF adapter = "codex" THEN {"finish", "usage"} ELSE Content \cup {"nothing"}
    \/ b = "error" /\ a \in Content

Before(a, p, i) == IF i = 1 THEN a ELSE p[i - 1].kind
Orderly(a, p) == \A i \in 1 .. Len(p) : Follows(Before(a, p, i), p[i].kind)

IsSeq(p) == p \in Seq({p[i] : i \in DOMAIN p})

\* Chunks p are fit to be written by a reader at stage r.
Fits(p, r) ==
    /\ IsSeq(p) /\ Orderly(LastKind, p)
    /\ \A i \in 1 .. Len(p) :
         /\ p[i].kind = "error" => r = "failing"
         /\ p[i].kind \in {"finish", "usage", "done"} => r = "reading"
         /\ i = Len(p) => p[i].kind \notin {"finish", "usage"}

InOrder == IsSeq(client) /\ Fits(pending, reader)

Typed ==
    /\ adapter \in Adapters
    /\ reader \in {"connecting", "reading", "failing", "ended"}
    /\ sink \in BOOLEAN
    /\ answer \in {"none", "error document"}
    /\ DOMAIN summary = DOMAIN NoSummary
    /\ summary.Started \in BOOLEAN /\ summary.Done \in BOOLEAN
    /\ summary.NormalizedErrorSent \in BOOLEAN /\ summary.PreStreamError \in BOOLEAN

Gone == summary.ErrorClass = "client_disconnected"

\* How far reader, client and answer have come together.
Stages ==
    /\ reader = "connecting" => pending = <<>> /\ client = <<>> /\ summary = NoSummary /\ ~sink
    /\ reader = "ended" => pending = <<>>
    /\ answer # "none" => reader = "ended" /\ client = <<>>
    /\ client # <<>> => sink /\ LastKind # "nothing"
    /\ pending = <<>> /\ reader = "reading" => LastKind \in Content \cup {"nothing"}
    /\ pending = <<>> /\ reader = "failing" =>
          LastKind \in Content \cup {"nothing", "error"} \/ (LastKind \in {"finish", "usage"} /\ Gone)
    /\ LastKind = "done" => reader = "ended"

\* The summary tells what the client has.
Told ==
    /\ reader \in {"connecting", "reading"} =>
          summary.ErrorClass = "" /\ summary.CompletionStatus = "completed"
    /\ reader = "failing" =>
          summary.CompletionStatus # "completed" /\ (adapter = "native" /\ summary.Done => Gone)
    /\ reader = "ended" =>
          (summary.CompletionStatus = "completed" <=>
             LastKind = "done" \/ (adapter = "native" /\ summary.Done /\ ~Gone))
    /\ summary.Started => client # <<>>
    /\ client # <<>> => summary.Started \/ LastKind = "done"
    /\ summary.NormalizedErrorSent <=> LastKind = "error"
    /\ summary.PreStreamError => client = <<>> /\ pending = <<>> /\ reader \in {"failing", "ended"}
    /\ sink /\ client = <<>> => Gone
    /\ reader = "ended" /\ ~summary.Done /\ ~Gone =>
          /\ client = <<>> => answer = "error document"
          /\ adapter = "codex" /\ client # <<>> => LastKind = "error"

StreamInv == Typed /\ InOrder /\ Stages /\ Told
-----------------------------------------------------------------------------
(* Facts about sequences whose elements are of no particular set. *)

LEMMA IsSeqIntro ==
    ASSUME NEW S, NEW p \in Seq(S)
    PROVE  IsSeq(p)
<1> DEFINE T == {p[i] : i \in DOMAIN p}
<1>1. Len(p) \in Nat /\ p \in [1 .. Len(p) -> S] /\ DOMAIN p = 1 .. Len(p)
    BY LenProperties
<1>2. p \in [1 .. Len(p) -> T]
    BY <1>1
<1>3. p \in Seq(T)
    BY <1>1, <1>2, SeqDef
<1>4. QED
    BY <1>3 DEF IsSeq

LEMMA PopEffect ==
    ASSUME NEW p, IsSeq(p), p # <<>>
    PROVE  /\ Len(p) \in Nat \ {0} /\ Head(p) = p[1]
           /\ IsSeq(Tail(p)) /\ Len(Tail(p)) = Len(p) - 1
           /\ \A i \in 1 .. Len(Tail(p)) : Tail(p)[i] = p[i + 1]
           /\ Tail(p) = <<>> => Len(p) = 1
<1> DEFINE T == {p[i] : i \in DOMAIN p}
<1>1. p \in Seq(T)
    BY DEF IsSeq
<1>2. Len(p) \in Nat \ {0}
    BY <1>1, EmptySeq
<1>3. /\ Tail(p) \in Seq(T) /\ Len(Tail(p)) = Len(p) - 1
      /\ \A i \in 1 .. Len(Tail(p)) : Tail(p)[i] = p[i + 1]
    BY <1>1, HeadTailProperties
<1>4. IsSeq(Tail(p))
    BY <1>3, IsSeqIntro
<1>5. Head(p) = p[1]
    BY <1>1
<1>6. Tail(p) = <<>> => Len(p) = 1
    <2>1. ASSUME Tail(p) = <<>> PROVE Len(p) - 1 = 0
        <3>1. Len(<<>>) = 0
            OBVIOUS
        <3>2. Len(Tail(p)) = 0
            BY <2>1, <3>1, Zenon
        <3>3. QED
            BY <1>3, <3>2
    <2>2. QED
        BY <1>2, <2>1
<1>7. QED
    BY <1>2, <1>3, <1>4, <1>5, <1>6

LEMMA PushEffect ==
    ASSUME NEW p, NEW c, IsSeq(p)
    PROVE  /\ IsSeq(Append(p, c)) /\ Append(p, c) # <<>>
           /\ Append(p, c)[Len(Append(p, c))] = c
           /\ Len(p) \in Nat /\ Len(Append(p, c)) = Len(p) + 1
           /\ \A i \in 1 .. Len(p) : Append(p, c)[i] = p[i]
<1> DEFINE T == {p[i] : i \in DOMAIN p} \cup {c}
<1>1. p \in Seq(T)
    BY SeqMonotonic DEF IsSeq
<1>2. /\ Append(p, c) \in Seq(T) /\ Append(p, c) # <<>>
      /\ Len(Append(p, c)) = Len(p) + 1
      /\ \A i \in 1 .. Len(p) : Append(p, c)[i] = p[i]
      /\ Append(p, c)[Len(p) + 1] = c
    BY <1>1, AppendProperties
<1>3. Len(p) \in Nat
    BY <1>1, LenProperties
<1>4. QED
    BY <1>2, <1>3, IsSeqIntro

LEMMA JoinEffect ==
    ASSUME NEW p, NEW q, IsSeq(p), IsSeq(q)
    PROVE  /\ IsSeq(p \o q) /\ Len(p) \in Nat /\ Len(q) \in Nat
           /\ Len(p \o q) = Len(p) + Len(q)
           /\ \A i \in 1 .. Len(p) + Len(q) :
                (p \o q)[i] = IF i <= Len(p) THEN p[i] ELSE q[i - Len(p)]
<1> DEFINE T == {p[i] : i \in DOMAIN p} \cup {q[i] : i \in DOMAIN q}
<1>1. p \in Seq(T) /\ q \in Seq(T)
    BY SeqMonotonic DEF IsSeq
<1>2. /\ p \o q \in Seq(T) /\ Len(p \o q) = Len(p) + Len(q)
      /\ \A i \in 1 .. Len(p) + Len(q) :
           (p \o q)[i] = IF i <= Len(p) THEN p[i] ELSE q[i - Len(p)]
    BY <1>1, ConcatProperties
<1>3. Len(p) \in Nat /\ Len(q) \in Nat
    BY <1>1, LenProperties
<1>4. QED
    BY <1>2, <1>3, IsSeqIntro
-----------------------------------------------------------------------------
(* Chunks that carry something of the answer, in any number. *)

ContentOnly(p) == IsSeq(p) /\ \A i \in 1 .. Len(p) : p[i].kind \in Content

LEMMA NoChunk == ContentOnly(<<>>)
<1>1. <<>> \in Seq({}) /\ Len(<<>>) = 0
    OBVIOUS
<1>2. IsSeq(<<>>)
    BY <1>1, IsSeqIntro
<1>3. QED
    BY <1>1, <1>2 DEF ContentOnly

LEMMA OneChunk ==
    ASSUME NEW c
    PROVE  /\ IsSeq(<<c>>) /\ Len(<<c>>) = 1 /\ <<c>>[1] = c /\ <<c>> # <<>>
           /\ c.kind \in Content => ContentOnly(<<c>>)
<1>1. <<c>> \in Seq({c}) /\ Len(<<c>>) = 1 /\ <<c>>[1] = c
    OBVIOUS
<1>2. IsSeq(<<c>>)
    BY <1>1, IsSeqIntro
<1>3. QED
    BY <1>1, <1>2 DEF ContentOnly

LEMMA ContentJoined ==
    ASSUME NEW p, NEW q, ContentOnly(p), ContentOnly(q)
    PROVE  ContentOnly(p \o q)
BY JoinEffect DEF ContentOnly

LEMMA ContentPushed ==
    ASSUME NEW p, NEW c, ContentOnly(p), c.kind \in Content
    PROVE  ContentOnly(Append(p, c))
BY PushEffect DEF ContentOnly

\* A reader that has not ended its answer may add content to it.
LEMMA ContentFits ==
    ASSUME NEW p, NEW r, ContentOnly(p), LastKind \in Content \cup {"nothing"}
    PROVE  Fits(p, r)
<1>1. Len(p) \in Nat
    BY LenProperties DEF ContentOnly, IsSeq
<1>2. ASSUME NEW i \in 1 .. Len(p) PROVE Follows(Before(LastKind, p, i), p[i].kind)
    BY <1>1 DEF ContentOnly, Before, Follows
<1>3. QED
    BY <1>2 DEF Fits, Orderly, ContentOnly, Content
-----------------------------------------------------------------------------
(* The events of Codex. *)

Same(f) == summary'[f] = summary[f]
SameMarks == /\ DOMAIN summary' = DOMAIN summary
             /\ Same("Started") /\ Same("NormalizedErrorSent") /\ Same("PreStreamError")

GoesOn == reader' = reader /\ SameMarks /\ Same("ErrorClass") /\ Same("CompletionStatus")
GivesUp == reader' = "failing" /\ SameMarks /\ Same("Done") /\ summary'.CompletionStatus # "completed"

\* The chunks of an event carry content, and the reader goes on or gives up.
Adds == ContentOnly(pending') /\ ((GoesOn /\ Same("Done")) \/ GivesUp)

LEMMA FailsEffect ==
    ASSUME Typed, NEW class, NEW status, status # "completed", Fails(class, status)
    PROVE  GivesUp
BY DEF Typed, NoSummary, Fails, GivesUp, SameMarks, Same

LEMMA ContinuesEffect ==
    ASSUME Continues
    PROVE  GoesOn /\ Same("Done")
BY DEF Continues, GoesOn, SameMarks, Same

LEMMA BecomesEffect ==
    ASSUME Typed, NEW s, NEW chunks, ContentOnly(chunks), Becomes(s, chunks)
    PROVE  Adds
<1>1. pending' = chunks
    BY DEF Becomes, Writes
<1>2. Continues \/ Fails("upstream_stream_too_large", "too_large")
    BY DEF Becomes, Keeps
<1>3. QED
    BY <1>1, <1>2, FailsEffect, ContinuesEffect DEF Adds

LEMMA RejectsEffect ==
    ASSUME Typed, NEW class, NEW chunks, ContentOnly(chunks), Rejects(class, chunks)
    PROVE  Adds
<1>1. pending' = chunks
    BY DEF Rejects, Writes
<1>2. Fails(class, "upstream_invalid")
    BY DEF Rejects
<1>3. QED
    BY <1>1, <1>2, FailsEffect DEF Adds

LEMMA RoleIsContent == ContentOnly(Role)
BY NoChunk, OneChunk DEF Role, Chunk, Content

LEMMA ArgumentsAreContent ==
    ASSUME NEW place, NEW text
    PROVE  ContentOnly(ArgumentsChunk(place, text))
BY NoChunk, OneChunk DEF ArgumentsChunk, Chunk, Content

LEMMA TextEvent ==
    ASSUME Typed, NEW e, TextDelta(e) \/ TextDone(e)
    PROVE  Adds
<1>1. ContentOnly(Role \o <<Chunk("text", 0, e.text)>>)
    BY OneChunk, RoleIsContent, ContentJoined DEF Chunk, Content
<1>2. QED
    BY <1>1, NoChunk, BecomesEffect DEF TextDelta, TextDone, Ignores

LEMMA CallEvent ==
    ASSUME Typed, NEW e, CallAdded(e) \/ CallDone(e) \/ ArgumentsDelta(e) \/ ArgumentsDone(e)
    PROVE  Adds
<1>1. ASSUME NEW place, NEW text PROVE ContentOnly(Append(Role, Chunk("call", place, text)))
    BY RoleIsContent, ContentPushed DEF Chunk, Content
<1>2. ASSUME NEW place, NEW text, NEW role, ContentOnly(role), Completes(place, text, role)
      PROVE  Adds
    <2>1. ASSUME NEW more PROVE ContentOnly(role \o ArgumentsChunk(place, more))
        BY <1>2, ArgumentsAreContent, ContentJoined
    <2>2. QED
        BY <1>2, <2>1, BecomesEffect DEF Completes
<1>3. CASE CallAdded(e)
    BY <1>1, <1>3, RoleIsContent, BecomesEffect, RejectsEffect DEF CallAdded
<1>4. CASE CallDone(e)
    BY <1>1, <1>2, <1>4, RoleIsContent, BecomesEffect, RejectsEffect DEF CallDone
<1>5. CASE ArgumentsDelta(e)
    <2>1. ASSUME NEW place, NEW text PROVE ContentOnly(Role \o ArgumentsChunk(place, text))
        BY RoleIsContent, ArgumentsAreContent, ContentJoined
    <2>2. QED
        BY <1>5, <2>1, NoChunk, BecomesEffect, RejectsEffect DEF ArgumentsDelta, Ignores
<1>6. CASE ArgumentsDone(e)
    BY <1>2, <1>6, NoChunk, RoleIsContent, BecomesEffect, RejectsEffect DEF ArgumentsDone, Ignores
<1>7. QED
    BY <1>3, <1>4, <1>5, <1>6

LEMMA ItemEvent ==
    ASSUME Typed, NEW e, ItemAdded(e) \/ ItemDone(e)
    PROVE  Adds
BY CallEvent, NoChunk, BecomesEffect, RejectsEffect DEF ItemAdded, ItemDone, Ignores

\* The end of the answer: what was kept back, then the finish, the usage and [DONE].
Ends == GoesOn /\ Same("Done") /\ Fits(pending', "reading")

LEMMA PastIndex ==
    ASSUME NEW a \in Nat, NEW b \in {2, 3}, NEW i \in 1 .. a + b, ~(i <= a)
    PROVE  i - a \in {1, 2, 3} /\ i - a <= b /\ (i = a + b => i - a = b)
OBVIOUS

LEMMA FinishFits ==
    ASSUME NEW p, ContentOnly(p), NEW usage, LastKind \in Content \cup {"nothing"}, adapter = "codex"
    PROVE  Fits(p \o FinishChunks(usage), "reading")
<1> DEFINE q == FinishChunks(usage)
<1>1. /\ IsSeq(q) /\ Len(q) \in {2, 3} /\ q[1].kind = "finish" /\ q[Len(q)].kind = "done"
      /\ Len(q) = 3 => q[2].kind = "usage"
    <2> DEFINE f == Chunk("finish", 0, <<>>)
               u == Chunk("usage", 0, <<>>)
               d == Chunk("done", 0, <<>>)
               m == IF IncludeUsage /\ usage THEN <<u>> ELSE <<>>
    <2>1. q = (<<f>> \o m) \o <<d>>
        BY DEF FinishChunks
    <2>2. f.kind = "finish" /\ u.kind = "usage" /\ d.kind = "done"
        BY DEF Chunk
    <2> HIDE DEF f, u, d
    <2>3. IsSeq(m) /\ Len(m) \in {0, 1} /\ (Len(m) = 1 => m[1] = u)
        BY OneChunk, NoChunk DEF ContentOnly
    <2> HIDE DEF m, q
    <2>4. /\ IsSeq(<<f>> \o m) /\ Len(<<f>> \o m) = 1 + Len(m)
          /\ (<<f>> \o m)[1] = f /\ (Len(m) = 1 => (<<f>> \o m)[2] = u)
        <3>1. IsSeq(<<f>>) /\ Len(<<f>>) = 1 /\ <<f>>[1] = f
            BY OneChunk
        <3>2. /\ IsSeq(<<f>> \o m) /\ Len(<<f>> \o m) = 1 + Len(m)
              /\ \A i \in 1 .. 1 + Len(m) :
                   (<<f>> \o m)[i] = IF i <= 1 THEN <<f>>[i] ELSE m[i - 1]
            BY <2>3, <3>1, JoinEffect
        <3>3. QED
            BY <2>3, <3>1, <3>2
    <2> DEFINE fm == <<f>> \o m
    <2> HIDE DEF fm
    <2>5. /\ IsSeq(fm \o <<d>>) /\ Len(fm \o <<d>>) = 2 + Len(m)
          /\ \A i \in 1 .. 2 + Len(m) :
               (fm \o <<d>>)[i] = IF i <= 1 + Len(m) THEN fm[i] ELSE <<d>>[i - (1 + Len(m))]
        <3>1. IsSeq(<<d>>) /\ Len(<<d>>) = 1
            BY OneChunk
        <3>2. IsSeq(fm) /\ Len(fm) = 1 + Len(m)
            BY <2>4 DEF fm
        <3>3. QED
            BY <2>3, <3>1, <3>2, JoinEffect
    <2>6. <<d>>[1] = d
        BY OneChunk
    <2>7. q = fm \o <<d>> /\ fm[1] = f /\ (Len(m) = 1 => fm[2] = u)
        BY <2>1, <2>4 DEF fm
    <2>8. q[1] = f /\ q[Len(q)] = d /\ (Len(m) = 1 => q[2] = u) /\ Len(q) = 2 + Len(m)
        BY <2>3, <2>5, <2>6, <2>7
    <2>9. IsSeq(q)
        BY <2>5, <2>7
    <2>10. Len(q) \in {2, 3} /\ (Len(q) = 3 => Len(m) = 1)
        <3>1. Len(m) = 0 \/ Len(m) = 1
            BY <2>3
        <3>2. Len(q) = 2 + Len(m)
            BY <2>8
        <3>3. CASE Len(m) = 0
            BY <3>2, <3>3
        <3>4. CASE Len(m) = 1
            BY <3>2, <3>4
        <3>5. QED
            BY <3>1, <3>3, <3>4
    <2>11. QED
        BY <2>2, <2>8, <2>9, <2>10
<1> HIDE DEF q
<1>2. /\ IsSeq(p \o q) /\ Len(p) \in Nat /\ Len(p \o q) = Len(p) + Len(q)
      /\ \A i \in 1 .. Len(p) + Len(q) :
           (p \o q)[i] = IF i <= Len(p) THEN p[i] ELSE q[i - Len(p)]
    BY <1>1, JoinEffect DEF ContentOnly
<1>3. \A i \in 1 .. Len(p) : (p \o q)[i].kind \in Content
    BY <1>1, <1>2 DEF ContentOnly
<1>4. ASSUME NEW i \in 1 .. Len(p \o q)
      PROVE  Follows(Before(LastKind, p \o q, i), (p \o q)[i].kind)
    <2>1. CASE i <= Len(p)
        <3>1. Before(LastKind, p \o q, i) \in Content \cup {"nothing"}
            BY <1>2, <1>3, <2>1 DEF Before
        <3>2. QED
            BY <1>2, <1>3, <2>1, <3>1 DEF Follows
    <2>2. CASE i = Len(p) + 1
        <3>1. Before(LastKind, p \o q, i) \in Content \cup {"nothing"}
            BY <1>2, <1>3, <2>2 DEF Before
        <3>2. (p \o q)[i].kind = "finish"
            BY <1>1, <1>2, <2>2
        <3>3. QED
            BY <3>1, <3>2 DEF Follows
    <2>3. CASE i = Len(p) + 2
        <3>1. Before(LastKind, p \o q, i) = "finish"
            BY <1>1, <1>2, <2>3 DEF Before
        <3>2. (p \o q)[i].kind \in {"usage", "done"}
            BY <1>1, <1>2, <2>3
        <3>3. QED
            BY <3>1, <3>2 DEF Follows
    <2>4. CASE i = Len(p) + 3
        <3>1. Before(LastKind, p \o q, i) = "usage"
            BY <1>1, <1>2, <2>4, SMTT(30) DEF Before
        <3>2. (p \o q)[i].kind = "done"
            BY <1>1, <1>2, <2>4, SMTT(30)
        <3>3. QED
            BY <3>1, <3>2 DEF Follows
    <2>5. Len(q) \in {2, 3} /\ i \in 1 .. Len(p) + Len(q)
        BY <1>1, <1>2
    <2>6. i <= Len(p) \/ i = Len(p) + 1 \/ i = Len(p) + 2 \/ i = Len(p) + 3
        BY <1>2, <2>5
    <2>7. QED
        BY <2>1, <2>2, <2>3, <2>4, <2>6
<1>5. ASSUME NEW i \in 1 .. Len(p \o q)
      PROVE  /\ (p \o q)[i].kind # "error"
             /\ i = Len(p \o q) => (p \o q)[i].kind = "done"
    <2>1. CASE i <= Len(p)
        BY <1>1, <1>2, <1>3, <2>1 DEF Content
    <2>2. CASE i > Len(p)
        <3> DEFINE n == i - Len(p)
        <3>1. /\ Len(q) \in {2, 3} /\ i \in 1 .. Len(p) + Len(q) /\ Len(p) \in Nat
              /\ ~(i <= Len(p))
            BY <1>1, <1>2, <2>2
        <3>2. n \in {1, 2, 3} /\ n <= Len(q) /\ (i = Len(p) + Len(q) => n = Len(q))
            BY <3>1, PastIndex
        <3>3. (p \o q)[i] = q[n]
            BY <1>2, <3>1
        <3> HIDE DEF n
        <3>4. q[n].kind # "error" /\ (n = Len(q) => q[n].kind = "done")
            BY <1>1, <3>1, <3>2
        <3>5. QED
            BY <1>2, <3>2, <3>3, <3>4
    <2>3. QED
        BY <1>2, <2>1, <2>2
<1>6. Fits(p \o q, "reading")
    BY <1>2, <1>4, <1>5 DEF Fits, Orderly
<1>7. QED
    BY <1>6 DEF q

LEMMA CompletionEvent ==
    ASSUME Typed, NEW e, NEW kept, Completion(e, kept),
           LastKind \in Content \cup {"nothing"}, adapter = "codex"
    PROVE  Adds \/ Ends
<1>1. CASE e.usage = "partial"
    BY <1>1, NoChunk, RejectsEffect DEF Completion
<1>2. CASE e.usage # "partial"
    <2> DEFINE p == IF kept = <<>> THEN <<>> ELSE Append(Role, Chunk("text", 0, kept))
    <2>1. ContentOnly(p)
        BY NoChunk, RoleIsContent, ContentPushed DEF Chunk, Content
    <2>2. pending' = p \o FinishChunks(e.usage = "complete")
        BY <1>2 DEF Completion, Writes
    <2>3. Fits(pending', "reading")
        BY <2>1, <2>2, FinishFits
    <2>4. GoesOn /\ Same("Done")
        BY <1>2 DEF Completion, Typed, NoSummary, GoesOn, SameMarks, Same
    <2>5. QED
        BY <2>3, <2>4 DEF Ends
<1>3. QED
    BY <1>1, <1>2

LEMMA StreamEventEffect ==
    ASSUME Typed, NEW e, StreamEvent(e), LastKind \in Content \cup {"nothing"}
    PROVE  Adds \/ Ends
<1>1. CASE state.events >= MaxEvents
    BY <1>1, NoChunk, FailsEffect DEF StreamEvent, Adds, Writes
<1>2. CASE ~(state.events >= MaxEvents)
    <2>1. ASSUME NEW class, Fails(class, "upstream_error"), Writes(<<>>) PROVE Adds
        BY <2>1, NoChunk, FailsEffect DEF Adds, Writes
    <2>2. QED
        BY <1>2, <2>1, NoChunk, TextEvent, CallEvent, ItemEvent, CompletionEvent,
           BecomesEffect, RejectsEffect DEF StreamEvent, Ignores
<1>3. QED
    BY <1>1, <1>2
-----------------------------------------------------------------------------
(* The events of the two adapters that relay. *)

LEMMA ErrorFits ==
    ASSUME LastKind \in Content
    PROVE  Fits(<<Chunk("error", 0, <<>>)>>, "failing")
BY OneChunk DEF Fits, Orderly, Before, Follows, Chunk

LEMMA DoneFits ==
    ASSUME LastKind \in Content \cup {"nothing"}, adapter # "codex"
    PROVE  Fits(<<Chunk("done", 0, <<>>)>>, "reading")
BY OneChunk DEF Fits, Orderly, Before, Follows, Chunk

\* What any event makes of a reader.
Effect ==
    /\ Fits(pending', reader')
    /\ \/ GoesOn /\ (Same("Done") \/ (adapter = "native" /\ summary'.Done = TRUE))
       \/ GivesUp

LEMMA AddsIsEffect ==
    ASSUME Adds, LastKind \in Content \cup {"nothing"}
    PROVE  Effect
BY ContentFits DEF Adds, Effect

LEMMA RelayChunkEffect ==
    ASSUME Typed, NEW e, RelayChunk(e), LastKind \in Content \cup {"nothing"},
           summary.Started => LastKind \in Content, reader = "reading"
    PROVE  Effect
<1>1. CASE e.type = "[DONE]"
    <2>1. Continues /\ pending' = <<Chunk("done", 0, <<>>)>>
        BY <1>1 DEF RelayChunk, Writes, IsStreamError
    <2>2. QED
        BY <2>1, DoneFits, ContinuesEffect DEF Effect, RelayChunk, GoesOn
<1>2. CASE e.type = "error"
    <2>1. Fails(e.class, "upstream_error")
          /\ pending' = IF summary.Started THEN <<Chunk("error", 0, <<>>)>> ELSE <<>>
        BY <1>2 DEF RelayChunk, Writes, IsStreamError
    <2>2. GivesUp
        BY <2>1, FailsEffect
    <2>3. Fits(pending', "failing")
        BY <2>1, NoChunk, ContentFits, ErrorFits
    <2>4. QED
        BY <2>2, <2>3 DEF Effect, GivesUp
<1>3. CASE e.type \notin {"[DONE]", "error"}
    <2>1. \/ \E class : \E status \in {"upstream_invalid", "event_limit"} :
               Fails(class, status) /\ pending' = <<>>
          \/ /\ reader' = reader /\ pending' = <<Chunk("chunk", 0, <<>>)>>
             /\ summary' = [summary EXCEPT !.Usage = @ \/ e.usage = "complete"]
        BY <1>3 DEF RelayChunk, Writes, IsStreamError
    <2>2. CASE \E class : \E status \in {"upstream_invalid", "event_limit"} :
                 Fails(class, status) /\ pending' = <<>>
        BY <2>2, FailsEffect, NoChunk, AddsIsEffect DEF Adds
    <2>3. CASE /\ reader' = reader /\ pending' = <<Chunk("chunk", 0, <<>>)>>
               /\ summary' = [summary EXCEPT !.Usage = @ \/ e.usage = "complete"]
        <3>1. GoesOn /\ Same("Done")
            BY <2>3 DEF Typed, NoSummary, GoesOn, SameMarks, Same
        <3>2. ContentOnly(pending')
            BY <2>3, OneChunk DEF Chunk, Content
        <3>3. QED
            BY <3>1, <3>2, AddsIsEffect DEF Adds
    <2>4. QED
        BY <2>1, <2>2, <2>3
<1>4. QED
    BY <1>1, <1>2, <1>3

LEMMA RelayBlockEffect ==
    ASSUME Typed, NEW e, RelayBlock(e), LastKind \in Content \cup {"nothing"},
           summary.CompletionStatus = "completed"
    PROVE  Effect
<1> DEFINE block == <<Chunk("block", 0, <<>>)>>
<1>1. ContentOnly(<<>>) /\ ContentOnly(block)
    BY NoChunk, OneChunk DEF Chunk, Content
<1> HIDE DEF block
<1>2. \/ \E class : \E status \in {"event_limit", "upstream_invalid", "upstream_error"} :
           Fails(class, status) /\ pending' \in {<<>>, block}
      \/ /\ reader' = reader /\ pending' = block
         /\ summary' = [summary EXCEPT !.Done = TRUE, !.CompletionStatus = "completed",
                                       !.Usage = @ \/ e.usage = "complete"]
      \/ Continues /\ pending' = block
    BY DEF RelayBlock, Writes, block
<1>3. CASE \E class : \E status \in {"event_limit", "upstream_invalid", "upstream_error"} :
             Fails(class, status) /\ pending' \in {<<>>, block}
    BY <1>1, <1>3, FailsEffect, AddsIsEffect DEF Adds
<1>4. CASE /\ reader' = reader /\ pending' = block
           /\ summary' = [summary EXCEPT !.Done = TRUE, !.CompletionStatus = "completed",
                                         !.Usage = @ \/ e.usage = "complete"]
    <2>1. GoesOn /\ summary'.Done = TRUE
        BY <1>4 DEF Typed, NoSummary, GoesOn, SameMarks, Same
    <2>2. Fits(pending', reader')
        BY <1>1, <1>4, ContentFits
    <2>3. QED
        BY <2>1, <2>2 DEF Effect, RelayBlock
<1>5. CASE Continues /\ pending' = block
    BY <1>1, <1>5, ContinuesEffect, AddsIsEffect DEF Adds
<1>6. QED
    BY <1>2, <1>3, <1>4, <1>5
-----------------------------------------------------------------------------
(* Steps that write nothing to the client. *)

Aside == UNCHANGED <<adapter, client, sink, answer>>

LEMMA LastKindKept ==
    ASSUME Aside
    PROVE  LastKind' = LastKind
BY DEF Aside, LastKind

LEMMA FitsKept ==
    ASSUME Aside, Fits(pending', reader')
    PROVE  Fits(pending, reader)'
<1>1. LastKind' = LastKind /\ adapter' = adapter
    BY LastKindKept DEF Aside
<1>2. QED
    BY <1>1 DEF Fits, Orderly, Before, Follows

\* A reader between two events has an open answer before it.
LEMMA ReadsOpen ==
    ASSUME StreamInv, reader = "reading", pending = <<>>
    PROVE  /\ Typed /\ LastKind \in Content \cup {"nothing"}
           /\ summary.Started => LastKind \in Content
           /\ summary.CompletionStatus = "completed" /\ summary.ErrorClass = ""
           /\ ~summary.PreStreamError /\ ~summary.NormalizedErrorSent
<1>1. LastKind \in Content \cup {"nothing"}
    BY DEF StreamInv, Stages
<1>2. summary.Started => LastKind \in Content
    BY <1>1 DEF StreamInv, Stages, Told
<1>3. QED
    BY <1>1, <1>2 DEF StreamInv, Told, Typed, Content

LEMMA ReadStep ==
    ASSUME StreamInv, Reads, Aside, Effect
    PROVE  StreamInv'
<1>1. /\ Typed /\ LastKind \in Content \cup {"nothing"}
      /\ summary.CompletionStatus = "completed" /\ summary.ErrorClass = ""
      /\ ~summary.PreStreamError /\ ~summary.NormalizedErrorSent
    BY ReadsOpen DEF Reads
<1>2. reader' \in {"reading", "failing"}
    BY DEF Effect, GoesOn, GivesUp, Reads
<1>3. Typed'
    BY <1>1, <1>2 DEF Typed, Aside, Effect, GoesOn, GivesUp, SameMarks, Same
<1>4. InOrder'
    BY FitsKept DEF StreamInv, InOrder, Effect, Aside
<1>5. Stages'
    BY <1>1, <1>2, LastKindKept DEF StreamInv, Stages, Aside, Reads, Content
<1>6. Told'
    <2>1. LastKind' = LastKind /\ client' = client /\ sink' = sink /\ adapter' = adapter
        BY LastKindKept DEF Aside
    <2>2. ~Gone
        BY <1>1 DEF Gone
    <2>3. /\ summary.Started => client # <<>>
          /\ client # <<>> => summary.Started \/ LastKind = "done"
          /\ summary.NormalizedErrorSent <=> LastKind = "error"
          /\ ~(sink /\ client = <<>>)
        BY <2>2 DEF StreamInv, Told
    <2>4. CASE GoesOn
        BY <1>1, <1>2, <2>1, <2>3, <2>4 DEF Told, GoesOn, SameMarks, Same, Reads
    <2>5. CASE GivesUp
        BY <1>1, <1>2, <2>1, <2>3, <2>5 DEF Told, GivesUp, SameMarks, Same, Reads
    <2>6. QED
        BY <2>4, <2>5 DEF Effect
<1>7. QED
    BY <1>3, <1>4, <1>5, <1>6 DEF StreamInv

\* Nothing of the answer changes.
LEMMA StandStill ==
    ASSUME StreamInv, UNCHANGED <<adapter, reader, summary, pending, client, sink, answer>>
    PROVE  StreamInv'
<1>1. Aside
    BY DEF Aside
<1>2. LastKind' = LastKind
    BY <1>1, LastKindKept
<1>3. InOrder'
    BY <1>1, FitsKept DEF StreamInv, InOrder, Fits, Orderly, Before, Follows, Aside, LastKind
<1>4. Typed' /\ Stages' /\ Told'
    BY <1>2 DEF StreamInv, Typed, Stages, Told, Gone
<1>5. QED
    BY <1>3, <1>4 DEF StreamInv

LEMMA StatusIsNoCompletion ==
    ASSUME NEW class
    PROVE  StatusOf(class) # "completed"
BY DEF StatusOf

LEMMA StepReaches ==
    ASSUME StreamInv, NEW e, Reaches(e)
    PROVE  StreamInv'
<1>1. CASE Reads
    <2>1. Aside /\ (RelayChunk(e) \/ RelayBlock(e) \/ StreamEvent(e))
        BY <1>1 DEF Reaches, Aside
    <2>2. reader = "reading" /\ pending = <<>>
        BY <1>1 DEF Reads
    <2>3. /\ Typed /\ LastKind \in Content \cup {"nothing"}
          /\ summary.Started => LastKind \in Content
          /\ summary.CompletionStatus = "completed"
        BY <2>2, ReadsOpen
    <2>4. Adds \/ Ends => Effect
        BY <2>2, <2>3, AddsIsEffect DEF Ends, Effect, GoesOn
    <2>5. Effect
        BY <2>1, <2>2, <2>3, <2>4, RelayChunkEffect, RelayBlockEffect, StreamEventEffect
    <2>6. QED
        BY <1>1, <2>1, <2>5, ReadStep
<1>2. CASE ~Reads
    BY <1>2, StandStill DEF Reaches
<1>3. QED
    BY <1>1, <1>2

LEMMA StepReadFault ==
    ASSUME StreamInv, ReadFault
    PROVE  StreamInv'
<1>1. PICK class : Fails(class, StatusOf(class))
    BY DEF ReadFault
<1>2. GivesUp
    BY <1>1, FailsEffect, StatusIsNoCompletion DEF StreamInv
<1>3. Reads /\ Aside /\ pending' = <<>>
    BY DEF ReadFault, Reads, Aside
<1>4. Adds
    BY <1>2, <1>3, NoChunk DEF Adds
<1>5. LastKind \in Content \cup {"nothing"}
    BY <1>3, ReadsOpen DEF Reads
<1>6. QED
    BY <1>3, <1>4, <1>5, AddsIsEffect, ReadStep

LEMMA StepConnect ==
    ASSUME StreamInv, Connect
    PROVE  StreamInv'
<1>1. reader = "connecting" /\ pending = <<>> /\ client = <<>> /\ summary = NoSummary /\ ~sink
      /\ answer = "none" /\ adapter \in Adapters
    BY DEF StreamInv, Stages, Typed, Connect
<1>2. Aside /\ pending' = pending /\ reader' \in {"reading", "failing"}
      /\ (reader' = "reading" => summary' = summary)
    BY DEF Connect, Aside
<1>3. ASSUME reader' = "failing"
      PROVE  \E class : \E status :
               /\ status # "completed"
               /\ summary' = [summary EXCEPT !.ErrorClass = class, !.CompletionStatus = status,
                                             !.PreStreamError = TRUE]
    <2>1. PICK refusal \in Refusals :
              summary' = [summary EXCEPT !.ErrorClass = refusal[1], !.CompletionStatus = refusal[2],
                                         !.PreStreamError = TRUE]
        BY <1>3 DEF Connect
    <2>2. \/ \E c \in TransportClasses \cup LookupRefusals : refusal = <<c, StatusOf(c)>>
          \/ \E c \in HTTPRefusals \cup LookupUnauthorized : refusal = <<c, "upstream_error">>
        BY DEF Refusals
    <2>3. refusal[2] # "completed"
        BY <2>2, StatusIsNoCompletion
    <2>4. QED
        BY <2>1, <2>3
<1>4. LastKind = "nothing" /\ LastKind' = "nothing"
    BY <1>1, <1>2, LastKindKept DEF LastKind
<1>5. InOrder'
    <2>1. Fits(<<>>, reader')
        BY <1>4, NoChunk, ContentFits
    <2>2. QED
        BY <1>1, <1>2, <2>1, FitsKept DEF InOrder, StreamInv, Aside
<1>6. ~summary.Started /\ ~summary.Done /\ ~summary.NormalizedErrorSent /\ ~summary.PreStreamError
    BY <1>1 DEF NoSummary
<1>7. summary.ErrorClass = "" /\ summary.CompletionStatus = "completed"
    BY <1>1 DEF StreamInv, Told
<1>8. Typed
    BY DEF StreamInv
<1>9. /\ DOMAIN summary' = DOMAIN summary /\ Same("Started") /\ Same("Done")
      /\ Same("NormalizedErrorSent") /\ summary'.PreStreamError \in BOOLEAN
      /\ summary'.CompletionStatus = "completed" => reader' = "reading"
    <2>1. CASE reader' = "reading"
        BY <1>2, <1>8, <2>1 DEF Same, Typed
    <2>2. CASE reader' = "failing"
        <3>1. PICK class, status :
                 /\ status # "completed"
                 /\ summary' = [summary EXCEPT !.ErrorClass = class, !.CompletionStatus = status,
                                               !.PreStreamError = TRUE]
            BY <1>3, <2>2
        <3>2. QED
            BY <1>8, <2>2, <3>1 DEF Same, Typed, NoSummary
    <2>3. QED
        BY <1>2, <2>1, <2>2
<1>10. Typed'
    BY <1>2, <1>8, <1>9 DEF Typed, Aside, Same
<1>11. Stages'
    BY <1>1, <1>2, <1>4 DEF Stages, Aside
<1>12. Told'
    <2>1. CASE reader' = "reading"
        BY <1>1, <1>2, <1>4, <1>6, <1>7, <2>1 DEF Told, Aside
    <2>2. CASE reader' = "failing"
        BY <1>1, <1>2, <1>4, <1>6, <1>9, <2>2 DEF Told, Aside, Same
    <2>3. QED
        BY <1>2, <2>1, <2>2
<1>13. QED
    BY <1>5, <1>10, <1>11, <1>12 DEF StreamInv

LEMMA StepBlockEnds ==
    ASSUME StreamInv, BlockEnds
    PROVE  StreamInv'
<1>1. Aside /\ adapter = "native" /\ reader = "reading" /\ reader' = "ended" /\ summary' = summary
      /\ pending = <<>> /\ pending' = <<>> /\ summary.Done
    BY DEF BlockEnds, Aside
<1>2. LastKind' = LastKind /\ LastKind \in Content \cup {"nothing"}
    BY <1>1, LastKindKept, ReadsOpen
<1>3. InOrder'
    BY <1>1, <1>2, NoChunk, ContentFits, FitsKept DEF InOrder, StreamInv, Aside
<1>4. Typed' /\ Stages'
    BY <1>1, <1>2 DEF StreamInv, Typed, Stages, Aside, Content
<1>5. Told'
    BY <1>1, <1>2, ReadsOpen DEF StreamInv, Told, Gone, Aside
<1>6. QED
    BY <1>3, <1>4, <1>5 DEF StreamInv

LEMMA StepAddErrorEvent ==
    ASSUME StreamInv, AddErrorEvent
    PROVE  StreamInv'
<1>1. Aside /\ reader = "failing" /\ reader' = "failing" /\ summary' = summary /\ pending = <<>>
      /\ pending' = <<Chunk("error", 0, <<>>)>> /\ OwesErrorEvent
    BY DEF AddErrorEvent, Aside, Writes
<1>2. ~Gone /\ summary.Started /\ ~summary.NormalizedErrorSent
    BY <1>1 DEF OwesErrorEvent, Gone
<1>3. LastKind \in Content /\ LastKind' = LastKind
    BY <1>1, <1>2, LastKindKept DEF StreamInv, Stages, Told
<1>4. InOrder'
    BY <1>1, <1>3, ErrorFits, FitsKept DEF InOrder, StreamInv, Aside
<1>5. pending' # <<>>
    BY <1>1
<1>6. ~summary.PreStreamError
    BY <1>2 DEF StreamInv, Told
<1>7. Typed' /\ Stages'
    BY <1>1, <1>3, <1>5 DEF StreamInv, Typed, Stages, Aside, Content
<1>8. Told'
    BY <1>1, <1>2, <1>3, <1>6 DEF StreamInv, Told, Gone, Aside
<1>9. QED
    BY <1>4, <1>7, <1>8 DEF StreamInv

LEMMA StepReturn ==
    ASSUME StreamInv, Return
    PROVE  StreamInv'
<1>1. UNCHANGED <<adapter, client, sink>> /\ reader = "failing" /\ reader' = "ended"
      /\ pending = <<>> /\ pending' = <<>> /\ ~OwesErrorEvent /\ summary' = Marked
      /\ answer' = IF sink THEN "none" ELSE "error document"
    BY DEF Return
<1>2. /\ DOMAIN summary' = DOMAIN summary /\ Same("Started") /\ Same("Done")
      /\ Same("NormalizedErrorSent") /\ Same("ErrorClass") /\ Same("CompletionStatus")
      /\ summary'.PreStreamError = (summary.PreStreamError \/ ~summary.Started)
    BY <1>1, StatusIsNoCompletion DEF Marked, Same, StreamInv, Typed, NoSummary, Told
<1>3. LastKind' = LastKind
    BY <1>1 DEF LastKind
<1>4. LastKind # "done" /\ summary.CompletionStatus # "completed"
      /\ (adapter = "native" /\ summary.Done => Gone)
    BY <1>1 DEF StreamInv, Stages, Told
<1>5. InOrder'
    <2>1. IsSeq(<<>>) /\ Len(<<>>) = 0
        BY NoChunk DEF ContentOnly
    <2>2. IsSeq(pending') /\ Len(pending') = 0
        BY <1>1, <2>1
    <2>3. IsSeq(client')
        BY <1>1 DEF StreamInv, InOrder
    <2>4. QED
        BY <2>2, <2>3 DEF InOrder, Fits, Orderly
<1>6. Typed'
    BY <1>1, <1>2 DEF StreamInv, Typed, Same
<1>7. Stages'
    BY <1>1, <1>3, <1>4 DEF StreamInv, Stages
<1>8. Gone' <=> Gone
    BY <1>2 DEF Gone, Same
<1>9. Told'
    <2>1. reader' = "ended" => (summary'.CompletionStatus = "completed" <=>
             LastKind' = "done" \/ (adapter' = "native" /\ summary'.Done /\ ~Gone'))
        BY <1>1, <1>2, <1>3, <1>4, <1>8 DEF Same
    <2>2. /\ summary'.Started => client' # <<>>
          /\ client' # <<>> => summary'.Started \/ LastKind' = "done"
          /\ summary'.NormalizedErrorSent <=> LastKind' = "error"
          /\ sink' /\ client' = <<>> => Gone'
        BY <1>1, <1>2, <1>3, <1>8 DEF Same, StreamInv, Told
    <2>3. summary'.PreStreamError => client' = <<>>
        BY <1>1, <1>2, <1>4 DEF StreamInv, Told
    <2>4. ~summary'.Done /\ ~Gone' =>
              /\ client' = <<>> => answer' = "error document"
              /\ adapter' = "codex" /\ client' # <<>> => LastKind' = "error"
        <3>1. ASSUME ~summary.Done, ~Gone, client = <<>> PROVE answer' = "error document"
            BY <1>1, <3>1 DEF StreamInv, Told
        <3>2. ASSUME ~summary.Done, ~Gone, adapter = "codex", client # <<>>
              PROVE  LastKind = "error"
            BY <1>1, <1>4, <3>2 DEF StreamInv, Told, OwesErrorEvent, Gone
        <3>3. QED
            BY <1>1, <1>2, <1>3, <1>8, <3>1, <3>2 DEF Same
    <2>5. QED
        BY <1>1, <2>1, <2>2, <2>3, <2>4 DEF Told
<1>10. QED
    BY <1>5, <1>6, <1>7, <1>9 DEF StreamInv
-----------------------------------------------------------------------------
(* The step that writes to the client, or finds it gone. *)

LEMMA Writing ==
    ASSUME StreamInv, Write
    PROVE  /\ reader \in {"reading", "failing"} /\ answer = "none"
           /\ Follows(LastKind, Head(pending).kind)
           /\ Head(pending).kind = "error" => reader = "failing"
           /\ Head(pending).kind \in {"finish", "usage", "done"} => reader = "reading"
           /\ ~summary.PreStreamError
<1>1. pending # <<>> /\ IsSeq(pending)
    BY DEF Write, StreamInv, InOrder, Fits
<1>2. Len(pending) \in Nat \ {0} /\ Head(pending) = pending[1]
    BY <1>1, PopEffect
<1>3. reader \in {"reading", "failing"} /\ answer = "none"
    BY <1>1 DEF StreamInv, Typed, Stages
<1>4. Follows(LastKind, pending[1].kind)
    BY <1>2 DEF StreamInv, InOrder, Fits, Orderly, Before
<1>5. /\ pending[1].kind = "error" => reader = "failing"
      /\ pending[1].kind \in {"finish", "usage", "done"} => reader = "reading"
    BY <1>2 DEF StreamInv, InOrder, Fits
<1>6. ~summary.PreStreamError
    BY <1>1 DEF StreamInv, Told, Typed
<1>7. QED
    BY <1>2, <1>3, <1>4, <1>5, <1>6

\* The chunk reaches the client.
Reached ==
    /\ client' = Append(client, Head(pending))
    /\ pending' = Tail(pending)
    /\ summary' = Written(summary, Head(pending).kind)
    /\ reader' = IF Head(pending).kind = "done" THEN "ended" ELSE reader

\* It does not, and the adapter gives up.
Disconnected ==
    /\ pending' = <<>>
    /\ summary' = [summary EXCEPT !.ErrorClass = "client_disconnected",
                                  !.CompletionStatus = "client_disconnected"]
    /\ reader' = "failing"
    /\ UNCHANGED client

LEMMA WriteSplits ==
    ASSUME Write
    PROVE  UNCHANGED <<adapter, answer>> /\ sink' = TRUE /\ (Reached \/ Disconnected)
BY DEF Write, Reached, Disconnected

LEMMA StepDisconnected ==
    ASSUME StreamInv, Write, Disconnected
    PROVE  StreamInv'
<1>1. UNCHANGED <<adapter, answer>> /\ sink' = TRUE
    BY WriteSplits
<1>2. /\ reader \in {"reading", "failing"} /\ answer = "none" /\ ~summary.PreStreamError
      /\ Follows(LastKind, Head(pending).kind)
    BY Writing
<1>3. LastKind' = LastKind /\ client' = client /\ pending' = <<>> /\ reader' = "failing"
    BY DEF Disconnected, LastKind
<1>4. /\ DOMAIN summary' = DOMAIN summary /\ Same("Started") /\ Same("Done")
      /\ Same("NormalizedErrorSent") /\ Same("PreStreamError")
      /\ summary'.ErrorClass = "client_disconnected"
      /\ summary'.CompletionStatus = "client_disconnected"
    BY DEF Disconnected, StreamInv, Typed, NoSummary, Same
<1>5. LastKind \in Content \cup {"nothing", "finish", "usage"}
    BY <1>2 DEF Follows, Content
<1>6. Typed'
    BY <1>1, <1>3, <1>4 DEF StreamInv, Typed, Same
<1>7. InOrder'
    <2>1. IsSeq(<<>>) /\ Len(<<>>) = 0
        BY NoChunk DEF ContentOnly
    <2>2. IsSeq(pending') /\ Len(pending') = 0
        BY <1>3, <2>1
    <2>3. IsSeq(client')
        BY <1>3 DEF StreamInv, InOrder
    <2>4. QED
        BY <2>2, <2>3 DEF InOrder, Fits, Orderly
<1>8. Gone'
    BY <1>4 DEF Gone
<1>9. Stages'
    BY <1>1, <1>2, <1>3, <1>5, <1>8 DEF StreamInv, Stages, Content
<1>10. Told'
    BY <1>1, <1>2, <1>3, <1>4, <1>8 DEF StreamInv, Told, Same
<1>11. QED
    BY <1>6, <1>7, <1>9, <1>10 DEF StreamInv

LEMMA StepReached ==
    ASSUME StreamInv, Write, Reached
    PROVE  StreamInv'
<1> DEFINE k == Head(pending).kind
<1>1. UNCHANGED <<adapter, answer>> /\ sink' = TRUE
    BY WriteSplits
<1>2. /\ reader \in {"reading", "failing"} /\ answer = "none" /\ ~summary.PreStreamError
      /\ Follows(LastKind, k)
      /\ k = "error" => reader = "failing"
      /\ k \in {"finish", "usage", "done"} => reader = "reading"
    BY Writing
<1>3. IsSeq(client') /\ client' # <<>> /\ LastKind' = k
    <2>1. IsSeq(client) /\ client' = Append(client, Head(pending))
        BY DEF StreamInv, InOrder, Reached
    <2>2. IsSeq(client') /\ client' # <<>> /\ client'[Len(client')] = Head(pending)
        BY <2>1, PushEffect
    <2>3. QED
        BY <2>2 DEF LastKind
<1>4. reader' = IF k = "done" THEN "ended" ELSE reader
    BY DEF Reached
<1>5. k \in Content \cup {"finish", "usage", "done", "error"}
    BY <1>2 DEF Follows
<1>6. /\ DOMAIN summary' = DOMAIN summary /\ Same("ErrorClass") /\ Same("CompletionStatus")
      /\ Same("PreStreamError")
      /\ summary'.Started = (summary.Started \/ k \notin {"done", "error"})
      /\ summary'.Done = (summary.Done \/ k = "done")
      /\ summary'.NormalizedErrorSent = (summary.NormalizedErrorSent \/ k = "error")
    BY <1>5 DEF Reached, Written, Normal, Content, StreamInv, Typed, NoSummary, Same
<1>7. /\ pending # <<>> /\ IsSeq(pending')
      /\ Len(pending) \in Nat \ {0} /\ Len(pending') = Len(pending) - 1
      /\ \A i \in 1 .. Len(pending') : pending'[i] = pending[i + 1]
      /\ pending' = <<>> => Len(pending) = 1
      /\ k = pending[1].kind
    <2>1. pending # <<>> /\ IsSeq(pending) /\ pending' = Tail(pending)
        BY DEF Write, Reached, StreamInv, InOrder, Fits
    <2>2. QED
        BY <2>1, PopEffect
<1> HIDE DEF k
<1>8. ASSUME NEW i \in 1 .. Len(pending')
      PROVE  /\ Follows(Before(k, pending', i), pending'[i].kind)
             /\ pending'[i].kind = "error" => reader = "failing"
             /\ pending'[i].kind \in {"finish", "usage", "done"} => reader = "reading"
             /\ i = Len(pending') => pending'[i].kind \notin {"finish", "usage"}
    <2>1. i + 1 \in 1 .. Len(pending) /\ pending'[i] = pending[i + 1]
          /\ (i = Len(pending') => i + 1 = Len(pending))
        BY <1>7
    <2>2. Follows(Before(LastKind, pending, i + 1), pending[i + 1].kind)
        BY <2>1 DEF StreamInv, InOrder, Fits, Orderly
    <2>3. Before(LastKind, pending, i + 1) = Before(k, pending', i)
        BY <1>7, <2>1 DEF Before
    <2>4. /\ pending[i + 1].kind = "error" => reader = "failing"
          /\ pending[i + 1].kind \in {"finish", "usage", "done"} => reader = "reading"
          /\ i + 1 = Len(pending) => pending[i + 1].kind \notin {"finish", "usage"}
        BY <2>1 DEF StreamInv, InOrder, Fits
    <2>5. QED
        BY <2>1, <2>2, <2>3, <2>4
<1>9. k = "done" => Len(pending') = 0 /\ pending' = <<>>
    <2>1. ASSUME k = "done", Len(pending') # 0 PROVE FALSE
        <3>1. 1 \in 1 .. Len(pending')
            BY <1>7, <2>1
        <3>2. Follows(k, pending'[1].kind)
            BY <1>8, <3>1 DEF Before
        <3>3. QED
            BY <2>1, <3>2 DEF Follows, Content
    <2>2. Len(pending') = 0 => pending' = <<>>
        BY <1>7, EmptySeq DEF IsSeq
    <2>3. QED
        BY <2>1, <2>2
<1>10. k \in {"finish", "usage"} => pending' # <<>>
    BY <1>7 DEF StreamInv, InOrder, Fits
<1>11. InOrder'
    <2>1. adapter' = adapter /\ LastKind' = k
        BY <1>1, <1>3
    <2>2. ASSUME NEW i \in 1 .. Len(pending')
          PROVE  /\ Follows(Before(LastKind, pending, i), pending[i].kind)'
                 /\ pending'[i].kind = "error" => reader' = "failing"
                 /\ pending'[i].kind \in {"finish", "usage", "done"} => reader' = "reading"
                 /\ i = Len(pending') => pending'[i].kind \notin {"finish", "usage"}
        <3>1. reader' = reader
            BY <1>4, <1>9, <2>2
        <3>2. QED
            BY <1>8, <2>1, <3>1 DEF Follows, Before
    <2>3. QED
        BY <1>3, <1>7, <2>2 DEF InOrder, Fits, Orderly
<1>12. Typed'
    BY <1>1, <1>2, <1>4, <1>6 DEF StreamInv, Typed, Same
<1>13. LastKind \notin {"done", "error"}
    BY <1>2 DEF Follows, Content
<1>14. Gone' <=> Gone
    BY <1>6 DEF Gone, Same
<1>15. Stages'
    BY <1>1, <1>2, <1>3, <1>4, <1>5, <1>9, <1>10 DEF Stages, Content
<1>16. Told'
    <2>1. CASE k = "done"
        <3>1. reader = "reading" /\ reader' = "ended" /\ LastKind' = "done" /\ summary'.Done
            BY <1>2, <1>3, <1>4, <1>6, <2>1
        <3>2. summary'.CompletionStatus = "completed"
            BY <1>6, <3>1 DEF StreamInv, Told, Same
        <3>3. ~summary'.PreStreamError /\ ~summary'.NormalizedErrorSent
            BY <1>2, <1>6, <1>13, <2>1 DEF StreamInv, Told, Same
        <3>4. QED
            BY <1>3, <3>1, <3>2, <3>3 DEF Told
    <2>2. CASE k # "done"
        <3>1. reader' = reader /\ (summary'.Done <=> summary.Done)
              /\ summary'.ErrorClass = summary.ErrorClass
              /\ summary'.CompletionStatus = summary.CompletionStatus
              /\ adapter' = adapter /\ ~summary'.PreStreamError
            BY <1>1, <1>2, <1>4, <1>6, <2>2 DEF Same, StreamInv, Typed
        <3>2. summary'.NormalizedErrorSent <=> LastKind' = "error"
            BY <1>3, <1>6, <1>13 DEF StreamInv, Told
        <3>3. summary'.Started
            <4>1. k = "error" => client # <<>>
                BY <1>2 DEF Follows, Content, LastKind
            <4>2. client # <<>> => summary.Started
                BY <1>13 DEF StreamInv, Told
            <4>3. QED
                BY <1>6, <2>2, <4>1, <4>2
        <3>4. QED
            BY <1>2, <1>3, <1>14, <3>1, <3>2, <3>3 DEF StreamInv, Told
    <2>3. QED
        BY <2>1, <2>2
<1>17. QED
    BY <1>11, <1>12, <1>15, <1>16 DEF StreamInv
-----------------------------------------------------------------------------
(* The invariant of the specification. *)

LEMMA StreamInit ==
    ASSUME Init
    PROVE  StreamInv /\ LastKind = "nothing" /\ reader = "connecting" /\ answer = "none"
<1>1. /\ adapter \in Adapters /\ reader = "connecting" /\ summary = NoSummary
      /\ pending = <<>> /\ client = <<>> /\ sink = FALSE /\ answer = "none"
    BY DEF Init, Adapters
<1>2. LastKind = "nothing"
    BY <1>1 DEF LastKind
<1>3. InOrder
    <2>1. Fits(<<>>, reader) /\ IsSeq(<<>>)
        BY <1>2, NoChunk, ContentFits DEF ContentOnly
    <2>2. QED
        BY <1>1, <2>1 DEF InOrder
<1>4. Typed
    BY <1>1 DEF Typed, NoSummary
<1>5. Stages
    BY <1>1, <1>2 DEF Stages
<1>6. Told
    BY <1>1, <1>2 DEF Told, NoSummary
<1>7. QED
    BY <1>1, <1>2, <1>3, <1>4, <1>5, <1>6 DEF StreamInv

\* The steps that leave the stream of the client as it is.
Elsewhere == UNCHANGED <<adapter, reader, summary, pending, client, sink, answer>>

\* Every step is one of the readers' or leaves the stream alone.
LEMMA StepSplits ==
    ASSUME [Next]_vars
    PROVE  \/ Elsewhere
           \/ \E e : Reaches(e)
           \/ Connect \/ Write \/ ReadFault \/ AddErrorEvent \/ Return
           \/ BlockEnds
<1>1. CASE Deliver \/ Repeat \/ Stray
    BY <1>1 DEF Deliver, Repeat, Stray
<1>2. CASE Lose \/ CollectorFails \/ UNCHANGED vars
    BY <1>2 DEF Lose, CollectorFails, vars, sinkVars, Elsewhere
<1>3. CASE Server \/ Relayed
    BY <1>3 DEF Server, Relayed
<1>4. QED
    BY <1>1, <1>2, <1>3 DEF Next

LEMMA StreamNext ==
    ASSUME StreamInv, [Next]_vars
    PROVE  StreamInv'
<1>1. CASE Elsewhere
    BY <1>1, StandStill DEF Elsewhere
<1>2. CASE Write
    BY <1>2, WriteSplits, StepReached, StepDisconnected
<1>3. QED
    BY <1>1, <1>2, StepSplits, StepReaches, StepConnect, StepReadFault, StepAddErrorEvent,
       StepReturn, StepBlockEnds

LEMMA StreamAlways == Spec => []StreamInv
BY StreamInit, StreamNext, PTL DEF Spec

\* CompletedMeansDelivered: of every answer, whatever the messages, the events
\* and the faults, the metadata says "completed" exactly if the client has its
\* end, and a client that is still there is told of every failure.
THEOREM DeliveredAsTold == Spec => []CompletedMeansDelivered
<1>1. StreamInv => CompletedMeansDelivered
    BY DEF StreamInv, Told, Gone, CompletedMeansDelivered
<1>2. QED
    BY <1>1, StreamAlways, PTL
-----------------------------------------------------------------------------
(* The promise of ClientStream, step by step. *)

\* A step that shows the client nothing and ends no answer.
LEMMA PhaseKept ==
    ASSUME Aside, reader # "ended", reader' # "ended"
    PROVE  UNCHANGED Promise!clientVars
<1>1. LastKind' = LastKind /\ UNCHANGED <<adapter, answer>>
    BY LastKindKept DEF Aside
<1>2. QED
    BY <1>1 DEF Promise!clientVars, Phase

LEMMA ReachesKeepsPhase ==
    ASSUME StreamInv, NEW e, Reaches(e)
    PROVE  UNCHANGED Promise!clientVars
<1>1. CASE Reads
    <2>1. reader = "reading" /\ pending = <<>> /\ Aside
        BY <1>1 DEF Reads, Reaches, Aside
    <2>2. RelayChunk(e) \/ RelayBlock(e) \/ StreamEvent(e)
        BY <1>1 DEF Reaches
    <2>3. /\ Typed /\ LastKind \in Content \cup {"nothing"}
          /\ summary.Started => LastKind \in Content
          /\ summary.CompletionStatus = "completed"
        BY <2>1, ReadsOpen
    <2>4. Adds \/ Ends => Effect
        BY <2>1, <2>3, AddsIsEffect DEF Ends, Effect, GoesOn
    <2>5. Effect
        BY <2>1, <2>2, <2>3, <2>4, RelayChunkEffect, RelayBlockEffect, StreamEventEffect
    <2>6. reader' # "ended"
        BY <2>1, <2>5 DEF Effect, GoesOn, GivesUp
    <2>7. QED
        BY <2>1, <2>6, PhaseKept
<1>2. CASE ~Reads
    <2>1. UNCHANGED <<adapter, reader, summary, client, answer>>
        BY <1>2 DEF Reaches
    <2>2. QED
        BY <2>1 DEF Promise!clientVars, Phase, LastKind
<1>3. QED
    BY <1>1, <1>2

\* Every chunk that reaches the client is a step of the promise.
LEMMA ReachedKeepsPromise ==
    ASSUME StreamInv, Write, Reached
    PROVE  Promise!Next \/ UNCHANGED Promise!clientVars
<1> DEFINE k == Head(pending).kind
<1>1. UNCHANGED <<adapter, answer>> /\ answer = "none"
    BY WriteSplits, Writing
<1>2. reader \in {"reading", "failing"} /\ Follows(LastKind, k)
    BY Writing
<1>3. LastKind' = k
    <2>1. IsSeq(client) /\ client' = Append(client, Head(pending))
        BY DEF StreamInv, InOrder, Reached
    <2>2. client' # <<>> /\ client'[Len(client')] = Head(pending)
        BY <2>1, PushEffect
    <2>3. QED
        BY <2>2 DEF LastKind
<1>4. reader' = IF k = "done" THEN "ended" ELSE reader
    BY DEF Reached
<1> HIDE DEF k
<1>5. Phase = IF LastKind \in {"finish", "usage"} THEN "finished"
              ELSE IF LastKind = "nothing" THEN "waiting" ELSE "open"
    BY <1>1, <1>2 DEF Phase, Follows, Content
<1>6. Phase' = CASE k = "done" -> "done" [] k = "error" -> "failed"
                 [] k \in {"finish", "usage"} -> "finished" [] OTHER -> "open"
    BY <1>1, <1>2, <1>3, <1>4 DEF Phase, Follows, Content
<1>7. CASE k \in Content
    BY <1>1, <1>2, <1>5, <1>6, <1>7 DEF Follows, Content, Promise!Next, Promise!Chunk
<1>8. CASE k = "finish"
    BY <1>1, <1>2, <1>5, <1>6, <1>8 DEF Follows, Content, Promise!Next, Promise!Finish
<1>9. CASE k = "usage"
    BY <1>1, <1>2, <1>5, <1>6, <1>9 DEF Follows, Content, Promise!clientVars
<1>10. CASE k = "done"
    BY <1>1, <1>2, <1>5, <1>6, <1>10
       DEF Follows, Content, Promise!Next, Promise!Done, Promise!Closed
<1>11. CASE k = "error"
    BY <1>1, <1>2, <1>5, <1>6, <1>11 DEF Follows, Content, Promise!Next, Promise!Fail
<1>12. QED
    BY <1>2, <1>7, <1>8, <1>9, <1>10, <1>11 DEF Follows

\* A failed answer ends cut, refused, or as it was told to fail.
LEMMA ReturnKeepsPromise ==
    ASSUME StreamInv, Return
    PROVE  Promise!Next \/ UNCHANGED Promise!clientVars
<1>1. /\ UNCHANGED <<adapter, client>> /\ reader = "failing" /\ reader' = "ended"
      /\ pending = <<>> /\ summary' = Marked
      /\ answer' = IF sink THEN "none" ELSE "error document"
    BY DEF Return
<1>2. LastKind' = LastKind /\ LastKind # "done" /\ answer = "none"
    BY <1>1 DEF LastKind, StreamInv, Stages, Typed
<1>3. summary'.ErrorClass = summary.ErrorClass /\ (summary'.Done <=> summary.Done)
    BY <1>1 DEF Marked, StreamInv, Typed, NoSummary
<1>4. adapter = "native" /\ summary.Done => summary.ErrorClass # ""
    BY <1>1 DEF StreamInv, Told, Gone
<1>5. CASE ~sink
    <2>1. LastKind = "nothing"
        BY <1>5 DEF StreamInv, Stages, LastKind
    <2>2. Phase = "waiting" /\ Phase' = "refused"
        BY <1>1, <1>2, <1>5, <2>1 DEF Phase
    <2>3. QED
        BY <1>1, <2>2 DEF Promise!Next, Promise!Refuse
<1>6. CASE sink /\ LastKind = "error"
    <2>1. Phase = "failed" /\ Phase' = "failed"
        BY <1>1, <1>2, <1>6 DEF Phase
    <2>2. QED
        BY <1>1, <2>1 DEF Promise!clientVars
<1>7. CASE sink /\ LastKind # "error"
    <2>1. Phase \in {"finished", "waiting", "open"}
        BY <1>1, <1>2, <1>7 DEF Phase
    <2>2. Phase' = "cut"
        BY <1>1, <1>2, <1>3, <1>4, <1>7 DEF Phase
    <2>3. QED
        BY <1>1, <2>1, <2>2 DEF Promise!Next, Promise!Cut, Promise!Closed
<1>8. QED
    BY <1>5, <1>6, <1>7 DEF StreamInv, Typed

LEMMA BlockEndsKeepsPromise ==
    ASSUME StreamInv, BlockEnds
    PROVE  Promise!Next \/ UNCHANGED Promise!clientVars
<1>1. /\ UNCHANGED <<adapter, client, answer, summary>> /\ adapter = "native"
      /\ reader = "reading" /\ reader' = "ended" /\ pending = <<>> /\ summary.Done
    BY DEF BlockEnds
<1>2. LastKind' = LastKind /\ LastKind \in Content \cup {"nothing"} /\ answer = "none"
    BY <1>1, ReadsOpen DEF LastKind, StreamInv, Stages, Typed
<1>3. Phase \in {"waiting", "open"}
    BY <1>1, <1>2 DEF Phase, Content
<1>4. Phase' \in {"done", "cut"}
    BY <1>1, <1>2 DEF Phase, Content
<1>5. QED
    BY <1>1, <1>3, <1>4
       DEF Promise!Next, Promise!Done, Promise!Cut, Promise!Closed

LEMMA StepKeepsPromise ==
    ASSUME StreamInv, [Next]_vars
    PROVE  Promise!Next \/ UNCHANGED Promise!clientVars
<1>1. CASE Elsewhere
    BY <1>1 DEF Elsewhere, Promise!clientVars, Phase, LastKind
<1>2. CASE Connect \/ ReadFault \/ AddErrorEvent
    <2>1. Aside /\ reader # "ended" /\ reader' # "ended"
        BY <1>2 DEF Connect, ReadFault, AddErrorEvent, Reads, Fails, Aside
    <2>2. QED
        BY <2>1, PhaseKept
<1>3. CASE Write
    <2>1. CASE Disconnected
        <3>1. reader # "ended" /\ reader' # "ended"
            BY <1>3, <2>1, Writing DEF Disconnected
        <3>2. UNCHANGED <<adapter, client, answer>>
            BY <1>3, <2>1, WriteSplits DEF Disconnected
        <3>3. QED
            BY <3>1, <3>2 DEF Promise!clientVars, Phase, LastKind
    <2>2. QED
        BY <1>3, <2>1, WriteSplits, ReachedKeepsPromise
<1>4. QED
    BY <1>1, <1>2, <1>3, StepSplits, ReachesKeepsPhase, ReturnKeepsPromise, BlockEndsKeepsPromise

\* KeepsPromise: every adapter implements ClientStream.
THEOREM PromiseKept == Spec => KeepsPromise
<1>1. Init => Promise!Init
    <2>1. ASSUME Init PROVE Phase = "waiting"
        BY <2>1, StreamInit DEF Phase
    <2>2. (adapter = "codex") \in BOOLEAN
        OBVIOUS
    <2>3. QED
        BY <2>1, <2>2 DEF Promise!Init
<1>2. StreamInv /\ [Next]_vars => [Promise!Next]_(Promise!clientVars)
    BY StepKeepsPromise
<1>3. QED
    BY <1>1, <1>2, StreamAlways, PTL DEF Spec, KeepsPromise, Promise!Spec
-----------------------------------------------------------------------------
(* Numbers, and sequences put together of sequences.                       *)

\* A set of numbers has a least one.
LEMMA LeastNumber ==
    ASSUME NEW S, S \subseteq Nat, S # {}
    PROVE \E t \in S : \A u \in S : t <= u
<1>1. IsWellFoundedOn(OpToRel(<, Nat), Nat)
    BY NatLessThanWellFounded
<1>2. PICK t \in S : \A u \in S : <<u, t>> \notin OpToRel(<, Nat)
    BY <1>1, WFMin
<1>3. ASSUME NEW u \in S PROVE t <= u
    <2>1. ~(u < t)
        BY <1>2 DEF OpToRel
    <2>2. QED
        BY <2>1
<1>4. QED
    BY <1>3

\* Induction, over a set of numbers in place of a predicate.
LEMMA Inductive ==
    ASSUME NEW N \in Nat, NEW S, 0 \in S, \A n \in 0..N : n \in S /\ n # N => n + 1 \in S
    PROVE  0..N \subseteq S
<1>1. SUFFICES ASSUME (0..N) \ S # {} PROVE FALSE
    OBVIOUS
<1>2. PICK n \in (0..N) \ S : \A m \in (0..N) \ S : n <= m
    <2>1. (0..N) \ S \subseteq Nat
        OBVIOUS
    <2>2. QED
        BY <1>1, <2>1, LeastNumber
<1>3. n # 0 /\ n - 1 \in 0..N /\ n - 1 # N
    BY <1>2
<1>4. n - 1 \in S
    BY <1>2, <1>3
<1>5. n \in S
    BY <1>3, <1>4
<1>6. QED
    BY <1>2, <1>5

LEMMA Successor ==
    ASSUME NEW N \in Nat, NEW n \in 0 .. N, n # N
    PROVE  n + 1 \in 1 .. N /\ n + 1 \in 0 .. N /\ (n + 1) - 1 = n /\ n \in Nat
OBVIOUS

\* The join is what its definition says, piece after piece.
LEMMA JoinedValue ==
    ASSUME NEW ss, Len(ss) \in Nat
    PROVE  Joined(ss) =
             [n \in 0 .. Len(ss) |-> IF n = 0 THEN <<>> ELSE Joined(ss)[n - 1] \o ss[n]]
<1> DEFINE Upto(f, n) == f = [k \in 0 .. n |-> IF k = 0 THEN <<>> ELSE f[k - 1] \o ss[k]]
           Good == {n \in Nat : \E f : Upto(f, n)}
<1>1. 0 \in Good
    <2>1. Upto([k \in 0 .. 0 |-> <<>>], 0)
        OBVIOUS
    <2>2. QED
        BY <2>1
<1>2. ASSUME NEW n \in Nat, n \in Good PROVE n + 1 \in Good
    <2>1. PICK f : Upto(f, n)
        BY <1>2
    <2> DEFINE g == [k \in 0 .. (n + 1) |-> IF k <= n THEN f[k] ELSE f[n] \o ss[n + 1]]
    <2>2. ASSUME NEW k \in 0 .. (n + 1)
          PROVE  g[k] = IF k = 0 THEN <<>> ELSE g[k - 1] \o ss[k]
        <3>1. CASE k = 0
            BY <2>1, <3>1
        <3>2. CASE k # 0 /\ k <= n
            <4>1. k \in 0 .. n /\ k - 1 \in 0 .. (n + 1) /\ k - 1 <= n
                BY <2>2, <3>2
            <4>2. g[k] = f[k] /\ g[k - 1] = f[k - 1]
                BY <2>2, <4>1
            <4>3. f[k] = f[k - 1] \o ss[k]
                BY <2>1, <3>2, <4>1
            <4>4. QED
                BY <3>2, <4>2, <4>3
        <3>3. CASE k = n + 1
            <4>1. g[k] = f[n] \o ss[n + 1] /\ g[k - 1] = f[n] /\ k # 0
                BY <3>3
            <4>2. QED
                BY <3>3, <4>1
        <3>4. QED
            BY <2>2, <3>1, <3>2, <3>3
    <2>3. Upto(g, n + 1)
        <3> HIDE DEF g
        <3>1. g = [k \in 0 .. (n + 1) |-> g[k]]
            BY DEF g
        <3> DEFINE h == [k \in 0 .. (n + 1) |-> IF k = 0 THEN <<>> ELSE g[k - 1] \o ss[k]]
        <3>2. \A k \in 0 .. (n + 1) : h[k] = g[k]
            BY <2>2
        <3>3. h = [k \in 0 .. (n + 1) |-> h[k]]
            OBVIOUS
        <3>4. g = h
            <4> HIDE DEF h
            <4>1. QED
                BY <3>1, <3>2, <3>3
        <3>5. QED
            BY <3>4
    <2>4. n + 1 \in Nat
        OBVIOUS
    <2>5. QED
        <3> HIDE DEF g, Upto
        <3>1. QED
            BY <2>3, <2>4
<1>3. Len(ss) \in Good
    <2> HIDE DEF Good
    <2>1. \A n \in 0 .. Len(ss) : n \in Good /\ n # Len(ss) => n + 1 \in Good
        BY <1>2
    <2>2. 0 .. Len(ss) \subseteq Good
        BY <1>1, <2>1, Inductive
    <2>3. Len(ss) \in 0 .. Len(ss)
        OBVIOUS
    <2>4. QED
        BY <2>2, <2>3
<1>4. \E f : Upto(f, Len(ss))
    BY <1>3
<1>5. Joined(ss) = CHOOSE f : Upto(f, Len(ss))
    BY DEF Joined
<1> HIDE DEF Upto
<1>6. Upto(Joined(ss), Len(ss))
    BY <1>4, <1>5
<1>7. QED
    BY <1>6 DEF Upto

LEMMA JoinedStep ==
    ASSUME NEW S, NEW ss \in Seq(Seq(S))
    PROVE  /\ Joined(ss)[0] = <<>>
           /\ \A n \in DOMAIN ss : Joined(ss)[n] = Joined(ss)[n - 1] \o ss[n]
<1>1. Len(ss) \in Nat /\ DOMAIN ss = 1 .. Len(ss)
    BY LenProperties
<1> DEFINE f == Joined(ss)
           h == [n \in 0 .. Len(ss) |-> IF n = 0 THEN <<>> ELSE f[n - 1] \o ss[n]]
<1>2. f = h
    BY <1>1, JoinedValue
<1> HIDE DEF f
<1>3. f[0] = <<>> /\ \A n \in 1 .. Len(ss) : f[n] = f[n - 1] \o ss[n]
    <2>1. h[0] = <<>>
        BY <1>1
    <2>2. ASSUME NEW n \in 1 .. Len(ss) PROVE h[n] = f[n - 1] \o ss[n]
        <3>1. n \in 0 .. Len(ss) /\ n # 0
            BY <1>1
        <3>2. QED
            BY <3>1
    <2> HIDE DEF h
    <2>3. QED
        BY <1>2, <2>1, <2>2
<1>4. QED
    BY <1>1, <1>3 DEF f

LEMMA JoinedType ==
    ASSUME NEW S, NEW ss \in Seq(Seq(S))
    PROVE  /\ \A n \in 0 .. Len(ss) : Joined(ss)[n] \in Seq(S)
           /\ Flatten(ss) \in Seq(S)
<1>1. Len(ss) \in Nat /\ DOMAIN ss = 1 .. Len(ss) /\ \A n \in 1 .. Len(ss) : ss[n] \in Seq(S)
    OBVIOUS
<1>2. Joined(ss)[0] \in Seq(S)
    <2>1. <<>> \in Seq(S)
        OBVIOUS
    <2>2. QED
        BY <2>1, JoinedStep
<1>3. ASSUME NEW n \in 0 .. Len(ss), n # Len(ss), Joined(ss)[n] \in Seq(S)
      PROVE  Joined(ss)[n + 1] \in Seq(S)
    <2>1. n + 1 \in 1 .. Len(ss) /\ (n + 1) - 1 = n
        BY <1>1, <1>3, Successor, Zenon
    <2>2. Joined(ss)[n + 1] = Joined(ss)[n] \o ss[n + 1]
        BY <1>1, <2>1, JoinedStep
    <2>3. ss[n + 1] \in Seq(S)
        BY <1>1, <2>1
    <2>4. QED
        BY <1>3, <2>2, <2>3
<1>4. ASSUME NEW n \in 0 .. Len(ss) PROVE Joined(ss)[n] \in Seq(S)
    <2> DEFINE Good == {k \in 0 .. Len(ss) : Joined(ss)[k] \in Seq(S)}
    <2>1. 0 \in Good
        BY <1>1, <1>2
    <2>2. ASSUME NEW k \in 0 .. Len(ss), k \in Good, k # Len(ss) PROVE k + 1 \in Good
        <3>1. k + 1 \in 0 .. Len(ss)
            BY <1>1, <2>2, Successor, Zenon
        <3>2. Joined(ss)[k + 1] \in Seq(S)
            BY <1>3, <2>2
        <3>3. QED
            BY <3>1, <3>2
    <2>3. 0 .. Len(ss) \subseteq Good
        <3> HIDE DEF Good
        <3>1. QED
            BY <1>1, <2>1, <2>2, Inductive
    <2>4. QED
        BY <2>3
<1>5. QED
    BY <1>1, <1>4 DEF Flatten

\* What is joined so far depends on the pieces so far.
LEMMA JoinedSame ==
    ASSUME NEW S, NEW ss \in Seq(Seq(S)), NEW tt \in Seq(Seq(S)), NEW m \in Nat,
           m <= Len(ss), m <= Len(tt), \A n \in 1 .. m : ss[n] = tt[n]
    PROVE  Joined(ss)[m] = Joined(tt)[m]
<1>1. /\ Len(ss) \in Nat /\ DOMAIN ss = 1 .. Len(ss)
      /\ Len(tt) \in Nat /\ DOMAIN tt = 1 .. Len(tt)
    OBVIOUS
<1>2. Joined(ss)[0] = Joined(tt)[0]
    BY JoinedStep
<1>3. ASSUME NEW n \in 0 .. m, n # m, Joined(ss)[n] = Joined(tt)[n]
      PROVE  Joined(ss)[n + 1] = Joined(tt)[n + 1]
    <2>1. n + 1 \in DOMAIN ss /\ n + 1 \in DOMAIN tt /\ n + 1 \in 1 .. m /\ (n + 1) - 1 = n
        BY <1>1, <1>3
    <2>2. Joined(ss)[n + 1] = Joined(ss)[n] \o ss[n + 1]
        BY <2>1, JoinedStep
    <2>3. Joined(tt)[n + 1] = Joined(tt)[n] \o tt[n + 1]
        BY <2>1, JoinedStep
    <2>4. ss[n + 1] = tt[n + 1]
        BY <2>1
    <2>5. QED
        BY <1>3, <2>2, <2>3, <2>4
<1>4. QED
    <2> DEFINE Good == {n \in 0 .. m : Joined(ss)[n] = Joined(tt)[n]}
    <2>1. 0 \in Good
        BY <1>2
    <2>2. \A n \in 0 .. m : n \in Good /\ n # m => n + 1 \in Good
        BY <1>3
    <2>3. 0 .. m \subseteq Good
        <3> HIDE DEF Good
        <3>1. QED
            BY <2>1, <2>2, Inductive
    <2>4. QED
        BY <2>3

LEMMA FlattenNone == Flatten(<<>>) = <<>>
<1>1. <<>> \in Seq(Seq({})) /\ Len(<<>>) = 0
    OBVIOUS
<1>2. QED
    BY <1>1, JoinedStep DEF Flatten

LEMMA FlattenAppend ==
    ASSUME NEW S, NEW ss \in Seq(Seq(S)), NEW s \in Seq(S)
    PROVE  Flatten(Append(ss, s)) = Flatten(ss) \o s
<1> DEFINE tt == Append(ss, s)
<1>1. Len(ss) \in Nat /\ DOMAIN ss = 1 .. Len(ss)
    OBVIOUS
<1>2. /\ tt \in Seq(Seq(S)) /\ Len(tt) = Len(ss) + 1 /\ tt[Len(ss) + 1] = s
      /\ \A n \in 1 .. Len(ss) : tt[n] = ss[n]
    OBVIOUS
<1>3. DOMAIN tt = 1 .. Len(tt)
    BY <1>2
<1> HIDE DEF tt
<1>4. Joined(tt)[Len(ss)] = Joined(ss)[Len(ss)]
    <2>1. Len(ss) <= Len(ss) /\ Len(ss) <= Len(tt)
        BY <1>1, <1>2
    <2>2. QED
        BY <1>1, <1>2, <2>1, JoinedSame
<1>5. Len(tt) \in DOMAIN tt /\ Len(tt) - 1 = Len(ss)
    BY <1>1, <1>2, <1>3
<1>6. Joined(tt)[Len(tt)] = Joined(tt)[Len(ss)] \o s
    BY <1>2, <1>5, JoinedStep
<1>7. QED
    BY <1>4, <1>6 DEF Flatten, tt

LEMMA FlattenOne ==
    ASSUME NEW S, NEW s \in Seq(S)
    PROVE  Flatten(<<s>>) = s
<1>1. <<>> \in Seq(Seq(S)) /\ Append(<<>>, s) = <<s>>
    OBVIOUS
<1>2. Flatten(<<s>>) = Flatten(<<>>) \o s
    BY <1>1, FlattenAppend
<1>3. QED
    BY <1>2, FlattenNone

LEMMA ConcatThree ==
    ASSUME NEW S, NEW s \in Seq(S), NEW t \in Seq(S), NEW u \in Seq(S)
    PROVE  (s \o t) \o u = s \o (t \o u)
OBVIOUS

LEMMA FlattenConcat ==
    ASSUME NEW S, NEW ss \in Seq(Seq(S)), NEW tt \in Seq(Seq(S))
    PROVE  Flatten(ss \o tt) = Flatten(ss) \o Flatten(tt)
<1> DEFINE uu == ss \o tt
<1>1. Len(ss) \in Nat /\ Len(tt) \in Nat /\ DOMAIN tt = 1 .. Len(tt)
    OBVIOUS
<1>2. /\ uu \in Seq(Seq(S)) /\ Len(uu) = Len(ss) + Len(tt)
      /\ \A n \in 1 .. Len(ss) : uu[n] = ss[n]
      /\ \A n \in 1 .. Len(tt) : uu[Len(ss) + n] = tt[n]
    OBVIOUS
<1>3. DOMAIN uu = 1 .. Len(uu)
    BY <1>2
<1> HIDE DEF uu
<1>4. Joined(uu)[Len(ss) + 0] = Flatten(ss) \o Joined(tt)[0]
    <2>1. Len(ss) <= Len(ss) /\ Len(ss) <= Len(uu)
        BY <1>1, <1>2
    <2>2. Joined(uu)[Len(ss)] = Joined(ss)[Len(ss)]
        BY <1>1, <1>2, <2>1, JoinedSame
    <2>3. Flatten(ss) \in Seq(S)
        BY JoinedType
    <2>4. Flatten(ss) \o <<>> = Flatten(ss)
        BY <2>3
    <2>5. Joined(tt)[0] = <<>>
        BY JoinedStep
    <2>6. Len(ss) + 0 = Len(ss)
        BY <1>1
    <2>7. QED
        BY <2>2, <2>4, <2>5, <2>6 DEF Flatten
<1>5. ASSUME NEW n \in 0 .. Len(tt), n # Len(tt),
             Joined(uu)[Len(ss) + n] = Flatten(ss) \o Joined(tt)[n]
      PROVE  Joined(uu)[Len(ss) + (n + 1)] = Flatten(ss) \o Joined(tt)[n + 1]
    <2>1. /\ n + 1 \in DOMAIN tt /\ (n + 1) - 1 = n
          /\ Len(ss) + (n + 1) \in DOMAIN uu /\ (Len(ss) + (n + 1)) - 1 = Len(ss) + n
        <3>1. n + 1 \in 1 .. Len(tt) /\ (n + 1) - 1 = n /\ n \in Nat
            BY <1>1, <1>5, Successor, Zenon
        <3>2. /\ Len(ss) + (n + 1) \in 1 .. (Len(ss) + Len(tt))
              /\ (Len(ss) + (n + 1)) - 1 = Len(ss) + n
            BY <1>1, <3>1
        <3>3. QED
            BY <1>1, <1>2, <1>3, <3>1, <3>2
    <2>2. Joined(uu)[Len(ss) + (n + 1)] = Joined(uu)[Len(ss) + n] \o uu[Len(ss) + (n + 1)]
        BY <1>2, <2>1, JoinedStep
    <2>3. Joined(tt)[n + 1] = Joined(tt)[n] \o tt[n + 1]
        BY <2>1, JoinedStep
    <2>4. uu[Len(ss) + (n + 1)] = tt[n + 1]
        BY <1>1, <1>2, <2>1
    <2>5. Flatten(ss) \in Seq(S) /\ Joined(tt)[n] \in Seq(S)
        BY JoinedType
    <2>6. tt[n + 1] \in Seq(S)
        BY <2>1
    <2>7. (Flatten(ss) \o Joined(tt)[n]) \o tt[n + 1] = Flatten(ss) \o (Joined(tt)[n] \o tt[n + 1])
        <3>1. \A a, b, c \in Seq(S) : (a \o b) \o c = a \o (b \o c)
            BY ConcatThree
        <3>2. QED
            BY <2>5, <2>6, <3>1, Zenon
    <2>8. QED
        BY <1>5, <2>2, <2>3, <2>4, <2>7
<1>6. Joined(uu)[Len(ss) + Len(tt)] = Flatten(ss) \o Joined(tt)[Len(tt)]
    <2> DEFINE Good == {n \in 0 .. Len(tt) : Joined(uu)[Len(ss) + n] = Flatten(ss) \o Joined(tt)[n]}
    <2>1. 0 \in Good
        BY <1>1, <1>4
    <2>2. ASSUME NEW n \in 0 .. Len(tt), n \in Good, n # Len(tt) PROVE n + 1 \in Good
        <3>1. n + 1 \in 0 .. Len(tt)
            BY <1>1, <2>2, Successor, Zenon
        <3>2. Joined(uu)[Len(ss) + (n + 1)] = Flatten(ss) \o Joined(tt)[n + 1]
            BY <1>5, <2>2
        <3>3. QED
            BY <3>1, <3>2
    <2>3. 0 .. Len(tt) \subseteq Good
        <3> HIDE DEF Good
        <3>1. QED
            BY <1>1, <2>1, <2>2, Inductive
    <2>4. Len(tt) \in 0 .. Len(tt)
        BY <1>1
    <2>5. QED
        BY <2>3, <2>4
<1>7. QED
    BY <1>2, <1>6 DEF Flatten, uu
-----------------------------------------------------------------------------
(* A sequence spread out element by element.                               *)

\* Every element replaced by what a function has for it, and these one after the other.
Each(W, s) == [i \in DOMAIN s |-> W[s[i]]]
Spread(W, s) == Flatten(Each(W, s))
Spreads(W, S, T) == W \in [S -> Seq(T)]

LEMMA SpreadsValue ==
    ASSUME NEW S, NEW T, NEW W, Spreads(W, S, T), NEW x \in S
    PROVE  W[x] \in Seq(T)
BY DEF Spreads

LEMMA EachAny ==
    ASSUME NEW S, NEW T, NEW W \in [S -> T], NEW s \in Seq(S)
    PROVE  /\ Each(W, s) \in Seq(T)
           /\ Len(Each(W, s)) = Len(s) /\ DOMAIN Each(W, s) = DOMAIN s
BY DEF Each

LEMMA EachType ==
    ASSUME NEW S, NEW T, NEW W, Spreads(W, S, T), NEW s \in Seq(S)
    PROVE  /\ Each(W, s) \in Seq(Seq(T))
           /\ Len(Each(W, s)) = Len(s) /\ DOMAIN Each(W, s) = DOMAIN s
<1> DEFINE U == Seq(T)
<1>1. W \in [S -> U]
    BY DEF Spreads
<1> HIDE DEF U
<1>2. /\ Each(W, s) \in Seq(U)
      /\ Len(Each(W, s)) = Len(s) /\ DOMAIN Each(W, s) = DOMAIN s
    BY <1>1, EachAny
<1>3. QED
    BY <1>2 DEF U

LEMMA ConcatType ==
    ASSUME NEW T, NEW s \in Seq(T), NEW t \in Seq(T)
    PROVE  s \o t \in Seq(T) /\ Len(s \o t) = Len(s) + Len(t)
OBVIOUS

LEMMA SpreadType ==
    ASSUME NEW S, NEW T, NEW W, Spreads(W, S, T), NEW s \in Seq(S)
    PROVE  Spread(W, s) \in Seq(T)
<1>1. Each(W, s) \in Seq(Seq(T))
    BY EachType
<1>2. QED
    BY <1>1, JoinedType DEF Spread

LEMMA SpreadNone == ASSUME NEW W PROVE Spread(W, <<>>) = <<>>
<1>1. Each(W, <<>>) = <<>>
    BY DEF Each
<1>2. QED
    BY <1>1, FlattenNone DEF Spread

LEMMA SpreadOne ==
    ASSUME NEW S, NEW T, NEW W, Spreads(W, S, T), NEW x \in S
    PROVE  Spread(W, <<x>>) = W[x]
<1>1. Each(W, <<x>>) = <<W[x]>>
    BY DEF Each
<1>2. W[x] \in Seq(T)
    BY SpreadsValue
<1>3. QED
    BY <1>1, <1>2, FlattenOne DEF Spread

LEMMA EachConcat ==
    ASSUME NEW S, NEW T, NEW W, Spreads(W, S, T), NEW s \in Seq(S), NEW t \in Seq(S)
    PROVE  Each(W, s \o t) = Each(W, s) \o Each(W, t)
<1> DEFINE u == Each(W, s \o t)
           v == Each(W, s) \o Each(W, t)
           st == s \o t
<1>1. /\ Len(s) \in Nat /\ Len(t) \in Nat /\ st \in Seq(S) /\ Len(st) = Len(s) + Len(t)
      /\ DOMAIN s = 1 .. Len(s) /\ DOMAIN t = 1 .. Len(t)
    OBVIOUS
<1>2. /\ Each(W, s) \in Seq(Seq(T)) /\ Len(Each(W, s)) = Len(s)
      /\ Each(W, t) \in Seq(Seq(T)) /\ Len(Each(W, t)) = Len(t)
    BY EachType
<1>3. u \in Seq(Seq(T)) /\ Len(u) = Len(s) + Len(t) /\ DOMAIN st = DOMAIN u
    <2> HIDE DEF st
    <2>1. /\ Each(W, st) \in Seq(Seq(T))
          /\ Len(Each(W, st)) = Len(st) /\ DOMAIN Each(W, st) = DOMAIN st
        BY <1>1, EachType
    <2>2. QED
        BY <1>1, <2>1 DEF st
<1>4. v \in Seq(Seq(T)) /\ Len(v) = Len(s) + Len(t)
    <2> DEFINE U == Seq(T)
               a == Each(W, s)
               b == Each(W, t)
    <2>1. a \in Seq(U) /\ b \in Seq(U) /\ Len(a) = Len(s) /\ Len(b) = Len(t)
        BY <1>2
    <2> HIDE DEF U, a, b
    <2>2. a \o b \in Seq(U) /\ Len(a \o b) = Len(a) + Len(b)
        BY <2>1
    <2>3. QED
        BY <2>1, <2>2 DEF U, a, b
<1>5. ASSUME NEW i \in 1 .. (Len(s) + Len(t)) PROVE u[i] = v[i]
    <2>1. u[i] = W[st[i]]
        <3>1. i \in DOMAIN st
            BY <1>1
        <3> HIDE DEF st
        <3>2. QED
            BY <3>1 DEF Each, st
    <2>2. CASE i <= Len(s)
        <3>1. st[i] = s[i] /\ i \in DOMAIN s /\ v[i] = Each(W, s)[i]
            BY <1>1, <1>2, <2>2
        <3>2. Each(W, s)[i] = W[s[i]]
            BY <3>1 DEF Each
        <3>3. QED
            BY <2>1, <3>1, <3>2
    <2>3. CASE i > Len(s)
        <3>1. /\ st[i] = t[i - Len(s)] /\ i - Len(s) \in DOMAIN t
              /\ v[i] = Each(W, t)[i - Len(s)]
            BY <1>1, <1>2, <2>3
        <3>2. Each(W, t)[i - Len(s)] = W[t[i - Len(s)]]
            BY <3>1 DEF Each
        <3>3. QED
            BY <2>1, <3>1, <3>2
    <2>4. i <= Len(s) \/ i > Len(s)
        BY <1>1
    <2>5. QED
        BY <2>2, <2>3, <2>4
<1>6. QED
    <2> HIDE DEF u, v
    <2>1. u = v
        BY <1>1, <1>3, <1>4, <1>5
    <2>2. QED
        BY <2>1 DEF u, v

LEMMA SpreadConcat ==
    ASSUME NEW S, NEW T, NEW W, Spreads(W, S, T), NEW s \in Seq(S), NEW t \in Seq(S)
    PROVE  Spread(W, s \o t) = Spread(W, s) \o Spread(W, t)
<1>1. Each(W, s \o t) = Each(W, s) \o Each(W, t)
    BY EachConcat
<1>2. Each(W, s) \in Seq(Seq(T)) /\ Each(W, t) \in Seq(Seq(T))
    BY EachType
<1>3. QED
    BY <1>1, <1>2, FlattenConcat DEF Spread

(* Chunks, and what is put together of them. *)
Kinds == {"role", "text", "call", "args", "finish", "usage", "done", "error", "chunk", "block"}
Chunks == [kind : Kinds, index : Nat, text : Seq(Nat)]

LEMMA ChunkType ==
    ASSUME NEW kind \in Kinds, NEW index \in Nat, NEW text \in Seq(Nat)
    PROVE  /\ Chunk(kind, index, text) \in Chunks
           /\ Chunk(kind, index, text).kind = kind /\ Chunk(kind, index, text).index = index
           /\ Chunk(kind, index, text).text = text
BY DEF Chunk, Chunks

TextOf == [c \in Chunks |-> IF c.kind = "text" THEN c.text ELSE <<>>]
IndexOf == [c \in Chunks |-> IF c.kind = "call" THEN <<c.index>> ELSE <<>>]
ArgumentsOf(index) ==
    [c \in Chunks |-> IF c.kind \in {"call", "args"} /\ c.index = index THEN c.text ELSE <<>>]

LEMMA ChunkReads ==
    /\ Spreads(TextOf, Chunks, Nat)
    /\ Spreads(IndexOf, Chunks, Nat)
    /\ \A index : Spreads(ArgumentsOf(index), Chunks, Nat)
<1>1. <<>> \in Seq(Nat) /\ \A n \in Nat : <<n>> \in Seq(Nat)
    OBVIOUS
<1>2. \A c \in Chunks : c.text \in Seq(Nat) /\ <<c.index>> \in Seq(Nat)
    BY <1>1 DEF Chunks
<1> DEFINE U == Seq(Nat)
<1>3. <<>> \in U /\ \A c \in Chunks : c.text \in U /\ <<c.index>> \in U
    BY <1>1, <1>2
<1> HIDE DEF U
<1>4. TextOf \in [Chunks -> U] /\ IndexOf \in [Chunks -> U]
    BY <1>3 DEF TextOf, IndexOf
<1>5. ASSUME NEW index PROVE ArgumentsOf(index) \in [Chunks -> U]
    BY <1>3 DEF ArgumentsOf
<1>6. QED
    BY <1>4, <1>5 DEF Spreads, U

LEMMA ReadSpread ==
    ASSUME NEW cs \in Seq(Chunks)
    PROVE  /\ TextIn(cs) = Spread(TextOf, cs)
           /\ CallsIn(cs) = Spread(IndexOf, cs)
           /\ \A index : ArgumentsIn(cs, index) = Spread(ArgumentsOf(index), cs)
<1>1. \A i \in DOMAIN cs : cs[i] \in Chunks
    OBVIOUS
<1>2. Each(TextOf, cs) = [i \in DOMAIN cs |-> IF cs[i].kind = "text" THEN cs[i].text ELSE <<>>]
    BY <1>1 DEF Each, TextOf
<1>3. Each(IndexOf, cs) = [i \in DOMAIN cs |-> IF cs[i].kind = "call" THEN <<cs[i].index>> ELSE <<>>]
    BY <1>1 DEF Each, IndexOf
<1>4. ASSUME NEW index
      PROVE  Each(ArgumentsOf(index), cs) =
               [i \in DOMAIN cs |-> IF cs[i].kind \in {"call", "args"} /\ cs[i].index = index
                                    THEN cs[i].text ELSE <<>>]
    BY <1>1 DEF Each, ArgumentsOf
<1>5. QED
    BY <1>2, <1>3, <1>4 DEF TextIn, CallsIn, ArgumentsIn, Spread

LEMMA ReadType ==
    ASSUME NEW cs \in Seq(Chunks)
    PROVE  /\ TextIn(cs) \in Seq(Nat) /\ CallsIn(cs) \in Seq(Nat)
           /\ \A index : ArgumentsIn(cs, index) \in Seq(Nat)
BY ReadSpread, ChunkReads, SpreadType

LEMMA ReadNone ==
    TextIn(<<>>) = <<>> /\ CallsIn(<<>>) = <<>> /\ \A index : ArgumentsIn(<<>>, index) = <<>>
<1>1. <<>> \in Seq(Chunks)
    BY EmptySeq
<1>2. QED
    BY <1>1, ReadSpread, SpreadNone

\* What a chunk adds to the text, to the calls and to the arguments of each.
LEMMA ReadAppend ==
    ASSUME NEW cs \in Seq(Chunks), NEW c \in Chunks
    PROVE  /\ Append(cs, c) \in Seq(Chunks)
           /\ TextIn(Append(cs, c)) = TextIn(cs) \o TextOf[c]
           /\ CallsIn(Append(cs, c)) = CallsIn(cs) \o IndexOf[c]
           /\ \A index :
                ArgumentsIn(Append(cs, c), index) = ArgumentsIn(cs, index) \o ArgumentsOf(index)[c]
<1>1. Append(cs, c) \in Seq(Chunks) /\ Append(cs, c) = cs \o <<c>> /\ <<c>> \in Seq(Chunks)
    BY AppendProperties, AppendIsConcat
<1>2. ASSUME NEW W, Spreads(W, Chunks, Nat)
      PROVE  Spread(W, Append(cs, c)) = Spread(W, cs) \o W[c]
    <2>1. Spread(W, cs \o <<c>>) = Spread(W, cs) \o Spread(W, <<c>>)
        <3>1. PICK d : d = <<c>>
            OBVIOUS
        <3>2. d \in Seq(Chunks)
            BY <1>1, <3>1
        <3>3. Spread(W, cs \o d) = Spread(W, cs) \o Spread(W, d)
            BY <1>2, <3>2, SpreadConcat
        <3>4. QED
            BY <3>1, <3>3
    <2>2. Spread(W, <<c>>) = W[c]
        BY <1>2, SpreadOne
    <2>3. QED
        BY <1>1, <2>1, <2>2
<1>3. TextIn(Append(cs, c)) = TextIn(cs) \o TextOf[c]
    BY <1>1, <1>2, ReadSpread, ChunkReads
<1>4. CallsIn(Append(cs, c)) = CallsIn(cs) \o IndexOf[c]
    BY <1>1, <1>2, ReadSpread, ChunkReads
<1>5. ASSUME NEW index
      PROVE  ArgumentsIn(Append(cs, c), index) = ArgumentsIn(cs, index) \o ArgumentsOf(index)[c]
    BY <1>1, <1>2, ReadSpread, ChunkReads
<1>6. QED
    BY <1>1, <1>3, <1>4, <1>5

\* A chunk that only marks the answer adds nothing.
LEMMA ReadMark ==
    ASSUME NEW cs \in Seq(Chunks), NEW kind \in {"role", "finish", "usage", "done"}
    PROVE  LET ds == Append(cs, Chunk(kind, 0, <<>>))
           IN  /\ ds \in Seq(Chunks)
               /\ TextIn(ds) = TextIn(cs) /\ CallsIn(ds) = CallsIn(cs)
               /\ \A index : ArgumentsIn(ds, index) = ArgumentsIn(cs, index)
<1> DEFINE c == Chunk(kind, 0, <<>>)
<1>1. c \in Chunks /\ c.kind = kind
    <2>1. PICK t : t = <<>>
        OBVIOUS
    <2>2. kind \in Kinds /\ 0 \in Nat /\ t \in Seq(Nat)
        BY <2>1, EmptySeq DEF Kinds
    <2>3. Chunk(kind, 0, t) \in Chunks /\ Chunk(kind, 0, t).kind = kind
        BY <2>2, ChunkType
    <2>4. QED
        BY <2>1, <2>3
<1> HIDE DEF c
<1>2. TextOf[c] = <<>> /\ IndexOf[c] = <<>> /\ \A index : ArgumentsOf(index)[c] = <<>>
    BY <1>1 DEF TextOf, IndexOf, ArgumentsOf
<1>3. \A s \in Seq(Nat) : s \o <<>> = s
    BY ConcatEmptySeq
<1>10. PICK ds : ds = Append(cs, c)
    OBVIOUS
<1>11. /\ ds \in Seq(Chunks)
       /\ TextIn(ds) = TextIn(cs) \o TextOf[c]
       /\ CallsIn(ds) = CallsIn(cs) \o IndexOf[c]
       /\ \A index : ArgumentsIn(ds, index) = ArgumentsIn(cs, index) \o ArgumentsOf(index)[c]
    BY <1>1, <1>10, ReadAppend
<1>12. /\ TextIn(cs) \in Seq(Nat) /\ CallsIn(cs) \in Seq(Nat)
       /\ \A index : ArgumentsIn(cs, index) \in Seq(Nat)
    BY ReadType
<1>4. TextIn(ds) = TextIn(cs)
    BY <1>2, <1>3, <1>11, <1>12
<1>5. CallsIn(ds) = CallsIn(cs)
    BY <1>2, <1>3, <1>11, <1>12
<1>6. ASSUME NEW index PROVE ArgumentsIn(ds, index) = ArgumentsIn(cs, index)
    BY <1>2, <1>3, <1>11, <1>12
<1>7. QED
    BY <1>4, <1>5, <1>6, <1>10, <1>11 DEF c

LEMMA ReadText ==
    ASSUME NEW cs \in Seq(Chunks), NEW text \in Seq(Nat)
    PROVE  LET ds == Append(cs, Chunk("text", 0, text))
           IN  /\ ds \in Seq(Chunks)
               /\ TextIn(ds) = TextIn(cs) \o text /\ CallsIn(ds) = CallsIn(cs)
               /\ \A index : ArgumentsIn(ds, index) = ArgumentsIn(cs, index)
<1> DEFINE c == Chunk("text", 0, text)
<1>1. c \in Chunks /\ c.kind = "text" /\ c.text = text
    <2>1. "text" \in Kinds /\ 0 \in Nat
        BY DEF Kinds
    <2>2. QED
        BY <2>1, ChunkType
<1> HIDE DEF c
<1>2. TextOf[c] = text /\ IndexOf[c] = <<>> /\ \A index : ArgumentsOf(index)[c] = <<>>
    BY <1>1 DEF TextOf, IndexOf, ArgumentsOf
<1>3. \A s \in Seq(Nat) : s \o <<>> = s
    BY ConcatEmptySeq
<1>10. PICK ds : ds = Append(cs, c)
    OBVIOUS
<1>11. /\ ds \in Seq(Chunks)
       /\ TextIn(ds) = TextIn(cs) \o TextOf[c]
       /\ CallsIn(ds) = CallsIn(cs) \o IndexOf[c]
       /\ \A index : ArgumentsIn(ds, index) = ArgumentsIn(cs, index) \o ArgumentsOf(index)[c]
    BY <1>1, <1>10, ReadAppend
<1>12. /\ TextIn(cs) \in Seq(Nat) /\ CallsIn(cs) \in Seq(Nat)
       /\ \A index : ArgumentsIn(cs, index) \in Seq(Nat)
    BY ReadType
<1>4. TextIn(ds) = TextIn(cs) \o text
    BY <1>2, <1>11
<1>5. CallsIn(ds) = CallsIn(cs)
    BY <1>2, <1>3, <1>11, <1>12
<1>6. ASSUME NEW index PROVE ArgumentsIn(ds, index) = ArgumentsIn(cs, index)
    BY <1>2, <1>3, <1>11, <1>12
<1>7. QED
    BY <1>4, <1>5, <1>6, <1>10, <1>11 DEF c

\* The chunk that opens call n, or that carries some of its arguments.
CallRead(cs, ds, kind, n, text) ==
    /\ ds \in Seq(Chunks)
    /\ TextIn(ds) = TextIn(cs)
    /\ CallsIn(ds) = IF kind = "call" THEN CallsIn(cs) \o <<n>> ELSE CallsIn(cs)
    /\ ArgumentsIn(ds, n) = ArgumentsIn(cs, n) \o text
    /\ \A index : index # n => ArgumentsIn(ds, index) = ArgumentsIn(cs, index)

LEMMA ReadCall ==
    ASSUME NEW cs \in Seq(Chunks), NEW kind \in {"call", "args"}, NEW n \in Nat, NEW text \in Seq(Nat)
    PROVE  CallRead(cs, Append(cs, Chunk(kind, n, text)), kind, n, text)
<1> DEFINE c == Chunk(kind, n, text)
<1>1. c \in Chunks /\ c.kind = kind /\ c.index = n /\ c.text = text
    <2>1. kind \in Kinds
        BY DEF Kinds
    <2>2. QED
        BY <2>1, ChunkType
<1> HIDE DEF c
<1>2. /\ TextOf[c] = <<>> /\ IndexOf[c] = IF kind = "call" THEN <<n>> ELSE <<>>
      /\ ArgumentsOf(n)[c] = text
      /\ \A index : index # n => ArgumentsOf(index)[c] = <<>>
    BY <1>1 DEF TextOf, IndexOf, ArgumentsOf
<1>3. \A s \in Seq(Nat) : s \o <<>> = s
    BY ConcatEmptySeq
<1>10. PICK ds : ds = Append(cs, c)
    OBVIOUS
<1>11. /\ ds \in Seq(Chunks)
       /\ TextIn(ds) = TextIn(cs) \o TextOf[c]
       /\ CallsIn(ds) = CallsIn(cs) \o IndexOf[c]
       /\ \A index : ArgumentsIn(ds, index) = ArgumentsIn(cs, index) \o ArgumentsOf(index)[c]
    BY <1>1, <1>10, ReadAppend
<1>12. /\ TextIn(cs) \in Seq(Nat) /\ CallsIn(cs) \in Seq(Nat)
       /\ \A index : ArgumentsIn(cs, index) \in Seq(Nat)
    BY ReadType
<1>4. TextIn(ds) = TextIn(cs)
    BY <1>2, <1>3, <1>11, <1>12
<1>5. CallsIn(ds) = IF kind = "call" THEN CallsIn(cs) \o <<n>> ELSE CallsIn(cs)
    BY <1>2, <1>3, <1>11, <1>12
<1>6. ArgumentsIn(ds, n) = ArgumentsIn(cs, n) \o text
    BY <1>2, <1>11
<1>7. ASSUME NEW index, index # n
      PROVE  ArgumentsIn(ds, index) = ArgumentsIn(cs, index)
    BY <1>2, <1>3, <1>7, <1>11, <1>12
<1>8. QED
    BY <1>4, <1>5, <1>6, <1>7, <1>10, <1>11 DEF c, CallRead
-----------------------------------------------------------------------------
(* A message and the five places at which the events of an item stand.     *)
ItemKinds == {"text", "call", "custom"}
Forms == {"deltas", "whole", "item"}

IsMessage(m) ==
    /\ m.items \in Seq(ItemKinds)
    /\ m.text \subseteq Forms
    /\ Has(m, "text") => m.text # {}
    /\ Has(m, "call") \/ Has(m, "custom") => m.call \cap Forms # {}
    /\ m.call \cap {"deltas", "whole"} # {} => "added" \in m.call
    /\ m.ending = <<>> \/ /\ m.ending = <<m.ending[1]>>
                          /\ m.ending[1].type \in {"response.completed", "error", "response.failed",
                                                   "response.incomplete"}

Size(m) == Len(m.items)
Way(j) == CASE j = 1 -> "added" [] j \in {2, 3} -> "deltas" [] j = 4 -> "whole" [] OTHER -> "item"
WaysOf(m, k) == IF m.items[k] = "text" THEN m.text ELSE m.call

TextEventAt(k, j) ==
    CASE j \in {2, 3} -> Event("response.output_text.delta", "none", NoId, NoId,
                               <<Pieces(k)[j - 1]>>)
      [] j = 4 -> Event("response.output_text.done", "none", NoId, NoId, Pieces(k))
      [] OTHER -> Event("response.output_item.done", "message", NoId, NoId, Pieces(k))
CallEventAt(k, j, item, delta, done) ==
    CASE j = 1 -> Event("response.output_item.added", item, ItemId(k), CallId(k), <<>>)
      [] j \in {2, 3} -> Event(delta, "none", ItemId(k), NoId, <<Pieces(k)[j - 1]>>)
      [] j = 4 -> Event(done, "none", ItemId(k), NoId, Pieces(k))
      [] OTHER -> Event("response.output_item.done", item, ItemId(k), CallId(k), Pieces(k))
EventAt(m, k, j) ==
    CASE m.items[k] = "text" -> TextEventAt(k, j)
      [] m.items[k] = "call" -> CallEventAt(k, j, "function_call",
                                            "response.function_call_arguments.delta",
                                            "response.function_call_arguments.done")
      [] OTHER -> CallEventAt(k, j, "custom_tool_call", "response.custom_tool_call_input.delta",
                              "response.custom_tool_call_input.done")

Present(m, k, j) == Way(j) \in WaysOf(m, k)
Slot(m, k, j) == When(Way(j), WaysOf(m, k), <<EventAt(m, k, j)>>)

\* What is left of item k after s places.
Left(m, k, s) ==
    CASE s = 0 -> Slot(m, k, 1) \o (Slot(m, k, 2) \o (Slot(m, k, 3) \o (Slot(m, k, 4) \o Slot(m, k, 5))))
      [] s = 1 -> Slot(m, k, 2) \o (Slot(m, k, 3) \o (Slot(m, k, 4) \o Slot(m, k, 5)))
      [] s = 2 -> Slot(m, k, 3) \o (Slot(m, k, 4) \o Slot(m, k, 5))
      [] s = 3 -> Slot(m, k, 4) \o Slot(m, k, 5)
      [] s = 4 -> Slot(m, k, 5)
      [] OTHER -> <<>>

EventSet(m) ==
    {EventAt(m, k, j) : k \in 1 .. Size(m), j \in 1 .. 5} \cup {m.ending[i] : i \in DOMAIN m.ending}

ItemEvents(m) == [i \in DOMAIN m.items |-> EventsOf(m.items, i, m.text, m.call)]
From(m, k) == Flatten(SubSeq(ItemEvents(m), k, Size(m))) \o m.ending

\* The events r are those after s places of item k.
Stands(m, r, k, s) ==
    /\ k \in 1 .. Size(m) + 1 /\ s \in 0 .. 5
    /\ k = Size(m) + 1 => s = 0 /\ r = m.ending
    /\ k # Size(m) + 1 => r = Left(m, k, s) \o From(m, k + 1)

LEMMA WhenType ==
    ASSUME NEW S, NEW W, NEW w, NEW evs \in Seq(S)
    PROVE  When(w, W, evs) \in Seq(S)
BY DEF When

LEMMA PairIsAppend ==
    ASSUME NEW S, NEW b \in S, NEW c \in S
    PROVE  Append(<<b>>, c) = <<b, c>>
<1>1. PICK x, y, z : x = <<b>> /\ y = <<b, c>> /\ z = Append(x, c)
    OBVIOUS
<1>2. x \in Seq(S) /\ Len(x) = 1 /\ x[1] = b
    BY <1>1
<1>3. y \in Seq(S) /\ Len(y) = 2 /\ y[1] = b /\ y[2] = c
    BY <1>1
<1>4. z \in Seq(S) /\ Len(z) = 2 /\ z[1] = b /\ z[2] = c
    BY <1>1, <1>2, AppendProperties
<1>5. z = y
    BY <1>3, <1>4, SeqEqual
<1>6. QED
    BY <1>1, <1>5

Paired(w, W, b, c) == When(w, W, <<b, c>>) = When(w, W, <<b>>) \o When(w, W, <<c>>)

LEMMA WhenPair ==
    ASSUME NEW S, NEW W, NEW w, NEW b, NEW c, b \in S, c \in S
    PROVE  Paired(w, W, b, c)
<1>1. PICK x, y, z : x = <<b>> /\ y = <<c>> /\ z = <<>>
    OBVIOUS
<1>2. x \in Seq(S) /\ y \in Seq(S) /\ z \in Seq(S)
    BY <1>1, EmptySeq
<1>3. <<b, c>> = x \o y
    <2>1. Append(x, c) = x \o <<c>>
        BY <1>2, AppendIsConcat
    <2>2. Append(x, c) = <<b, c>>
        BY <1>1, PairIsAppend
    <2>3. QED
        BY <1>1, <2>1, <2>2
<1>4. z = z \o z
    BY <1>1, <1>2, ConcatEmptySeq
<1>5. QED
    BY <1>1, <1>3, <1>4 DEF When, Paired

\* The conclusion of a lemma with a name of its own is found at once where it is needed.
Associated(x, y, z) == (x \o y) \o z = x \o (y \o z)

LEMMA Associates ==
    ASSUME NEW S, NEW x, NEW y, NEW z, x \in Seq(S), y \in Seq(S), z \in Seq(S)
    PROVE  Associated(x, y, z)
BY ConcatAssociative DEF Associated

Regrouped(v1, v2, v3, v4, v5) ==
    ((v1 \o (v2 \o v3)) \o v4) \o v5 = v1 \o (v2 \o (v3 \o (v4 \o v5)))

LEMMA FivePlaces ==
    ASSUME NEW S, NEW v1, NEW v2, NEW v3, NEW v4, NEW v5,
           v1 \in Seq(S), v2 \in Seq(S), v3 \in Seq(S), v4 \in Seq(S), v5 \in Seq(S)
    PROVE  Regrouped(v1, v2, v3, v4, v5)
<1>1. PICK p, q, r : p = v2 \o v3 /\ q = v4 \o v5 /\ r = v1 \o p
    OBVIOUS
<1>2. p \in Seq(S) /\ q \in Seq(S) /\ r \in Seq(S)
    BY <1>1, ConcatProperties
<1>3. Associated(r, v4, v5)
    <2>1. r \in Seq(S) /\ v4 \in Seq(S) /\ v5 \in Seq(S)
        BY <1>2
    <2>2. QED
        BY <2>1, Associates
<1>4. Associated(v1, p, q)
    <2>1. v1 \in Seq(S) /\ p \in Seq(S) /\ q \in Seq(S)
        BY <1>2
    <2>2. QED
        BY <2>1, Associates
<1>5. Associated(v2, v3, q)
    <2>1. v2 \in Seq(S) /\ v3 \in Seq(S) /\ q \in Seq(S)
        BY <1>2
    <2>2. QED
        BY <2>1, Associates
<1>6. QED
    BY <1>1, <1>3, <1>4, <1>5 DEF Associated, Regrouped

LEMMA TwoPieces ==
    ASSUME NEW a, NEW b, NEW f, f = [p \in 1 .. 2 |-> IF p = 1 THEN a ELSE b]
    PROVE  f = <<a, b>>
OBVIOUS

LEMMA EventsInPlaces ==
    ASSUME NEW m, IsMessage(m), NEW k \in 1 .. Size(m)
    PROVE  EventsOf(m.items, k, m.text, m.call) = Left(m, k, 0)
<1> DEFINE a == EventAt(m, k, 1)
           b == EventAt(m, k, 2)
           c == EventAt(m, k, 3)
           d == EventAt(m, k, 4)
           e == EventAt(m, k, 5)
           W == WaysOf(m, k)
           S == {a, b, c, d, e}
<1>1. m.items[k] \in ItemKinds
    BY DEF IsMessage, Size
<1>2. Left(m, k, 0) = When("added", W, <<a>>)
               \o (When("deltas", W, <<b>>)
                     \o (When("deltas", W, <<c>>) \o (When("whole", W, <<d>>) \o When("item", W, <<e>>))))
    <2>1. /\ Way(1) = "added" /\ Way(2) = "deltas" /\ Way(3) = "deltas" /\ Way(4) = "whole"
          /\ Way(5) = "item"
        BY DEF Way
    <2>2. QED
        BY <2>1 DEF Left, Slot
<1>3. Left(m, k, 0) = ((When("added", W, <<a>>) \o When("deltas", W, <<b, c>>))
                         \o When("whole", W, <<d>>)) \o When("item", W, <<e>>)
    <2>1. a \in S /\ b \in S /\ c \in S /\ d \in S /\ e \in S
        OBVIOUS
    <2> HIDE DEF a, b, c, d, e, W, S
    <2>2. PICK v1, v2, v3, v4, v5 :
              /\ v1 = When("added", W, <<a>>) /\ v2 = When("deltas", W, <<b>>)
              /\ v3 = When("deltas", W, <<c>>) /\ v4 = When("whole", W, <<d>>)
              /\ v5 = When("item", W, <<e>>)
        OBVIOUS
    <2>3. \A x \in S : <<x>> \in Seq(S)
        OBVIOUS
    <2>4. v1 \in Seq(S) /\ v2 \in Seq(S) /\ v3 \in Seq(S) /\ v4 \in Seq(S) /\ v5 \in Seq(S)
        BY <2>1, <2>2, <2>3, WhenType
    <2>5. Regrouped(v1, v2, v3, v4, v5)
        BY <2>4, FivePlaces, Zenon
    <2>6. When("deltas", W, <<b, c>>) = v2 \o v3
        <3>1. Paired("deltas", W, b, c)
            BY <2>1, WhenPair, Zenon
        <3>2. QED
            BY <2>2, <3>1 DEF Paired
    <2>7. QED
        BY <1>2, <2>2, <2>5, <2>6 DEF Regrouped
<1>4. CASE m.items[k] = "text"
    <2>1. W = m.text /\ "added" \notin W
        BY <1>4 DEF WaysOf, IsMessage, Forms
    <2>2. When("added", W, <<a>>) = <<>>
        BY <2>1 DEF When
    <2>3. [p \in 1 .. 2 |-> Event("response.output_text.delta", "none", NoId, NoId, <<Pieces(k)[p]>>)]
            = <<b, c>>
        <3>1. /\ b = Event("response.output_text.delta", "none", NoId, NoId, <<Pieces(k)[1]>>)
              /\ c = Event("response.output_text.delta", "none", NoId, NoId, <<Pieces(k)[2]>>)
            BY <1>4 DEF EventAt, TextEventAt
        <3> HIDE DEF b, c
        <3>2. QED
            BY <3>1
    <2>4. /\ d = Event("response.output_text.done", "none", NoId, NoId, Pieces(k))
          /\ e = Event("response.output_item.done", "message", NoId, NoId, Pieces(k))
        BY <1>4 DEF EventAt, TextEventAt
    <2>5. EventsOf(m.items, k, m.text, m.call)
            = (When("deltas", W, <<b, c>>) \o When("whole", W, <<d>>)) \o When("item", W, <<e>>)
        <3>1. EventsOf(m.items, k, m.text, m.call) = TextEvents(k, m.text)
            BY <1>4 DEF EventsOf
        <3> HIDE DEF b, c, d, e, W
        <3>2. QED
            BY <2>1, <2>3, <2>4, <3>1 DEF TextEvents
    <2>6. <<>> \o When("deltas", W, <<b, c>>) = When("deltas", W, <<b, c>>)
        <3> HIDE DEF b, c, W
        <3>1. <<b, c>> \in Seq({b, c})
            OBVIOUS
        <3>2. When("deltas", W, <<b, c>>) \in Seq({b, c})
            BY <3>1, WhenType
        <3>3. QED
            BY <3>2, ConcatEmptySeq
    <2> HIDE DEF a, b, c, d, e, W
    <2>7. QED
        BY <1>3, <2>2, <2>5, <2>6
<1>5. ASSUME NEW item, NEW delta, NEW done,
             EventsOf(m.items, k, m.text, m.call) = CallEvents(k, m.call, item, delta, done),
             \A j \in 1 .. 5 : EventAt(m, k, j) = CallEventAt(k, j, item, delta, done),
             m.items[k] # "text"
      PROVE  EventsOf(m.items, k, m.text, m.call) = Left(m, k, 0)
    <2>1. W = m.call
        BY <1>5 DEF WaysOf
    <2>2. [p \in 1 .. 2 |-> Event(delta, "none", ItemId(k), NoId, <<Pieces(k)[p]>>)] = <<b, c>>
        <3>1. /\ b = Event(delta, "none", ItemId(k), NoId, <<Pieces(k)[1]>>)
              /\ c = Event(delta, "none", ItemId(k), NoId, <<Pieces(k)[2]>>)
            BY <1>5 DEF CallEventAt
        <3> HIDE DEF b, c
        <3>2. QED
            BY <3>1
    <2>3. /\ a = Event("response.output_item.added", item, ItemId(k), CallId(k), <<>>)
          /\ d = Event(done, "none", ItemId(k), NoId, Pieces(k))
          /\ e = Event("response.output_item.done", item, ItemId(k), CallId(k), Pieces(k))
        BY <1>5 DEF CallEventAt
    <2>4. CallEvents(k, m.call, item, delta, done)
            = ((When("added", W, <<a>>) \o When("deltas", W, <<b, c>>))
                         \o When("whole", W, <<d>>)) \o When("item", W, <<e>>)
        <3> HIDE DEF a, b, c, d, e, W
        <3>1. QED
            BY <2>1, <2>2, <2>3 DEF CallEvents
    <2>5. QED
        BY <1>3, <1>5, <2>4, Zenon
<1>6. CASE m.items[k] = "call"
    BY <1>5, <1>6 DEF EventsOf, EventAt
<1>7. CASE m.items[k] = "custom"
    BY <1>5, <1>7 DEF EventsOf, EventAt
<1>8. QED
    BY <1>1, <1>4, <1>6, <1>7 DEF ItemKinds

LEMMA LeftStep ==
    ASSUME NEW m, NEW k, NEW s \in 0 .. 4
    PROVE  Left(m, k, s) = Slot(m, k, s + 1) \o Left(m, k, s + 1) /\ Left(m, k, 5) = <<>>
<1>1. Left(m, k, 5) = <<>>
    BY DEF Left
<1>2. Left(m, k, 0) = Slot(m, k, 1) \o Left(m, k, 1)
    <2>1. PICK x : x = Slot(m, k, 2) \o (Slot(m, k, 3) \o (Slot(m, k, 4) \o Slot(m, k, 5)))
        OBVIOUS
    <2>2. Left(m, k, 1) = x
        BY <2>1 DEF Left
    <2>3. PICK y, y2, y3, y4, y5 :
              /\ y = Slot(m, k, 1) \o x /\ y2 = Slot(m, k, 3) \o (Slot(m, k, 4) \o Slot(m, k, 5))
              /\ y3 = Slot(m, k, 4) \o Slot(m, k, 5) /\ y4 = Slot(m, k, 5) /\ y5 = <<>>
        OBVIOUS
    <2>4. Left(m, k, 0) = CASE 0 = 0 -> y [] 0 = 1 -> x [] 0 = 2 -> y2 [] 0 = 3 -> y3 [] 0 = 4 -> y4
                            [] OTHER -> y5
        BY <2>1, <2>3, Zenon DEF Left
    <2>5. Left(m, k, 0) = y
        BY <2>4
    <2>6. QED
        BY <2>2, <2>3, <2>5
<1>3. Left(m, k, 1) = Slot(m, k, 2) \o Left(m, k, 2)
    <2>1. PICK x : x = Slot(m, k, 3) \o (Slot(m, k, 4) \o Slot(m, k, 5))
        OBVIOUS
    <2>2. Left(m, k, 2) = x
        BY <2>1 DEF Left
    <2>3. Left(m, k, 1) = Slot(m, k, 2) \o x
        BY <2>1 DEF Left
    <2>4. QED
        BY <2>2, <2>3
<1>4. Left(m, k, 2) = Slot(m, k, 3) \o Left(m, k, 3)
    BY DEF Left
<1>5. Left(m, k, 3) = Slot(m, k, 4) \o Left(m, k, 4)
    BY DEF Left
<1>6. Left(m, k, 4) = Slot(m, k, 5) \o Left(m, k, 5)
    <2>1. PICK S : S = {EventAt(m, k, 5)}
        OBVIOUS
    <2>2. <<EventAt(m, k, 5)>> \in Seq(S)
        BY <2>1
    <2>3. Slot(m, k, 5) \in Seq(S)
        BY <2>2, WhenType DEF Slot
    <2>4. PICK x : x = Slot(m, k, 5)
        OBVIOUS
    <2>5. x \o <<>> = x
        BY <2>3, <2>4, ConcatEmptySeq
    <2>6. Left(m, k, 4) = x
        BY <2>4 DEF Left
    <2>7. QED
        BY <1>1, <2>4, <2>5, <2>6
<1>7. s = 0 \/ s = 1 \/ s = 2 \/ s = 3 \/ s = 4
    OBVIOUS
<1>8. 0 + 1 = 1 /\ 1 + 1 = 2 /\ 2 + 1 = 3 /\ 3 + 1 = 4 /\ 4 + 1 = 5
    OBVIOUS
<1>9. QED
    BY <1>1, <1>2, <1>3, <1>4, <1>5, <1>6, <1>7, <1>8

LEMMA LeftType ==
    ASSUME NEW m, NEW k \in 1 .. Size(m), Size(m) \in Nat
    PROVE  /\ \A j \in 1 .. 5 : Slot(m, k, j) \in Seq(EventSet(m))
           /\ \A s \in 0 .. 5 : Left(m, k, s) \in Seq(EventSet(m))
<1>1. ASSUME NEW j \in 1 .. 5 PROVE Slot(m, k, j) \in Seq(EventSet(m))
    <2>1. EventAt(m, k, j) \in EventSet(m)
        BY DEF EventSet
    <2>2. <<EventAt(m, k, j)>> \in Seq(EventSet(m))
        BY <2>1
    <2>3. QED
        BY <2>2, WhenType DEF Slot
<1> DEFINE S == EventSet(m)
<1> HIDE DEF S
<1>2. Left(m, k, 5) \in Seq(S)
    BY EmptySeq DEF Left
<1>3. ASSUME NEW s \in 0 .. 4, Left(m, k, s + 1) \in Seq(S) PROVE Left(m, k, s) \in Seq(S)
    <2>1. Slot(m, k, s + 1) \in Seq(S)
        BY <1>1 DEF S
    <2>2. Left(m, k, s) = Slot(m, k, s + 1) \o Left(m, k, s + 1)
        BY LeftStep
    <2>3. QED
        BY <1>3, <2>1, <2>2, ConcatProperties
<1>4. Left(m, k, 4) \in Seq(S)
    BY <1>2, <1>3
<1>5. Left(m, k, 3) \in Seq(S)
    BY <1>3, <1>4
<1>6. Left(m, k, 2) \in Seq(S)
    BY <1>3, <1>5
<1>7. Left(m, k, 1) \in Seq(S)
    BY <1>3, <1>6
<1>8. Left(m, k, 0) \in Seq(S)
    BY <1>3, <1>7
<1>9. ASSUME NEW s \in 0 .. 5 PROVE Left(m, k, s) \in Seq(S)
    <2>1. s = 0 \/ s = 1 \/ s = 2 \/ s = 3 \/ s = 4 \/ s = 5
        OBVIOUS
    <2>2. QED
        BY <1>2, <1>4, <1>5, <1>6, <1>7, <1>8, <2>1
<1>10. QED
    BY <1>1, <1>9 DEF S

LEMMA ItemEventsType ==
    ASSUME NEW m, IsMessage(m)
    PROVE  /\ Size(m) \in Nat /\ DOMAIN m.items = 1 .. Size(m)
           /\ ItemEvents(m) \in Seq(Seq(EventSet(m))) /\ Len(ItemEvents(m)) = Size(m)
           /\ \A k \in 1 .. Size(m) : ItemEvents(m)[k] = Left(m, k, 0)
           /\ m.ending \in Seq(EventSet(m))
<1>1. Size(m) \in Nat /\ DOMAIN m.items = 1 .. Size(m)
    BY DEF IsMessage, Size
<1>2. ASSUME NEW k \in 1 .. Size(m) PROVE ItemEvents(m)[k] = Left(m, k, 0)
    <2>1. ItemEvents(m)[k] = EventsOf(m.items, k, m.text, m.call)
        BY <1>1 DEF ItemEvents
    <2>2. QED
        BY <2>1, EventsInPlaces
<1> DEFINE U == Seq(EventSet(m))
<1>3. \A k \in 1 .. Size(m) : ItemEvents(m)[k] \in U
    <2>1. \A k \in 1 .. Size(m) : Left(m, k, 0) \in U
        BY <1>1, LeftType
    <2>2. QED
        BY <1>2, <2>1
<1> HIDE DEF U
<1>4. ItemEvents(m) \in Seq(U) /\ Len(ItemEvents(m)) = Size(m)
    <2> DEFINE f == ItemEvents(m)
    <2>1. f = [i \in 1 .. Size(m) |-> f[i]]
        BY <1>1 DEF ItemEvents
    <2> HIDE DEF f
    <2>2. f \in Seq(U) /\ Len(f) = Size(m)
        <3>1. \A k \in 1 .. Size(m) : f[k] \in U
            BY <1>3 DEF f
        <3>2. QED
            BY <1>1, <2>1, <3>1
    <2>3. QED
        BY <2>2 DEF f
<1>5. m.ending \in Seq(EventSet(m))
    <2>1. CASE m.ending = <<>>
        BY <2>1, EmptySeq
    <2>2. CASE m.ending = <<m.ending[1]>>
        <3> DEFINE x == m.ending[1]
        <3>1. m.ending = <<x>>
            BY <2>2
        <3> HIDE DEF x
        <3>2. 1 \in DOMAIN m.ending
            BY <3>1
        <3>3. x \in EventSet(m)
            BY <3>2 DEF x, EventSet
        <3>4. QED
            BY <3>1, <3>3
    <2>3. QED
        BY <2>1, <2>2 DEF IsMessage
<1>6. QED
    BY <1>1, <1>2, <1>4, <1>5 DEF U

\* The events of the items from k on, item k first.
LEMMA FromStep ==
    ASSUME NEW m, IsMessage(m)
    PROVE  /\ From(m, 1) = Stream(m)
           /\ From(m, Size(m) + 1) = m.ending
           /\ \A k \in 1 .. Size(m) : From(m, k) = Left(m, k, 0) \o From(m, k + 1)
           /\ \A k \in 1 .. Size(m) + 1 : From(m, k) \in Seq(EventSet(m))
<1> DEFINE S == EventSet(m)
           es == ItemEvents(m)
           N == Size(m)
<1>1. /\ N \in Nat /\ es \in Seq(Seq(S)) /\ Len(es) = N /\ m.ending \in Seq(S)
      /\ \A k \in 1 .. N : es[k] = Left(m, k, 0) /\ es[k] \in Seq(S)
    <2>1. /\ N \in Nat /\ es \in Seq(Seq(S)) /\ Len(es) = N /\ m.ending \in Seq(S)
          /\ \A k \in 1 .. N : es[k] = Left(m, k, 0)
        BY ItemEventsType
    <2> HIDE DEF S, es, N
    <2>2. \A k \in 1 .. N : es[k] \in Seq(S)
        BY <2>1
    <2>3. QED
        BY <2>1, <2>2
<1>2. \A k : From(m, k) = Flatten(SubSeq(es, k, N)) \o m.ending
    BY DEF From
<1>3. From(m, 1) = Stream(m)
    <2>1. SubSeq(es, 1, N) = es
        <3> HIDE DEF S, es, N
        <3>1. QED
            BY <1>1, SubSeqFull
    <2>2. Stream(m) = Flatten(es) \o m.ending
        BY DEF Stream, ItemEvents
    <2> HIDE DEF es, N
    <2>3. QED
        BY <1>2, <2>1, <2>2
<1> HIDE DEF S, es, N
<1>4. From(m, N + 1) = m.ending
    <2>1. SubSeq(es, N + 1, N) = <<>>
        BY <1>1, SubSeqEmpty
    <2>2. Flatten(SubSeq(es, N + 1, N)) = <<>>
        BY <2>1, FlattenNone
    <2>3. <<>> \o m.ending = m.ending
        BY <1>1, ConcatEmptySeq
    <2>4. QED
        BY <1>2, <2>2, <2>3
<1>5. ASSUME NEW k \in 1 .. N + 1 PROVE Flatten(SubSeq(es, k, N)) \in Seq(S)
    <2> DEFINE U == Seq(S)
    <2>1. \A i \in k .. N : es[i] \in U
        BY <1>1
    <2>2. es \in Seq(U)
        BY <1>1
    <2> HIDE DEF U
    <2>3. k \in Int /\ N \in Int
        BY <1>1
    <2>4. SubSeq(es, k, N) \in Seq(U)
        BY <2>1, <2>3, SubSeqProperties
    <2>5. QED
        BY <2>4, JoinedType DEF U
<1>6. ASSUME NEW k \in 1 .. N + 1 PROVE From(m, k) \in Seq(S)
    <2>1. PICK x : x = Flatten(SubSeq(es, k, N))
        OBVIOUS
    <2>2. x \in Seq(S) /\ From(m, k) = x \o m.ending
        BY <1>2, <1>5, <2>1
    <2>3. QED
        BY <1>1, <2>2, ConcatProperties
<1>7. ASSUME NEW k \in 1 .. N PROVE From(m, k) = Left(m, k, 0) \o From(m, k + 1)
    <2>1. k + 1 \in 1 .. N + 1
        BY <1>1
    <2>2. SubSeq(es, k, N) = <<es[k]>> \o SubSeq(es, k + 1, N)
        <3> DEFINE U == Seq(S)
        <3>1. es \in Seq(U)
            BY <1>1
        <3> HIDE DEF U
        <3>2. k \in 1 .. Len(es) /\ N \in k .. Len(es)
            BY <1>1
        <3>3. QED
            BY <3>1, <3>2, SubSeqRecursiveFirst
    <2>3. <<es[k]>> \in Seq(Seq(S)) /\ SubSeq(es, k + 1, N) \in Seq(Seq(S))
        <3> DEFINE U == Seq(S)
        <3>1. es[k] \in U /\ \A i \in k + 1 .. N : es[i] \in U
            BY <1>1
        <3> HIDE DEF U
        <3>2. k + 1 \in Int /\ N \in Int
            BY <1>1
        <3>3. SubSeq(es, k + 1, N) \in Seq(U) /\ <<es[k]>> \in Seq(U)
            BY <3>1, <3>2, SubSeqProperties
        <3>4. QED
            BY <3>3 DEF U
    <2>4. Flatten(SubSeq(es, k, N)) = Flatten(<<es[k]>>) \o Flatten(SubSeq(es, k + 1, N))
        BY <2>2, <2>3, FlattenConcat
    <2>5. Flatten(<<es[k]>>) = es[k]
        BY <1>1, FlattenOne
    <2>6. (es[k] \o Flatten(SubSeq(es, k + 1, N))) \o m.ending
            = es[k] \o (Flatten(SubSeq(es, k + 1, N)) \o m.ending)
        <3>1. Flatten(SubSeq(es, k + 1, N)) \in Seq(S)
            BY <1>5, <2>1
        <3>2. es[k] \in Seq(S)
            BY <1>1
        <3>3. PICK x, y, z : x = es[k] /\ y = Flatten(SubSeq(es, k + 1, N)) /\ z = m.ending
            OBVIOUS
        <3>4. x \in Seq(S) /\ y \in Seq(S) /\ z \in Seq(S)
            BY <1>1, <3>1, <3>2, <3>3
        <3>5. (x \o y) \o z = x \o (y \o z)
            BY <3>4, ConcatAssociative
        <3>6. QED
            BY <3>3, <3>5
    <2>7. es[k] = Left(m, k, 0)
        BY <1>1
    <2>8. QED
        BY <1>2, <2>4, <2>5, <2>6, <2>7
<1>8. QED
    BY <1>3, <1>4, <1>6, <1>7 DEF S, N
-----------------------------------------------------------------------------
(* The ways from one place to the next. *)

LEMMA StandsFirst ==
    ASSUME NEW m, IsMessage(m)
    PROVE  Stands(m, Stream(m), 1, 0)
<1>1. Size(m) \in Nat
    BY ItemEventsType
<1>2. CASE Size(m) = 0
    BY <1>1, <1>2, FromStep DEF Stands
<1>3. CASE Size(m) # 0
    <2>1. 1 \in 1 .. Size(m) /\ 1 \in 1 .. Size(m) + 1 /\ 1 # Size(m) + 1
        BY <1>1, <1>3
    <2>2. QED
        BY <2>1, FromStep DEF Stands
<1>4. QED
    BY <1>2, <1>3

\* No event stands at the next place.
LEMMA StandsPast ==
    ASSUME NEW m, IsMessage(m), NEW r, NEW k \in 1 .. Size(m), NEW s \in 0 .. 4,
           Stands(m, r, k, s), ~Present(m, k, s + 1)
    PROVE  Stands(m, r, k, s + 1)
<1>1. Size(m) \in Nat
    BY ItemEventsType
<1>2. k # Size(m) + 1 /\ k \in 1 .. Size(m) + 1 /\ s + 1 \in 0 .. 5
    BY <1>1
<1>3. Slot(m, k, s + 1) = <<>>
    BY DEF Slot, Present, When
<1>4. Left(m, k, s + 1) \in Seq(EventSet(m))
    BY <1>1, <1>2, LeftType
<1>5. Left(m, k, s) = Left(m, k, s + 1)
    <2>1. PICK x : x = Left(m, k, s + 1)
        OBVIOUS
    <2>2. <<>> \o x = x
        BY <1>4, <2>1, ConcatEmptySeq
    <2>3. Left(m, k, s) = Slot(m, k, s + 1) \o x
        BY <2>1, LeftStep
    <2>4. QED
        BY <1>3, <2>1, <2>2, <2>3
<1>6. QED
    BY <1>2, <1>5 DEF Stands

\* Item k is at its end.
LEMMA StandsNext ==
    ASSUME NEW m, IsMessage(m), NEW r, NEW k \in 1 .. Size(m), Stands(m, r, k, 5)
    PROVE  Stands(m, r, k + 1, 0)
<1>1. Size(m) \in Nat
    BY ItemEventsType
<1>2. k # Size(m) + 1 /\ k + 1 \in 1 .. Size(m) + 1
    BY <1>1
<1>3. From(m, k + 1) \in Seq(EventSet(m))
    BY <1>2, FromStep
<1>4. Left(m, k, 5) = <<>>
    BY DEF Left
<1>5. r = From(m, k + 1)
    BY <1>2, <1>3, <1>4, ConcatEmptySeq DEF Stands
<1>6. CASE k + 1 = Size(m) + 1
    BY <1>2, <1>5, <1>6, FromStep DEF Stands
<1>7. CASE k + 1 # Size(m) + 1
    <2>1. k + 1 \in 1 .. Size(m)
        BY <1>1, <1>2, <1>7
    <2>2. QED
        BY <1>2, <1>5, <1>7, <2>1, FromStep DEF Stands
<1>8. QED
    BY <1>6, <1>7

\* The event at the next place is read.
LEMMA StandsRead ==
    ASSUME NEW m, IsMessage(m), NEW r, NEW k \in 1 .. Size(m), NEW s \in 0 .. 4,
           Stands(m, r, k, s), Present(m, k, s + 1)
    PROVE  r # <<>> /\ Head(r) = EventAt(m, k, s + 1) /\ Stands(m, Tail(r), k, s + 1)
<1> DEFINE S == EventSet(m)
           x == EventAt(m, k, s + 1)
           t == Left(m, k, s + 1) \o From(m, k + 1)
<1>1. Size(m) \in Nat
    BY ItemEventsType
<1>2. k # Size(m) + 1 /\ k \in 1 .. Size(m) + 1 /\ s + 1 \in 0 .. 5 /\ k + 1 \in 1 .. Size(m) + 1
    BY <1>1
<1>3. Slot(m, k, s + 1) = <<x>>
    BY DEF Slot, Present, When
<1>4. /\ Left(m, k, s + 1) \in Seq(S) /\ From(m, k + 1) \in Seq(S) /\ <<x>> \in Seq(S)
    <2>1. s + 1 \in 1 .. 5
        OBVIOUS
    <2>2. QED
        BY <1>1, <1>2, <1>3, <2>1, LeftType, FromStep
<1>5. r = (<<x>> \o Left(m, k, s + 1)) \o From(m, k + 1)
    BY <1>2, <1>3, LeftStep DEF Stands
<1>6. r = <<x>> \o t /\ t \in Seq(S)
    <2> HIDE DEF S, x
    <2>1. QED
        BY <1>4, <1>5, ConcatAssociative, ConcatProperties
<1>7. r # <<>> /\ Head(r) = x /\ Tail(r) = t
    <2> HIDE DEF S, x, t
    <2>1. QED
        BY <1>4, <1>6
<1>8. QED
    BY <1>2, <1>7 DEF Stands

\* Of the places that fit one is the last: no empty place follows, and no end of an item.
LEMMA Settles ==
    ASSUME NEW N \in Nat, NEW Z, Z \subseteq (1 .. N + 1) \X (0 .. 5), Z # {}
    PROVE  \E k \in 1 .. N + 1, s \in 0 .. 5 :
              /\ <<k, s>> \in Z
              /\ k # N + 1 /\ s # 5 => <<k, s + 1>> \notin Z
              /\ k # N + 1 /\ s = 5 => <<k + 1, 0>> \notin Z
<1> DEFINE D(k, s) == 6 * (N + 1 - k) + (5 - s)
           S == {D(z[1], z[2]) : z \in Z}
<1>1. S # {}
    OBVIOUS
<1>2. S \subseteq Nat
    <2>1. \A k \in 1 .. N + 1, s \in 0 .. 5 : D(k, s) \in Nat
        OBVIOUS
    <2>2. \A z \in Z : z[1] \in 1 .. N + 1 /\ z[2] \in 0 .. 5
        OBVIOUS
    <2> HIDE DEF D
    <2>3. QED
        BY <2>1, <2>2
<1>3. PICK t \in S : \A u \in S : t <= u
    <2> HIDE DEF S
    <2>1. QED
        BY <1>1, <1>2, LeastNumber
<1>4. PICK k \in 1 .. N + 1, s \in 0 .. 5 : <<k, s>> \in Z /\ t = D(k, s)
    <2> HIDE DEF D
    <2>1. PICK z \in Z : t = D(z[1], z[2])
        BY <1>3
    <2>2. z[1] \in 1 .. N + 1 /\ z[2] \in 0 .. 5 /\ z = <<z[1], z[2]>>
        BY <2>1
    <2>3. QED
        BY <2>1, <2>2
<1>5. ASSUME NEW a, NEW b, <<a, b>> \in Z PROVE D(k, s) <= D(a, b)
    <2> HIDE DEF D
    <2>1. D(<<a, b>>[1], <<a, b>>[2]) \in S
        BY <1>5
    <2>2. QED
        BY <1>3, <1>4, <2>1
<1>6. k # N + 1 /\ s # 5 => <<k, s + 1>> \notin Z
    <2>1. ~(D(k, s) <= D(k, s + 1))
        OBVIOUS
    <2> HIDE DEF D
    <2>2. QED
        BY <1>5, <2>1
<1>7. k # N + 1 /\ s = 5 => <<k + 1, 0>> \notin Z
    <2>1. s = 5 => ~(D(k, s) <= D(k + 1, 0))
        OBVIOUS
    <2> HIDE DEF D
    <2>2. QED
        BY <1>5, <2>1
<1>8. QED
    BY <1>4, <1>6, <1>7
-----------------------------------------------------------------------------
(* What of a message has been sent once s places of item k are past.       *)

Listed(m, kind) == [i \in DOMAIN m.items |-> IF m.items[i] = kind THEN <<Pieces(i)>> ELSE <<>>]
Earlier(m, kind, k) == Joined(Listed(m, kind))[k - 1]
Words(m, k) == Flatten(Earlier(m, "text", k))

LEMMA PiecesType ==
    ASSUME NEW k \in Nat
    PROVE  /\ Pieces(k) \in Seq(Nat) /\ Pieces(k) # <<>> /\ Len(Pieces(k)) = 2
           /\ \A j \in {1, 2} : <<Pieces(k)[j]>> \in Seq(Nat) /\ <<Pieces(k)[j]>> # <<>>
           /\ <<Pieces(k)[1]>> \o <<Pieces(k)[2]>> = Pieces(k)
<1> DEFINE a == 10 * k + 1
           b == 10 * k + 2
<1>1. a \in Nat /\ b \in Nat
    OBVIOUS
<1>2. Pieces(k) = <<a, b>>
    BY DEF Pieces
<1> HIDE DEF a, b
<1>3. PICK p, x, y : p = Pieces(k) /\ x = <<a>> /\ y = <<b>>
    OBVIOUS
<1>4. p \in Seq(Nat) /\ Len(p) = 2 /\ p # <<>> /\ p[1] = a /\ p[2] = b
    BY <1>1, <1>2, <1>3
<1>5. x \in Seq(Nat) /\ y \in Seq(Nat) /\ x # <<>> /\ y # <<>>
    BY <1>1, <1>3
<1>6. \A j \in {1, 2} : <<p[j]>> = x \/ <<p[j]>> = y
    BY <1>3, <1>4
<1>7. <<p[1]>> \o <<p[2]>> = p
    <2>1. Append(x, b) = x \o <<b>>
        BY <1>1, <1>5, AppendIsConcat
    <2>2. Append(<<a>>, b) = <<a, b>>
        BY <1>1, PairIsAppend
    <2>3. QED
        BY <1>2, <1>3, <1>4, <2>1, <2>2
<1>8. QED
    BY <1>3, <1>4, <1>5, <1>6, <1>7

LEMMA ListedType ==
    ASSUME NEW m, IsMessage(m), NEW kind
    PROVE  /\ Size(m) \in Nat /\ DOMAIN m.items = 1 .. Size(m)
           /\ Listed(m, kind) \in Seq(Seq(Seq(Nat))) /\ Len(Listed(m, kind)) = Size(m)
           /\ \A k \in 1 .. Size(m) :
                Listed(m, kind)[k] = IF m.items[k] = kind THEN <<Pieces(k)>> ELSE <<>>
<1> DEFINE U == Seq(Nat)
           V == Seq(U)
           f == Listed(m, kind)
<1>1. Size(m) \in Nat /\ DOMAIN m.items = 1 .. Size(m)
    BY ItemEventsType
<1>2. f = [i \in 1 .. Size(m) |-> IF m.items[i] = kind THEN <<Pieces(i)>> ELSE <<>>]
    BY <1>1 DEF Listed
<1>3. ASSUME NEW i \in 1 .. Size(m) PROVE <<Pieces(i)>> \in V /\ <<>> \in V
    <2>1. i \in Nat
        BY <1>1
    <2>2. Pieces(i) \in U
        BY <2>1, PiecesType
    <2> HIDE DEF U
    <2>3. <<Pieces(i)>> \in Seq(U) /\ <<>> \in Seq(U)
        BY <2>2
    <2>4. QED
        BY <2>3
<1> HIDE DEF U, V, f
<1>4. \A i \in 1 .. Size(m) : f[i] = IF m.items[i] = kind THEN <<Pieces(i)>> ELSE <<>>
    BY <1>2
<1>5. \A i \in 1 .. Size(m) : f[i] \in V
    BY <1>3, <1>4
<1>6. f \in Seq(V) /\ Len(f) = Size(m)
    <2>1. f = [i \in 1 .. Size(m) |-> f[i]]
        BY <1>2
    <2>2. QED
        BY <1>1, <1>5, <2>1
<1>7. QED
    BY <1>1, <1>4, <1>6 DEF f, U, V

LEMMA EarlierStep ==
    ASSUME NEW m, IsMessage(m), NEW kind
    PROVE  /\ \A k \in 1 .. Size(m) + 1 : Earlier(m, kind, k) \in Seq(Seq(Nat))
           /\ Earlier(m, kind, 1) = <<>>
           /\ \A k \in 1 .. Size(m) :
                /\ m.items[k] = kind => Earlier(m, kind, k + 1) = Earlier(m, kind, k) \o <<Pieces(k)>>
                /\ m.items[k] # kind => Earlier(m, kind, k + 1) = Earlier(m, kind, k)
           /\ Earlier(m, kind, Size(m) + 1) = Flatten(Listed(m, kind))
<1> DEFINE ss == Listed(m, kind)
           N == Size(m)
           U == Seq(Nat)
<1>1. /\ N \in Nat /\ ss \in Seq(Seq(U)) /\ Len(ss) = N
      /\ \A k \in 1 .. N : ss[k] = IF m.items[k] = kind THEN <<Pieces(k)>> ELSE <<>>
    BY ListedType
<1>2. \A k : Earlier(m, kind, k) = Joined(ss)[k - 1]
    BY DEF Earlier
<1> HIDE DEF ss, N, U
<1>3. DOMAIN ss = 1 .. N
    BY <1>1, LenProperties
<1>4. ASSUME NEW k \in 1 .. N + 1 PROVE Earlier(m, kind, k) \in Seq(U)
    <2>1. k - 1 \in 0 .. Len(ss)
        BY <1>1
    <2>2. QED
        BY <1>1, <1>2, <2>1, JoinedType
<1>5. Earlier(m, kind, 1) = <<>>
    <2>1. Joined(ss)[0] = <<>>
        BY <1>1, JoinedStep
    <2>2. QED
        BY <1>2, <2>1
<1>6. ASSUME NEW k \in 1 .. N
      PROVE  Earlier(m, kind, k + 1) = Earlier(m, kind, k) \o ss[k]
    <2>1. Joined(ss)[k] = Joined(ss)[k - 1] \o ss[k]
        BY <1>1, <1>3, JoinedStep
    <2>2. (k + 1) - 1 = k
        OBVIOUS
    <2>3. QED
        BY <1>2, <2>1, <2>2
<1>7. ASSUME NEW k \in 1 .. N, m.items[k] # kind
      PROVE  Earlier(m, kind, k + 1) = Earlier(m, kind, k)
    <2>1. Earlier(m, kind, k) \in Seq(U)
        BY <1>1, <1>4
    <2>2. QED
        BY <1>1, <1>6, <1>7, <2>1, ConcatEmptySeq
<1>8. Earlier(m, kind, N + 1) = Flatten(ss)
    <2>1. (N + 1) - 1 = N
        BY <1>1
    <2>2. QED
        BY <1>1, <1>2, <2>1 DEF Flatten
<1>9. QED
    BY <1>1, <1>4, <1>5, <1>6, <1>7, <1>8 DEF ss, N, U

\* A message without items of a kind lists none of them.
LEMMA ListedNone ==
    ASSUME NEW m, IsMessage(m), NEW kind, ~Has(m, kind)
    PROVE  Flatten(Listed(m, kind)) = <<>>
<1>1. Size(m) \in Nat /\ \A k \in 1 .. Size(m) : m.items[k] # kind
    BY ItemEventsType DEF Has
<1> DEFINE Good == {n \in Nat : n <= Size(m) => Earlier(m, kind, n + 1) = <<>>}
<1>2. 0 \in Good
    BY EarlierStep
<1>3. ASSUME NEW n \in 0 .. Size(m), n \in Good, n # Size(m) PROVE n + 1 \in Good
    <2>1. n + 1 \in 1 .. Size(m) /\ n <= Size(m) /\ n + 1 \in Nat
        BY <1>1, <1>3
    <2>2. Earlier(m, kind, n + 1) = <<>>
        BY <1>3, <2>1
    <2>3. Earlier(m, kind, (n + 1) + 1) = Earlier(m, kind, n + 1)
        BY <1>1, <2>1, EarlierStep
    <2>4. QED
        BY <2>1, <2>2, <2>3
<1>4. 0 .. Size(m) \subseteq Good
    <2> HIDE DEF Good
    <2>1. QED
        BY <1>1, <1>2, <1>3, Inductive
<1>5. Earlier(m, kind, Size(m) + 1) = <<>>
    BY <1>1, <1>4
<1>6. QED
    BY <1>5, EarlierStep

LEMMA WordsStep ==
    ASSUME NEW m, IsMessage(m)
    PROVE  /\ \A k \in 1 .. Size(m) + 1 : Words(m, k) \in Seq(Nat)
           /\ Words(m, 1) = <<>>
           /\ \A k \in 1 .. Size(m) :
                /\ m.items[k] = "text" => Words(m, k + 1) = Words(m, k) \o Pieces(k)
                /\ m.items[k] # "text" => Words(m, k + 1) = Words(m, k)
           /\ Words(m, Size(m) + 1) = Flatten(Flatten(Listed(m, "text")))
<1>1. Size(m) \in Nat
    BY ItemEventsType
<1>2. \A k \in 1 .. Size(m) + 1 : Words(m, k) \in Seq(Nat)
    BY EarlierStep, JoinedType DEF Words
<1>3. Words(m, 1) = <<>>
    BY EarlierStep, FlattenNone DEF Words
<1>4. ASSUME NEW k \in 1 .. Size(m), m.items[k] = "text"
      PROVE  Words(m, k + 1) = Words(m, k) \o Pieces(k)
    <2>1. Pieces(k) \in Seq(Nat)
        <3>1. k \in Nat
            BY <1>1
        <3>2. QED
            BY <3>1, PiecesType
    <2> DEFINE U == Seq(Nat)
               a == Earlier(m, "text", k)
               b == <<Pieces(k)>>
    <2>2. a \in Seq(U)
        <3>1. k \in 1 .. Size(m) + 1
            BY <1>1
        <3>2. QED
            BY <3>1, EarlierStep
    <2>3. b \in Seq(U)
        <3>1. Pieces(k) \in U
            BY <2>1
        <3> HIDE DEF U
        <3>2. QED
            BY <3>1
    <2>4. Flatten(a \o b) = Flatten(a) \o Flatten(b)
        BY <2>2, <2>3, FlattenConcat
    <2>5. Flatten(b) = Pieces(k)
        BY <2>1, FlattenOne
    <2>6. Earlier(m, "text", k + 1) = a \o b
        BY <1>4, EarlierStep
    <2>7. QED
        BY <2>4, <2>5, <2>6 DEF Words
<1>5. ASSUME NEW k \in 1 .. Size(m), m.items[k] # "text"
      PROVE  Words(m, k + 1) = Words(m, k)
    BY <1>5, EarlierStep DEF Words
<1>6. Words(m, Size(m) + 1) = Flatten(Flatten(Listed(m, "text")))
    BY EarlierStep DEF Words
<1>7. QED
    BY <1>2, <1>3, <1>4, <1>5, <1>6
-----------------------------------------------------------------------------
(* Text, by the way it is sent. *)

Got(w, k, s) ==
    CASE w = "deltas" /\ s = 2 -> <<Pieces(k)[1]>>
      [] w = "deltas" /\ s > 2 -> Pieces(k)
      [] w = "whole" /\ s > 3 -> Pieces(k)
      [] w = "item" /\ s > 4 -> Pieces(k)
      [] OTHER -> <<>>
\* s > 0 comes first: no item has the number after the last.
InText(m, w, k, s) == IF s > 0 /\ m.items[k] = "text" THEN Got(w, k, s) ELSE <<>>
TextSoFar(m, w, k, s) == IF w \in m.text THEN Words(m, k) \o InText(m, w, k, s) ELSE <<>>

LEMMA EventFields ==
    ASSUME NEW type, NEW item, NEW key, NEW id, NEW text
    PROVE  LET e == Event(type, item, key, id, text)
           IN  /\ e.type = type /\ e.item = item /\ e.key = key /\ e.id = id /\ e.text = text
               /\ e.usage = "absent"
BY DEF Event, Blank

LEMMA GotStep ==
    ASSUME NEW k \in Nat, NEW s \in 0 .. 4, NEW w \in Forms
    PROVE  /\ Got(w, k, s) \in Seq(Nat) /\ Got(w, k, 0) = <<>> /\ Got(w, k, 5) = Pieces(k)
           /\ Way(s + 1) # w => Got(w, k, s + 1) = Got(w, k, s)
           /\ Way(s + 1) = w => /\ TextEventAt(k, s + 1).text \in Seq(Nat)
                                /\ TextEventAt(k, s + 1).text # <<>>
                                /\ Got(w, k, s + 1) = Got(w, k, s) \o TextEventAt(k, s + 1).text
<1>1. PICK p, a, b, z : /\ p = Pieces(k) /\ a = <<Pieces(k)[1]>> /\ b = <<Pieces(k)[2]>>
                        /\ z = <<>>
    OBVIOUS
<1>2. /\ p \in Seq(Nat) /\ a \in Seq(Nat) /\ b \in Seq(Nat) /\ z \in Seq(Nat)
      /\ p # z /\ a # z /\ b # z /\ a \o b = p
    BY <1>1, PiecesType, EmptySeq
<1>3. \A x \in Seq(Nat) : z \o x = x /\ x \o z = x
    BY <1>1, ConcatEmptySeq
<1>4. PICK x : x = s
    OBVIOUS
<1>5. x = 0 \/ x = 1 \/ x = 2 \/ x = 3 \/ x = 4
    BY <1>4
<1>6. /\ TextEventAt(k, 2).text = a /\ TextEventAt(k, 3).text = b
      /\ TextEventAt(k, 4).text = p /\ TextEventAt(k, 5).text = p
    <2>1. 2 - 1 = 1 /\ 3 - 1 = 2
        OBVIOUS
    <2>2. \A type, item, text : Event(type, item, NoId, NoId, text).text = text
        BY DEF Event, Blank
    <2>3. TextEventAt(k, 2) = Event("response.output_text.delta", "none", NoId, NoId, a)
        BY <1>1, <2>1 DEF TextEventAt
    <2>4. TextEventAt(k, 3) = Event("response.output_text.delta", "none", NoId, NoId, b)
        BY <1>1, <2>1 DEF TextEventAt
    <2>5. TextEventAt(k, 4) = Event("response.output_text.done", "none", NoId, NoId, p)
        BY <1>1 DEF TextEventAt
    <2>6. TextEventAt(k, 5) = Event("response.output_item.done", "message", NoId, NoId, p)
        BY <1>1 DEF TextEventAt
    <2>7. QED
        BY <2>2, <2>3, <2>4, <2>5, <2>6
<1>7. /\ Way(1) = "added" /\ Way(2) = "deltas" /\ Way(3) = "deltas" /\ Way(4) = "whole"
      /\ Way(5) = "item"
    BY DEF Way
<1>8. 0 + 1 = 1 /\ 1 + 1 = 2 /\ 2 + 1 = 3 /\ 3 + 1 = 4 /\ 4 + 1 = 5
    OBVIOUS
<1>9. CASE w = "deltas"
    <2>1. /\ Got(w, k, 0) = z /\ Got(w, k, 1) = z /\ Got(w, k, 2) = a /\ Got(w, k, 3) = p
          /\ Got(w, k, 4) = p /\ Got(w, k, 5) = p
        BY <1>1, <1>9 DEF Got
    <2>2. z \o a = a
        BY <1>2, <1>3
    <2>3. QED
        BY <1>1, <1>2, <1>4, <1>5, <1>6, <1>7, <1>8, <1>9, <2>1, <2>2
<1>10. CASE w = "whole"
    <2>1. /\ Got(w, k, 0) = z /\ Got(w, k, 1) = z /\ Got(w, k, 2) = z /\ Got(w, k, 3) = z
          /\ Got(w, k, 4) = p /\ Got(w, k, 5) = p
        BY <1>1, <1>10 DEF Got
    <2>2. z \o p = p
        BY <1>2, <1>3
    <2>3. QED
        BY <1>1, <1>2, <1>4, <1>5, <1>6, <1>7, <1>8, <1>10, <2>1, <2>2
<1>11. CASE w = "item"
    <2>1. /\ Got(w, k, 0) = z /\ Got(w, k, 1) = z /\ Got(w, k, 2) = z /\ Got(w, k, 3) = z
          /\ Got(w, k, 4) = z /\ Got(w, k, 5) = p
        BY <1>1, <1>11 DEF Got
    <2>2. z \o p = p
        BY <1>2, <1>3
    <2>3. QED
        BY <1>1, <1>2, <1>4, <1>5, <1>6, <1>7, <1>8, <1>11, <2>1, <2>2
<1>12. QED
    BY <1>9, <1>10, <1>11 DEF Forms

LEMMA TextType ==
    ASSUME NEW m, IsMessage(m), NEW w \in Forms, NEW k \in 1 .. Size(m) + 1, NEW s \in 0 .. 4
    PROVE  TextSoFar(m, w, k, s) \in Seq(Nat)
<1>1. Words(m, k) \in Seq(Nat) /\ Size(m) \in Nat
    BY WordsStep, ItemEventsType
<1>2. Got(w, k, s) \in Seq(Nat) /\ <<>> \in Seq(Nat)
    <2>1. k \in Nat
        BY <1>1
    <2>2. QED
        BY <2>1, GotStep, EmptySeq
<1>3. InText(m, w, k, s) \in Seq(Nat)
    BY <1>2 DEF InText
<1>4. QED
    BY <1>1, <1>2, <1>3, ConcatProperties DEF TextSoFar

LEMMA TextFirst ==
    ASSUME NEW m, IsMessage(m), NEW w
    PROVE  TextSoFar(m, w, 1, 0) = <<>>
<1>1. Words(m, 1) = <<>> /\ InText(m, w, 1, 0) = <<>>
    BY WordsStep DEF InText
<1>2. QED
    BY <1>1 DEF TextSoFar

\* The text that place s + 1 of item k adds to what way w has brought.
TextAt(m, w, k, s) ==
    IF m.items[k] = "text" /\ Way(s + 1) = w /\ Present(m, k, s + 1)
    THEN EventAt(m, k, s + 1).text ELSE <<>>

LEMMA TextStep ==
    ASSUME NEW m, IsMessage(m), NEW w \in Forms, NEW k \in 1 .. Size(m), NEW s \in 0 .. 4
    PROVE  /\ TextAt(m, w, k, s) \in Seq(Nat)
           /\ TextSoFar(m, w, k, s + 1) = TextSoFar(m, w, k, s) \o TextAt(m, w, k, s)
<1>1. k \in Nat /\ k \in 1 .. Size(m) + 1
    BY ItemEventsType
<1>2. TextSoFar(m, w, k, s) \in Seq(Nat) /\ <<>> \in Seq(Nat)
    BY <1>1, TextType, EmptySeq
<1>3. TextSoFar(m, w, k, s) \o <<>> = TextSoFar(m, w, k, s)
    BY <1>2, ConcatEmptySeq
<1>4. Words(m, k) \in Seq(Nat) /\ s + 1 > 0
    BY <1>1, WordsStep
<1>5. CASE m.items[k] # "text"
    <2>1. TextAt(m, w, k, s) = <<>>
        BY <1>5 DEF TextAt
    <2>2. InText(m, w, k, s + 1) = <<>> /\ InText(m, w, k, s) = <<>>
        BY <1>5 DEF InText
    <2>3. QED
        BY <1>2, <1>3, <2>1, <2>2 DEF TextSoFar
<1>6. CASE m.items[k] = "text" /\ w \notin m.text
    <2>1. TextAt(m, w, k, s) = <<>>
        BY <1>6 DEF TextAt, Present, WaysOf
    <2>2. QED
        BY <1>2, <1>3, <1>6, <2>1 DEF TextSoFar
<1>7. CASE m.items[k] = "text" /\ w \in m.text
    <2>1. InText(m, w, k, s + 1) = Got(w, k, s + 1)
        BY <1>4, <1>7 DEF InText
    <2>2. InText(m, w, k, s) = Got(w, k, s)
        <3>1. s = 0 => Got(w, k, s) = <<>>
            BY <1>1, GotStep
        <3>2. QED
            BY <1>7, <3>1 DEF InText
    <2>3. CASE Way(s + 1) # w
        <3>1. TextAt(m, w, k, s) = <<>>
            BY <2>3 DEF TextAt
        <3>2. Got(w, k, s + 1) = Got(w, k, s)
            BY <1>1, <2>3, GotStep
        <3>3. QED
            BY <1>2, <1>3, <2>1, <2>2, <3>1, <3>2 DEF TextSoFar
    <2>4. CASE Way(s + 1) = w
        <3>1. TextAt(m, w, k, s) = TextEventAt(k, s + 1).text
            BY <1>7, <2>4 DEF TextAt, EventAt, Present, WaysOf
        <3>2. PICK t : t = TextAt(m, w, k, s)
            OBVIOUS
        <3>3. t \in Seq(Nat) /\ Got(w, k, s) \in Seq(Nat) /\ Got(w, k, s + 1) = Got(w, k, s) \o t
            BY <1>1, <2>4, <3>1, <3>2, GotStep
        <3>4. (Words(m, k) \o Got(w, k, s)) \o t = Words(m, k) \o (Got(w, k, s) \o t)
            <4>1. Associated(Words(m, k), Got(w, k, s), t)
                BY <1>4, <3>3, Associates
            <4>2. QED
                BY <4>1 DEF Associated
        <3>5. QED
            BY <1>7, <2>1, <2>2, <3>2, <3>3, <3>4 DEF TextSoFar
    <2>5. QED
        BY <2>3, <2>4
<1>8. QED
    BY <1>5, <1>6, <1>7

LEMMA TextNext ==
    ASSUME NEW m, IsMessage(m), NEW w \in Forms, NEW k \in 1 .. Size(m)
    PROVE  TextSoFar(m, w, k + 1, 0) = TextSoFar(m, w, k, 5)
<1>1. k \in Nat /\ k \in 1 .. Size(m) + 1 /\ k + 1 \in 1 .. Size(m) + 1
    BY ItemEventsType
<1>2. Words(m, k) \in Seq(Nat) /\ Words(m, k + 1) \in Seq(Nat)
    BY <1>1, WordsStep
<1>3. Words(m, k) \o <<>> = Words(m, k) /\ Words(m, k + 1) \o <<>> = Words(m, k + 1)
    BY <1>2, ConcatEmptySeq
<1>4. InText(m, w, k + 1, 0) = <<>>
    BY DEF InText
<1>5. InText(m, w, k, 5) = IF m.items[k] = "text" THEN Pieces(k) ELSE <<>>
    <2>1. 0 \in 0 .. 4
        OBVIOUS
    <2>2. Got(w, k, 5) = Pieces(k)
        BY <1>1, <2>1, GotStep
    <2>3. QED
        BY <2>2 DEF InText
<1>6. Words(m, k + 1) = Words(m, k) \o InText(m, w, k, 5)
    BY <1>3, <1>5, WordsStep
<1>7. QED
    BY <1>3, <1>4, <1>6 DEF TextSoFar

\* At the end every way has brought the whole text, or nothing.
LEMMA TextLast ==
    ASSUME NEW m, IsMessage(m), NEW w \in Forms
    PROVE  /\ TextSoFar(m, w, Size(m) + 1, 0)
                = IF w \in m.text THEN Flatten(Flatten(Listed(m, "text"))) ELSE <<>>
           /\ m.text \cap Forms = {} => Flatten(Flatten(Listed(m, "text"))) = <<>>
<1>1. Size(m) + 1 \in 1 .. Size(m) + 1
    BY ItemEventsType
<1>2. Words(m, Size(m) + 1) \in Seq(Nat)
    BY <1>1, WordsStep
<1>3. Words(m, Size(m) + 1) \o <<>> = Words(m, Size(m) + 1)
    BY <1>2, ConcatEmptySeq
<1>4. TextSoFar(m, w, Size(m) + 1, 0) = IF w \in m.text THEN Words(m, Size(m) + 1) ELSE <<>>
    BY <1>3 DEF TextSoFar, InText
<1>5. ASSUME m.text \cap Forms = {} PROVE Flatten(Flatten(Listed(m, "text"))) = <<>>
    <2>1. ~Has(m, "text")
        BY <1>5 DEF IsMessage
    <2>2. QED
        BY <2>1, ListedNone, FlattenNone
<1>6. QED
    BY <1>4, <1>5, WordsStep
-----------------------------------------------------------------------------
(* Calls, and how much of the last one is there. *)

Opened(m, kind, k, s) == s > 0 /\ m.items[k] = kind /\ ("added" \in m.call \/ s = 5)
Partial(m, k, s) ==
    CASE s = 5 \/ (s = 4 /\ "whole" \in m.call) \/ (s > 2 /\ "deltas" \in m.call) -> Pieces(k)
      [] s = 2 /\ "deltas" \in m.call -> <<Pieces(k)[1]>>
      [] OTHER -> <<>>
CallsSoFar(m, kind, k, s) ==
    Earlier(m, kind, k) \o (IF Opened(m, kind, k, s) THEN <<Partial(m, k, s)>> ELSE <<>>)

LEMMA PartialStep ==
    ASSUME NEW m, NEW k \in Nat
    PROVE  /\ \A s \in 0 .. 5 : Partial(m, k, s) \in Seq(Nat)
           /\ Partial(m, k, 1) = <<>>
           /\ "deltas" \in m.call =>
                /\ Partial(m, k, 2) = Partial(m, k, 1) \o <<Pieces(k)[1]>>
                /\ Partial(m, k, 3) = Partial(m, k, 2) \o <<Pieces(k)[2]>>
           /\ "deltas" \notin m.call => Partial(m, k, 2) = <<>> /\ Partial(m, k, 3) = <<>>
           /\ Partial(m, k, 3) \in {<<>>, Pieces(k)} /\ Partial(m, k, 4) \in {<<>>, Pieces(k)}
           /\ "whole" \in m.call => Partial(m, k, 4) = Pieces(k)
           /\ "whole" \notin m.call => Partial(m, k, 4) = Partial(m, k, 3)
           /\ m.call \cap {"deltas", "whole"} # {} => Partial(m, k, 4) = Pieces(k)
           /\ Partial(m, k, 5) = Pieces(k)
<1>1. PICK p, a, b, z : /\ p = Pieces(k) /\ a = <<Pieces(k)[1]>> /\ b = <<Pieces(k)[2]>>
                        /\ z = <<>>
    OBVIOUS
<1>2. p \in Seq(Nat) /\ a \in Seq(Nat) /\ z \in Seq(Nat) /\ a \o b = p
    BY <1>1, PiecesType, EmptySeq
<1>3. z \o a = a
    BY <1>1, <1>2, ConcatEmptySeq
<1>4. /\ Partial(m, k, 0) = z /\ Partial(m, k, 1) = z
      /\ Partial(m, k, 2) = IF "deltas" \in m.call THEN a ELSE z
      /\ Partial(m, k, 3) = IF "deltas" \in m.call THEN p ELSE z
      /\ Partial(m, k, 4) = IF "deltas" \in m.call \/ "whole" \in m.call THEN p ELSE z
      /\ Partial(m, k, 5) = p
    BY <1>1 DEF Partial
<1>5. \A s \in 0 .. 5 : Partial(m, k, s) \in Seq(Nat)
    <2>1. \A s \in 0 .. 5 : s = 0 \/ s = 1 \/ s = 2 \/ s = 3 \/ s = 4 \/ s = 5
        OBVIOUS
    <2>2. QED
        BY <1>2, <1>4, <2>1
<1>6. m.call \cap {"deltas", "whole"} # {} => "deltas" \in m.call \/ "whole" \in m.call
    OBVIOUS
<1>7. QED
    BY <1>1, <1>2, <1>3, <1>4, <1>5, <1>6

LEMMA CallsFirst ==
    ASSUME NEW m, IsMessage(m), NEW kind
    PROVE  CallsSoFar(m, kind, 1, 0) = <<>>
BY EarlierStep DEF CallsSoFar, Opened

LEMMA CallsNext ==
    ASSUME NEW m, IsMessage(m), NEW kind, NEW k \in 1 .. Size(m)
    PROVE  CallsSoFar(m, kind, k + 1, 0) = CallsSoFar(m, kind, k, 5)
<1>1. k \in Nat /\ k \in 1 .. Size(m) + 1 /\ k + 1 \in 1 .. Size(m) + 1
    BY ItemEventsType
<1> DEFINE a == Earlier(m, kind, k)
           b == Earlier(m, kind, k + 1)
           U == Seq(Nat)
<1>2. a \in Seq(U) /\ b \in Seq(U)
    BY <1>1, EarlierStep
<1>3. a \o <<>> = a /\ b \o <<>> = b
    <2> HIDE DEF a, b, U
    <2>1. QED
        BY <1>2, ConcatEmptySeq
<1>4. CallsSoFar(m, kind, k + 1, 0) = b
    BY <1>3 DEF CallsSoFar, Opened
<1>5. CallsSoFar(m, kind, k, 5) = IF m.items[k] = kind THEN a \o <<Pieces(k)>> ELSE a
    <2>1. Partial(m, k, 5) = Pieces(k)
        BY <1>1, PartialStep
    <2>2. Opened(m, kind, k, 5) <=> m.items[k] = kind
        BY DEF Opened
    <2>3. QED
        BY <1>3, <2>1, <2>2 DEF CallsSoFar
<1>6. QED
    BY <1>4, <1>5, EarlierStep

\* Places without an event, and those of items of another kind, change nothing.
LEMMA CallsSame ==
    ASSUME NEW m, IsMessage(m), NEW kind \in {"call", "custom"},
           NEW k \in 1 .. Size(m), NEW s \in 0 .. 4,
           m.items[k] # kind \/ ~Present(m, k, s + 1)
    PROVE  /\ CallsSoFar(m, kind, k, s + 1) = CallsSoFar(m, kind, k, s)
           /\ Opened(m, kind, k, s + 1) <=> Opened(m, kind, k, s)
<1>1. k \in Nat /\ s + 1 > 0
    BY ItemEventsType
<1>2. CASE m.items[k] # kind
    BY <1>2 DEF CallsSoFar, Opened
<1>3. CASE m.items[k] = kind
    <2>1. Way(s + 1) \notin m.call
        BY <1>3 DEF Present, WaysOf
    <2>2. /\ Way(1) = "added" /\ Way(2) = "deltas" /\ Way(3) = "deltas" /\ Way(4) = "whole"
          /\ Way(5) = "item"
        BY DEF Way
    <2>3. m.call \cap Forms # {} /\ (m.call \cap {"deltas", "whole"} # {} => "added" \in m.call)
        <3>1. k \in DOMAIN m.items
            BY ItemEventsType
        <3>2. Has(m, "call") \/ Has(m, "custom")
            BY <1>3, <3>1 DEF Has
        <3>3. QED
            BY <3>2 DEF IsMessage
    <2>4. s = 0 \/ s = 1 \/ s = 2 \/ s = 3 \/ s = 4
        OBVIOUS
    <2>5. /\ Opened(m, kind, k, s + 1) <=> Opened(m, kind, k, s)
          /\ Opened(m, kind, k, s) => Partial(m, k, s + 1) = Partial(m, k, s)
        <3>1. CASE s = 0
            BY <2>1, <2>2, <3>1 DEF Opened
        <3>2. CASE s = 1 \/ s = 2
            <4>1. s + 1 = 2 \/ s + 1 = 3
                BY <3>2
            <4>2. "deltas" \notin m.call
                BY <2>1, <2>2, <4>1
            <4>3. /\ Partial(m, k, 1) = <<>> /\ Partial(m, k, 2) = <<>>
                  /\ Partial(m, k, 3) = <<>>
                BY <1>1, <4>2, PartialStep
            <4>4. /\ Opened(m, kind, k, s + 1) <=> "added" \in m.call
                  /\ Opened(m, kind, k, s) <=> "added" \in m.call
                BY <1>3, <3>2 DEF Opened
            <4>5. QED
                BY <3>2, <4>1, <4>3, <4>4
        <3>3. CASE s = 3
            <4>1. s + 1 = 4 /\ "whole" \notin m.call
                BY <2>1, <2>2, <3>3
            <4>2. Partial(m, k, 4) = Partial(m, k, 3)
                BY <1>1, <4>1, PartialStep
            <4>3. Opened(m, kind, k, 4) <=> Opened(m, kind, k, 3)
                BY <1>3 DEF Opened
            <4>4. QED
                BY <3>3, <4>1, <4>2, <4>3
        <3>4. CASE s = 4
            <4>1. m.call \cap {"deltas", "whole"} # {}
                BY <2>1, <2>2, <2>3, <3>4 DEF Forms
            <4>2. Partial(m, k, 4) = Pieces(k) /\ Partial(m, k, 5) = Pieces(k)
                BY <1>1, <4>1, PartialStep
            <4>3. QED
                BY <1>3, <2>3, <3>4, <4>1, <4>2 DEF Opened
        <3>5. QED
            BY <2>4, <3>1, <3>2, <3>3, <3>4
    <2>6. QED
        BY <2>5 DEF CallsSoFar
<1>4. QED
    BY <1>2, <1>3
-----------------------------------------------------------------------------
(* The calls the streaming reader keeps, and what the client was told of them. *)

Keys == Nat \cup {NoId}
Entries == [key : Keys, id : Keys, arguments : Seq(Nat), finalized : BOOLEAN, tracked : BOOLEAN]
Contents(tc) == [n \in DOMAIN tc |-> tc[n].arguments]

\* uc is tc with d for entry n.
Replaced(tc, uc, n, d) ==
    /\ uc \in Seq(Entries) /\ Len(uc) = Len(tc) /\ n \in 1 .. Len(tc) /\ uc[n] = d
    /\ \A i \in 1 .. Len(tc) : i # n => uc[i] = tc[i]

\* The client was told of these calls, in this order, and of these arguments.
Mirror(cs, tc) ==
    /\ CallsIn(cs) = [n \in 1 .. Len(tc) |-> n - 1]
    /\ \A i \in Nat : ArgumentsIn(cs, i) = IF i < Len(tc) THEN tc[i + 1].arguments ELSE <<>>

\* A key that is tracked is of an item before, or of this one's call.
Keyed(m, k, s, tc) ==
    \A n \in 1 .. Len(tc) :
       tc[n].tracked => /\ tc[n].key \in Nat
                        /\ \/ tc[n].key < ItemId(k)
                           \/ n = Len(tc) /\ tc[n].key = ItemId(k) /\ Opened(m, "call", k, s)

Current(m, k, s, tc) ==
    Opened(m, "call", k, s) /\ "added" \in m.call =>
        /\ Len(tc) # 0 /\ tc[Len(tc)].tracked
        /\ tc[Len(tc)].key = ItemId(k) /\ tc[Len(tc)].id = CallId(k)
        /\ tc[Len(tc)].finalized => "whole" \in m.call \/ s = 5

CallPart(m, k, s, cs, tc) ==
    /\ tc \in Seq(Entries) /\ Contents(tc) = CallsSoFar(m, "call", k, s)
    /\ Mirror(cs, tc) /\ Keyed(m, k, s, tc) /\ Current(m, k, s, tc)

Alike(cs, ds) == CallsIn(ds) = CallsIn(cs) /\ \A i : ArgumentsIn(ds, i) = ArgumentsIn(cs, i)

LEMMA ContentsType ==
    ASSUME NEW tc \in Seq(Entries)
    PROVE  /\ Contents(tc) \in Seq(Seq(Nat)) /\ Len(Contents(tc)) = Len(tc)
           /\ Len(tc) \in Nat
           /\ \A n \in 1 .. Len(tc) : Contents(tc)[n] = tc[n].arguments /\ tc[n] \in Entries
<1> DEFINE U == Seq(Nat)
           f == Contents(tc)
<1>1. Len(tc) \in Nat /\ DOMAIN tc = 1 .. Len(tc) /\ \A n \in 1 .. Len(tc) : tc[n] \in Entries
    BY LenProperties
<1>2. f = [n \in 1 .. Len(tc) |-> tc[n].arguments]
    BY <1>1 DEF Contents
<1>3. \A n \in 1 .. Len(tc) : tc[n].arguments \in U
    BY <1>1 DEF Entries
<1> HIDE DEF U, f
<1>4. \A n \in 1 .. Len(tc) : f[n] = tc[n].arguments
    BY <1>2
<1>5. f \in Seq(U) /\ Len(f) = Len(tc)
    <2>1. f = [n \in 1 .. Len(tc) |-> f[n]] /\ \A n \in 1 .. Len(tc) : f[n] \in U
        BY <1>2, <1>3, <1>4
    <2>2. QED
        BY <1>1, <2>1
<1>6. QED
    BY <1>1, <1>4, <1>5 DEF f, U

LEMMA ContentsAppend ==
    ASSUME NEW tc \in Seq(Entries), NEW c \in Entries
    PROVE  /\ Append(tc, c) \in Seq(Entries) /\ Len(Append(tc, c)) = Len(tc) + 1
           /\ Append(tc, c)[Len(tc) + 1] = c /\ \A n \in 1 .. Len(tc) : Append(tc, c)[n] = tc[n]
           /\ Contents(Append(tc, c)) = Contents(tc) \o <<c.arguments>>
<1> DEFINE U == Seq(Nat)
<1>1. PICK uc : uc = Append(tc, c)
    OBVIOUS
<1>2. /\ uc \in Seq(Entries) /\ Len(uc) = Len(tc) + 1 /\ Len(tc) \in Nat
      /\ uc[Len(tc) + 1] = c /\ \A n \in 1 .. Len(tc) : uc[n] = tc[n]
    BY <1>1, AppendProperties, LenProperties
<1>3. /\ Contents(tc) \in Seq(U) /\ Len(Contents(tc)) = Len(tc)
      /\ Contents(uc) \in Seq(U) /\ Len(Contents(uc)) = Len(tc) + 1
      /\ \A n \in 1 .. Len(tc) : Contents(tc)[n] = tc[n].arguments
      /\ \A n \in 1 .. Len(tc) + 1 : Contents(uc)[n] = uc[n].arguments
    BY <1>2, ContentsType
<1>4. c.arguments \in U
    BY DEF Entries
<1> HIDE DEF U
<1>5. PICK a, b, x : a = Contents(tc) /\ b = Contents(uc) /\ x = c.arguments
    OBVIOUS
<1>6. <<x>> \in Seq(U) /\ Len(<<x>>) = 1 /\ <<x>>[1] = x
    BY <1>4, <1>5
<1>7. /\ a \o <<x>> \in Seq(U) /\ Len(a \o <<x>>) = Len(tc) + 1
      /\ \A i \in 1 .. Len(tc) + 1 : (a \o <<x>>)[i] = IF i <= Len(tc) THEN a[i] ELSE <<x>>[i - Len(tc)]
    BY <1>3, <1>5, <1>6, ConcatProperties
<1>8. ASSUME NEW i \in 1 .. Len(tc) + 1 PROVE b[i] = (a \o <<x>>)[i]
    <2>1. CASE i \in 1 .. Len(tc)
        BY <1>2, <1>3, <1>5, <1>7, <2>1
    <2>2. CASE i = Len(tc) + 1
        <3>1. i - Len(tc) = 1 /\ ~(i <= Len(tc))
            BY <1>2, <2>2
        <3>2. b[i] = x
            BY <1>2, <1>3, <1>5, <2>2
        <3>3. QED
            BY <1>6, <1>7, <3>1, <3>2
    <2>3. i \in 1 .. Len(tc) \/ i = Len(tc) + 1
        BY <1>2
    <2>4. QED
        BY <2>1, <2>2, <2>3
<1>9. b = a \o <<x>>
    BY <1>3, <1>5, <1>7, <1>8, SeqEqual
<1>10. QED
    BY <1>1, <1>2, <1>5, <1>9

\* The last entry replaced.
LastChanged(tc, uc, d, a, x) ==
    Contents(uc) = a \o <<d.arguments>> /\ tc[Len(tc)].arguments = x /\ d \in Entries

LEMMA ContentsLast ==
    ASSUME NEW tc \in Seq(Entries), NEW uc, NEW d, Replaced(tc, uc, Len(tc), d),
           NEW a \in Seq(Seq(Nat)), NEW x, Contents(tc) = a \o <<x>>
    PROVE  LastChanged(tc, uc, d, a, x)
<1> DEFINE U == Seq(Nat)
<1>1. /\ uc \in Seq(Entries) /\ Len(uc) = Len(tc) /\ Len(tc) \in 1 .. Len(tc) /\ uc[Len(tc)] = d
      /\ \A i \in 1 .. Len(tc) : i # Len(tc) => uc[i] = tc[i]
    BY DEF Replaced
<1>2. PICK n : n = Len(tc)
    OBVIOUS
<1>3. /\ n \in Nat /\ n # 0 /\ Contents(tc) \in Seq(U) /\ Len(Contents(tc)) = n
      /\ Contents(uc) \in Seq(U) /\ Len(Contents(uc)) = n
      /\ \A i \in 1 .. n : Contents(tc)[i] = tc[i].arguments /\ Contents(uc)[i] = uc[i].arguments
    BY <1>1, <1>2, ContentsType
<1>4. d \in Entries /\ d.arguments \in U
    <2>1. d \in Entries
        BY <1>1, ContentsType
    <2>2. QED
        BY <2>1 DEF Entries
<1> HIDE DEF U
<1>5. PICK b, c, y : b = Contents(tc) /\ c = Contents(uc) /\ y = d.arguments
    OBVIOUS
<1>6. a \in Seq(U) /\ Len(a) \in Nat
    BY LenProperties DEF U
<1>7. Len(b) = Len(a) + 1 /\ b[Len(a) + 1] = x /\ \A i \in 1 .. Len(a) : b[i] = a[i]
    <2>1. a \in Seq(U \cup {x}) /\ <<x>> \in Seq(U \cup {x}) /\ Len(<<x>>) = 1 /\ <<x>>[1] = x
        BY <1>6, SeqMonotonic
    <2>2. /\ Len(a \o <<x>>) = Len(a) + 1
          /\ \A i \in 1 .. Len(a) + 1 : (a \o <<x>>)[i] = IF i <= Len(a) THEN a[i] ELSE <<x>>[i - Len(a)]
        BY <2>1, ConcatProperties
    <2>3. (Len(a) + 1) - Len(a) = 1 /\ ~(Len(a) + 1 <= Len(a)) /\ Len(a) + 1 \in 1 .. Len(a) + 1
        BY <1>6
    <2>4. b[Len(a) + 1] = x
        BY <1>5, <2>1, <2>2, <2>3
    <2>5. \A i \in 1 .. Len(a) : b[i] = a[i]
        BY <1>5, <1>6, <2>2
    <2>6. QED
        BY <1>5, <2>2, <2>4, <2>5
<1>8. n = Len(a) + 1
    BY <1>3, <1>5, <1>7
<1>9. /\ <<y>> \in Seq(U) /\ Len(<<y>>) = 1 /\ <<y>>[1] = y
    BY <1>4, <1>5
<1>10. /\ a \o <<y>> \in Seq(U) /\ Len(a \o <<y>>) = n
       /\ \A i \in 1 .. n : (a \o <<y>>)[i] = IF i <= Len(a) THEN a[i] ELSE <<y>>[i - Len(a)]
    BY <1>6, <1>8, <1>9, ConcatProperties
<1>11. ASSUME NEW i \in 1 .. n PROVE c[i] = (a \o <<y>>)[i]
    <2>1. CASE i \in 1 .. Len(a)
        <3>1. i # n /\ i <= Len(a)
            BY <1>6, <1>8, <2>1
        <3>2. c[i] = b[i]
            BY <1>1, <1>2, <1>3, <1>5, <3>1
        <3>3. QED
            BY <1>7, <1>10, <2>1, <3>1, <3>2
    <2>2. CASE i = n
        <3>1. i - Len(a) = 1 /\ ~(i <= Len(a))
            BY <1>6, <1>8, <2>2
        <3>2. c[i] = y
            BY <1>1, <1>2, <1>3, <1>5, <2>2
        <3>3. QED
            BY <1>9, <1>10, <3>1, <3>2
    <2>3. QED
        BY <1>6, <1>8, <2>1, <2>2
<1>12. c = a \o <<y>>
    BY <1>3, <1>5, <1>10, <1>11, SeqEqual
<1>13. tc[Len(tc)].arguments = x
    BY <1>2, <1>3, <1>5, <1>7, <1>8
<1>14. QED
    BY <1>4, <1>5, <1>12, <1>13 DEF LastChanged

LEMMA CountPlusOne ==
    ASSUME NEW n \in Nat
    PROVE  [i \in 1 .. n |-> i - 1] \o <<n>> = [i \in 1 .. n + 1 |-> i - 1]
<1> DEFINE a == [i \in 1 .. n |-> i - 1]
           b == [i \in 1 .. n + 1 |-> i - 1]
<1>1. /\ a \in Seq(Nat) /\ Len(a) = n /\ b \in Seq(Nat) /\ Len(b) = n + 1
      /\ \A i \in 1 .. n : a[i] = i - 1
      /\ \A i \in 1 .. n + 1 : b[i] = i - 1
    OBVIOUS
<1>2. <<n>> \in Seq(Nat) /\ Len(<<n>>) = 1 /\ <<n>>[1] = n
    OBVIOUS
<1> HIDE DEF a, b
<1>3. /\ a \o <<n>> \in Seq(Nat) /\ Len(a \o <<n>>) = n + 1
      /\ \A i \in 1 .. n + 1 : (a \o <<n>>)[i] = IF i <= n THEN a[i] ELSE <<n>>[i - n]
    BY <1>1, <1>2, ConcatProperties
<1>4. ASSUME NEW i \in 1 .. n + 1 PROVE (a \o <<n>>)[i] = b[i]
    <2>1. CASE i \in 1 .. n
        BY <1>1, <1>3, <2>1
    <2>2. CASE i = n + 1
        <3>1. i - n = 1 /\ ~(i <= n) /\ i - 1 = n
            BY <2>2
        <3>2. QED
            BY <1>1, <1>2, <1>3, <3>1
    <2>3. i \in 1 .. n \/ i = n + 1
        OBVIOUS
    <2>4. QED
        BY <2>1, <2>2, <2>3
<1>5. a \o <<n>> = b
    BY <1>1, <1>3, <1>4, SeqEqual
<1>6. QED
    BY <1>5 DEF a, b

\* A call is opened, with some of its arguments.
LEMMA MirrorOpen ==
    ASSUME NEW cs \in Seq(Chunks), NEW tc \in Seq(Entries), Mirror(cs, tc), NEW c \in Entries
    PROVE  Mirror(Append(cs, Chunk("call", Len(tc), c.arguments)), Append(tc, c))
<1>1. PICK n, uc, ds, x : /\ n = Len(tc) /\ uc = Append(tc, c) /\ x = c.arguments
                          /\ ds = Append(cs, Chunk("call", n, x))
    OBVIOUS
<1>2. n \in Nat /\ x \in Seq(Nat)
    BY <1>1, LenProperties DEF Entries
<1>3. Len(uc) = n + 1 /\ uc[n + 1] = c /\ \A i \in 1 .. n : uc[i] = tc[i]
    BY <1>1, ContentsAppend
<1>4. /\ CallsIn(ds) = CallsIn(cs) \o <<n>>
      /\ ArgumentsIn(ds, n) = ArgumentsIn(cs, n) \o x
      /\ \A i : i # n => ArgumentsIn(ds, i) = ArgumentsIn(cs, i)
    <2>1. PICK kind : kind = "call"
        OBVIOUS
    <2>2. kind \in {"call", "args"} /\ ds = Append(cs, Chunk(kind, n, x))
        BY <1>1, <2>1
    <2>3. CallRead(cs, Append(cs, Chunk(kind, n, x)), kind, n, x)
        BY <1>2, <2>2, ReadCall
    <2>4. QED
        BY <2>1, <2>2, <2>3 DEF CallRead
<1>5. CallsIn(ds) = [i \in 1 .. n + 1 |-> i - 1]
    BY <1>1, <1>2, <1>4, CountPlusOne DEF Mirror
<1>6. ASSUME NEW i \in Nat
      PROVE  ArgumentsIn(ds, i) = IF i < n + 1 THEN uc[i + 1].arguments ELSE <<>>
    <2>1. ArgumentsIn(cs, i) = IF i < n THEN tc[i + 1].arguments ELSE <<>>
        BY <1>1 DEF Mirror
    <2>2. CASE i < n
        <3>1. i + 1 \in 1 .. n /\ i < n + 1 /\ i # n
            BY <1>2, <2>2
        <3>2. QED
            BY <1>3, <1>4, <2>1, <2>2, <3>1
    <2>3. CASE i = n
        <3>1. ~(i < n) /\ i < n + 1
            BY <1>2, <2>3
        <3>2. ArgumentsIn(cs, i) = <<>>
            BY <2>1, <3>1
        <3>3. <<>> \o x = x
            BY <1>2, ConcatEmptySeq
        <3>4. QED
            BY <1>1, <1>3, <1>4, <2>3, <3>1, <3>2, <3>3
    <2>4. CASE i > n
        <3>1. ~(i < n) /\ ~(i < n + 1) /\ i # n
            BY <1>2, <2>4
        <3>2. QED
            BY <1>4, <2>1, <3>1
    <2>5. QED
        BY <1>2, <2>2, <2>3, <2>4
<1>7. QED
    BY <1>1, <1>3, <1>5, <1>6 DEF Mirror

\* The arguments of a call grow, and the client is told.
LEMMA MirrorGrow ==
    ASSUME NEW cs \in Seq(Chunks), NEW tc \in Seq(Entries), Mirror(cs, tc),
           NEW uc, NEW n, NEW d, Replaced(tc, uc, n, d), NEW text \in Seq(Nat),
           d.arguments = tc[n].arguments \o text,
           NEW ds, ds = IF text = <<>> THEN cs ELSE Append(cs, Chunk("args", n - 1, text))
    PROVE  Mirror(ds, uc)
<1>1. /\ uc \in Seq(Entries) /\ Len(uc) = Len(tc) /\ n \in 1 .. Len(tc) /\ uc[n] = d
      /\ \A i \in 1 .. Len(tc) : i # n => uc[i] = tc[i]
    BY DEF Replaced
<1>2. Len(tc) \in Nat /\ n - 1 \in Nat /\ (n - 1) + 1 = n
    BY <1>1, LenProperties
<1>3. tc[n].arguments \in Seq(Nat)
    BY <1>1, ContentsType DEF Entries
<1>4. /\ CallsIn(ds) = CallsIn(cs)
      /\ ArgumentsIn(ds, n - 1) = ArgumentsIn(cs, n - 1) \o text
      /\ \A i : i # n - 1 => ArgumentsIn(ds, i) = ArgumentsIn(cs, i)
    <2>1. CASE text = <<>>
        <3>1. ArgumentsIn(cs, n - 1) \o <<>> = ArgumentsIn(cs, n - 1)
            BY ReadType, ConcatEmptySeq
        <3>2. QED
            BY <2>1, <3>1
    <2>2. CASE text # <<>>
        <3>1. PICK kind, j : kind = "args" /\ j = n - 1
            OBVIOUS
        <3>2. kind \in {"call", "args"} /\ j \in Nat /\ ds = Append(cs, Chunk(kind, j, text))
            BY <1>2, <2>2, <3>1
        <3>3. CallRead(cs, Append(cs, Chunk(kind, j, text)), kind, j, text)
            BY <3>2, ReadCall
        <3>4. QED
            BY <3>1, <3>2, <3>3 DEF CallRead
    <2>3. QED
        BY <2>1, <2>2
<1>5. ASSUME NEW i \in Nat
      PROVE  ArgumentsIn(ds, i) = IF i < Len(uc) THEN uc[i + 1].arguments ELSE <<>>
    <2>1. ArgumentsIn(cs, i) = IF i < Len(tc) THEN tc[i + 1].arguments ELSE <<>>
        BY DEF Mirror
    <2>2. CASE i = n - 1
        <3>1. i < Len(tc) /\ i + 1 = n
            BY <1>1, <1>2, <2>2
        <3>2. QED
            BY <1>1, <1>4, <2>1, <2>2, <3>1
    <2>3. CASE i # n - 1 /\ i < Len(tc)
        <3>1. i + 1 \in 1 .. Len(tc) /\ i + 1 # n
            BY <1>1, <1>2, <2>3
        <3>2. QED
            BY <1>1, <1>4, <2>1, <2>3, <3>1
    <2>4. CASE i # n - 1 /\ ~(i < Len(tc))
        BY <1>1, <1>4, <2>1, <2>4
    <2>5. QED
        BY <2>2, <2>3, <2>4
<1>6. CallsIn(ds) = [i \in 1 .. Len(uc) |-> i - 1]
    BY <1>1, <1>4 DEF Mirror
<1>7. QED
    BY <1>5, <1>6 DEF Mirror
-----------------------------------------------------------------------------
(* Calls from one place to the next. *)

LEMMA CallFirst ==
    ASSUME NEW m, IsMessage(m)
    PROVE  CallPart(m, 1, 0, <<>>, <<>>)
<1>1. <<>> \in Seq(Entries) /\ Len(<<>>) = 0
    BY EmptySeq
<1>2. Contents(<<>>) = <<>> /\ CallsSoFar(m, "call", 1, 0) = <<>>
    BY CallsFirst DEF Contents
<1>3. Mirror(<<>>, <<>>)
    <2>1. [n \in 1 .. 0 |-> n - 1] = <<>>
        OBVIOUS
    <2>2. \A i \in Nat : ~(i < 0)
        OBVIOUS
    <2>3. QED
        BY <1>1, <2>1, <2>2, ReadNone DEF Mirror
<1>4. Keyed(m, 1, 0, <<>>) /\ Current(m, 1, 0, <<>>)
    BY <1>1 DEF Keyed, Current, Opened
<1>5. QED
    BY <1>1, <1>2, <1>3, <1>4 DEF CallPart

LEMMA CallNext ==
    ASSUME NEW m, IsMessage(m), NEW k \in 1 .. Size(m), NEW cs, NEW tc, CallPart(m, k, 5, cs, tc)
    PROVE  CallPart(m, k + 1, 0, cs, tc)
<1>1. CallsSoFar(m, "call", k + 1, 0) = CallsSoFar(m, "call", k, 5)
    BY CallsNext
<1>2. Keyed(m, k + 1, 0, tc)
    <2>1. ASSUME NEW n \in 1 .. Len(tc), tc[n].tracked
          PROVE  tc[n].key \in Nat /\ tc[n].key < ItemId(k + 1)
        <3>1. tc[n].key \in Nat /\ (tc[n].key < ItemId(k) \/ tc[n].key = ItemId(k))
            BY <2>1 DEF CallPart, Keyed
        <3>2. k \in Nat
            BY ItemEventsType
        <3>3. QED
            BY <3>1, <3>2 DEF ItemId
    <2>2. QED
        BY <2>1 DEF Keyed
<1>3. Current(m, k + 1, 0, tc)
    BY DEF Current, Opened
<1>4. QED
    BY <1>1, <1>2, <1>3 DEF CallPart

\* An event that is not of a call, or none, and chunks that tell of no call.
LEMMA CallSame ==
    ASSUME NEW m, IsMessage(m), NEW k \in 1 .. Size(m), NEW s \in 0 .. 4, NEW cs, NEW ds, NEW tc,
           CallPart(m, k, s, cs, tc), Alike(cs, ds),
           m.items[k] # "call" \/ ~Present(m, k, s + 1)
    PROVE  CallPart(m, k, s + 1, ds, tc)
<1>1. /\ CallsSoFar(m, "call", k, s + 1) = CallsSoFar(m, "call", k, s)
      /\ Opened(m, "call", k, s + 1) <=> Opened(m, "call", k, s)
    BY CallsSame
<1>2. Mirror(ds, tc)
    BY DEF CallPart, Mirror, Alike
<1>3. Keyed(m, k, s + 1, tc) /\ Current(m, k, s + 1, tc)
    BY <1>1 DEF CallPart, Keyed, Current
<1>4. QED
    BY <1>1, <1>2, <1>3 DEF CallPart

\* A call is opened: announced, or written whole.
LEMMA CallOpened ==
    ASSUME NEW m, IsMessage(m), NEW k \in 1 .. Size(m), NEW s \in 0 .. 4,
           NEW cs \in Seq(Chunks), NEW tc, CallPart(m, k, s, cs, tc),
           m.items[k] = "call", ~Opened(m, "call", k, s), Opened(m, "call", k, s + 1),
           NEW c \in Entries, c.arguments = Partial(m, k, s + 1),
           c.key = ItemId(k), c.id = CallId(k), ~c.finalized, c.tracked <=> "added" \in m.call
    PROVE  CallPart(m, k, s + 1, Append(cs, Chunk("call", Len(tc), c.arguments)), Append(tc, c))
<1>1. PICK n, uc : n = Len(tc) /\ uc = Append(tc, c)
    OBVIOUS
<1>2. tc \in Seq(Entries) /\ n \in Nat
    BY <1>1, LenProperties DEF CallPart
<1>3. /\ uc \in Seq(Entries) /\ Len(uc) = n + 1 /\ uc[n + 1] = c
      /\ \A i \in 1 .. n : uc[i] = tc[i]
      /\ Contents(uc) = Contents(tc) \o <<c.arguments>>
    BY <1>1, <1>2, ContentsAppend
<1>4. k \in Nat /\ ItemId(k) \in Nat
    BY ItemEventsType DEF ItemId
<1>5. Contents(uc) = CallsSoFar(m, "call", k, s + 1)
    <2> DEFINE a == Earlier(m, "call", k)
               U == Seq(Nat)
    <2>1. k \in 1 .. Size(m) + 1
        BY ItemEventsType
    <2>2. a \in Seq(U)
        BY <2>1, EarlierStep
    <2>3. a \o <<>> = a
        <3> HIDE DEF a, U
        <3>1. QED
            BY <2>2, ConcatEmptySeq
    <2>4. Contents(tc) = a
        BY <2>3 DEF CallPart, CallsSoFar
    <2>5. QED
        BY <1>3, <2>4 DEF CallsSoFar
<1>6. Mirror(Append(cs, Chunk("call", Len(tc), c.arguments)), uc)
    BY <1>1, <1>2, MirrorOpen DEF CallPart
<1>7. Keyed(m, k, s + 1, uc)
    <2>1. ASSUME NEW i \in 1 .. n + 1, uc[i].tracked
          PROVE  /\ uc[i].key \in Nat
                 /\ uc[i].key < ItemId(k) \/ (i = n + 1 /\ uc[i].key = ItemId(k))
        <3>1. CASE i \in 1 .. n
            BY <1>1, <1>3, <2>1, <3>1 DEF CallPart, Keyed
        <3>2. CASE i = n + 1
            BY <1>3, <1>4, <3>2
        <3>3. QED
            BY <1>2, <3>1, <3>2
    <2>2. QED
        BY <1>3, <2>1 DEF Keyed
<1>8. Current(m, k, s + 1, uc)
    <2>1. n + 1 # 0
        BY <1>2
    <2>2. QED
        BY <1>3, <2>1 DEF Current
<1>9. QED
    BY <1>1, <1>3, <1>5, <1>6, <1>7, <1>8 DEF CallPart

\* With d for the last entry, text is added at place s + 1 of item k to the arguments of the
\* call that is open, or it is closed.
Grows(m, k, s, tc, uc, d, text) ==
    /\ Replaced(tc, uc, Len(tc), d) /\ text \in Seq(Nat)
    /\ d.arguments = tc[Len(tc)].arguments \o text
    /\ Partial(m, k, s + 1) = Partial(m, k, s) \o text
    /\ d.key = tc[Len(tc)].key /\ d.id = tc[Len(tc)].id /\ d.tracked = tc[Len(tc)].tracked
    /\ d.finalized => tc[Len(tc)].finalized \/ "whole" \in m.call \/ s + 1 = 5

\* And the client is told.
Extended(cs, ds, n, text) ==
    ds = IF text = <<>> THEN cs ELSE Append(cs, Chunk("args", n - 1, text))

LEMMA CallGrown ==
    ASSUME NEW m, IsMessage(m), NEW k \in 1 .. Size(m), NEW s \in 0 .. 4,
           NEW cs \in Seq(Chunks), NEW tc, CallPart(m, k, s, cs, tc),
           m.items[k] = "call", "added" \in m.call, s # 0,
           NEW uc, NEW d, NEW text, Grows(m, k, s, tc, uc, d, text),
           NEW ds, Extended(cs, ds, Len(tc), text)
    PROVE  CallPart(m, k, s + 1, ds, uc)
<1>0. /\ Replaced(tc, uc, Len(tc), d) /\ text \in Seq(Nat)
      /\ d.arguments = tc[Len(tc)].arguments \o text
      /\ Partial(m, k, s + 1) = Partial(m, k, s) \o text
      /\ d.key = tc[Len(tc)].key /\ d.id = tc[Len(tc)].id /\ d.tracked = tc[Len(tc)].tracked
      /\ d.finalized => tc[Len(tc)].finalized \/ "whole" \in m.call \/ s + 1 = 5
    BY DEF Grows
<1>1. PICK n : n = Len(tc)
    OBVIOUS
<1>2. tc \in Seq(Entries) /\ n \in Nat
    BY <1>1, LenProperties DEF CallPart
<1>3. /\ uc \in Seq(Entries) /\ Len(uc) = n /\ n \in 1 .. n /\ uc[n] = d
      /\ \A i \in 1 .. n : i # n => uc[i] = tc[i]
    BY <1>0, <1>1 DEF Replaced
<1>4. Opened(m, "call", k, s) /\ Opened(m, "call", k, s + 1)
    BY DEF Opened
<1>5. Contents(uc) = CallsSoFar(m, "call", k, s + 1)
    <2>1. PICK a, x : a = Earlier(m, "call", k) /\ x = Partial(m, k, s)
        OBVIOUS
    <2>2. k \in 1 .. Size(m) + 1
        BY ItemEventsType
    <2>3. a \in Seq(Seq(Nat))
        BY <2>1, <2>2, EarlierStep
    <2>4. Contents(tc) = a \o <<x>>
        BY <1>4, <2>1 DEF CallPart, CallsSoFar
    <2>5. Contents(uc) = a \o <<d.arguments>> /\ tc[Len(tc)].arguments = x
        <3>1. LastChanged(tc, uc, d, a, x)
            BY <1>0, <1>2, <2>3, <2>4, ContentsLast
        <3>2. QED
            BY <3>1 DEF LastChanged
    <2>6. d.arguments = Partial(m, k, s + 1)
        BY <1>0, <2>1, <2>5
    <2>7. QED
        BY <1>4, <2>1, <2>5, <2>6 DEF CallsSoFar
<1>6. Mirror(ds, uc)
    <2>1. ds = IF text = <<>> THEN cs ELSE Append(cs, Chunk("args", Len(tc) - 1, text))
        BY DEF Extended
    <2>2. Mirror(cs, tc)
        BY DEF CallPart
    <2>3. QED
        BY <1>0, <1>2, <2>1, <2>2, MirrorGrow
<1>7. Keyed(m, k, s + 1, uc)
    <2>1. ASSUME NEW i \in 1 .. n, uc[i].tracked
          PROVE  /\ uc[i].key \in Nat
                 /\ uc[i].key < ItemId(k) \/ (i = n /\ uc[i].key = ItemId(k))
        <3>1. uc[i].key = tc[i].key /\ tc[i].tracked
            BY <1>0, <1>1, <1>3, <2>1
        <3>2. QED
            BY <1>1, <3>1 DEF CallPart, Keyed
    <2>2. QED
        BY <1>3, <1>4, <2>1 DEF Keyed
<1>8. Current(m, k, s + 1, uc)
    <2>1. /\ n # 0 /\ tc[n].tracked /\ tc[n].key = ItemId(k) /\ tc[n].id = CallId(k)
          /\ tc[n].finalized => "whole" \in m.call \/ s = 5
        BY <1>1, <1>4 DEF CallPart, Current
    <2>2. s # 5
        OBVIOUS
    <2>3. QED
        BY <1>0, <1>1, <1>3, <2>1, <2>2 DEF Current
<1>9. QED
    BY <1>3, <1>5, <1>6, <1>7, <1>8 DEF CallPart
-----------------------------------------------------------------------------
(* The streaming reader from one place to the next.                        *)

States == [wroteRole : BOOLEAN, sawDelta : BOOLEAN, sawToolCall : BOOLEAN,
           outputTextDone : Seq(Nat), outputItemDone : Seq(Nat),
           toolCalls : Seq(Entries), events : Nat]

TextPart(m, k, s, cs, st) ==
    /\ TextIn(cs) = TextSoFar(m, "deltas", k, s)
    /\ st.outputTextDone = TextSoFar(m, "whole", k, s)
    /\ st.outputItemDone = TextSoFar(m, "item", k, s)
    /\ st.sawDelta => "deltas" \in m.text
    /\ ~st.sawDelta => TextIn(cs) = <<>>
    /\ st.sawToolCall => Has(m, "call")

\* After s places of item k the client was sent cs, and the reader keeps st.
Reading(m, k, s, cs, st) ==
    /\ cs \in Seq(Chunks) /\ st \in States
    /\ TextPart(m, k, s, cs, st) /\ CallPart(m, k, s, cs, st.toolCalls)

LEMMA TextStart ==
    ASSUME NEW m, IsMessage(m)
    PROVE  TextPart(m, 1, 0, <<>>, NewState)
BY TextFirst, ReadNone DEF TextPart, NewState, Forms

LEMMA TextTurns ==
    ASSUME NEW m, IsMessage(m), NEW k \in 1 .. Size(m), NEW cs, NEW st, TextPart(m, k, 5, cs, st)
    PROVE  TextPart(m, k + 1, 0, cs, st)
<1>1. \A w \in Forms : TextSoFar(m, w, k + 1, 0) = TextSoFar(m, w, k, 5)
    BY TextNext
<1>2. QED
    BY <1>1 DEF TextPart, Forms

\* Each way of sending text brings what stands at the place.
LEMMA TextMoves ==
    ASSUME NEW m, IsMessage(m), NEW k \in 1 .. Size(m), NEW s \in 0 .. 4, NEW cs, NEW st,
           TextPart(m, k, s, cs, st), NEW ds, NEW su,
           TextIn(ds) = TextIn(cs) \o TextAt(m, "deltas", k, s),
           su.outputTextDone = st.outputTextDone \o TextAt(m, "whole", k, s),
           su.outputItemDone = st.outputItemDone \o TextAt(m, "item", k, s),
           su.sawDelta <=> (st.sawDelta \/ TextAt(m, "deltas", k, s) # <<>>),
           su.sawToolCall => st.sawToolCall \/ m.items[k] = "call"
    PROVE  TextPart(m, k, s + 1, ds, su)
<1>1. \A w \in Forms : TextSoFar(m, w, k, s + 1) = TextSoFar(m, w, k, s) \o TextAt(m, w, k, s)
    BY TextStep
<1>2. /\ TextIn(ds) = TextSoFar(m, "deltas", k, s + 1)
      /\ su.outputTextDone = TextSoFar(m, "whole", k, s + 1)
      /\ su.outputItemDone = TextSoFar(m, "item", k, s + 1)
    BY <1>1 DEF TextPart, Forms
<1>3. TextAt(m, "deltas", k, s) # <<>> => "deltas" \in m.text
    BY DEF TextAt, Present, WaysOf
<1>4. ~su.sawDelta => TextIn(ds) = <<>>
    <2>1. <<>> \o <<>> = <<>>
        OBVIOUS
    <2>2. QED
        BY <2>1 DEF TextPart
<1>5. m.items[k] = "call" => Has(m, "call")
    <2>1. k \in DOMAIN m.items
        BY ItemEventsType
    <2>2. QED
        BY <2>1 DEF Has
<1>6. QED
    BY <1>2, <1>3, <1>4, <1>5 DEF TextPart

LEMMA TextStays ==
    ASSUME NEW m, IsMessage(m), NEW k \in 1 .. Size(m), NEW s \in 0 .. 4, NEW cs, NEW st,
           cs \in Seq(Chunks), st \in States,
           TextPart(m, k, s, cs, st), NEW ds, NEW su, TextIn(ds) = TextIn(cs),
           m.items[k] # "text" \/ ~Present(m, k, s + 1),
           su.outputTextDone = st.outputTextDone, su.outputItemDone = st.outputItemDone,
           su.sawDelta <=> st.sawDelta,
           su.sawToolCall => st.sawToolCall \/ m.items[k] = "call"
    PROVE  TextPart(m, k, s + 1, ds, su)
<1>1. \A w : TextAt(m, w, k, s) = <<>>
    BY DEF TextAt
<1>2. TextIn(cs) \in Seq(Nat) /\ st.outputTextDone \in Seq(Nat) /\ st.outputItemDone \in Seq(Nat)
    BY ReadType DEF States
<1>3. /\ TextIn(cs) \o <<>> = TextIn(cs)
      /\ st.outputTextDone \o <<>> = st.outputTextDone
      /\ st.outputItemDone \o <<>> = st.outputItemDone
    BY <1>2, ConcatEmptySeq
<1>4. /\ TextIn(ds) = TextIn(cs) \o TextAt(m, "deltas", k, s)
      /\ su.outputTextDone = st.outputTextDone \o TextAt(m, "whole", k, s)
      /\ su.outputItemDone = st.outputItemDone \o TextAt(m, "item", k, s)
      /\ su.sawDelta <=> (st.sawDelta \/ TextAt(m, "deltas", k, s) # <<>>)
    BY <1>1, <1>3
<1>5. QED
    BY <1>4, TextMoves

LEMMA ReadingFirst ==
    ASSUME NEW m, IsMessage(m)
    PROVE  Reading(m, 1, 0, <<>>, NewState)
<1>1. <<>> \in Seq(Chunks) /\ <<>> \in Seq(Nat) /\ <<>> \in Seq(Entries)
    BY EmptySeq
<1>2. NewState \in States /\ NewState.toolCalls = <<>>
    BY <1>1 DEF NewState, States
<1>3. QED
    BY <1>1, <1>2, TextStart, CallFirst DEF Reading

LEMMA ReadingNext ==
    ASSUME NEW m, IsMessage(m), NEW k \in 1 .. Size(m), NEW cs, NEW st, Reading(m, k, 5, cs, st)
    PROVE  Reading(m, k + 1, 0, cs, st)
BY TextTurns, CallNext DEF Reading

LEMMA ReadingPast ==
    ASSUME NEW m, IsMessage(m), NEW k \in 1 .. Size(m), NEW s \in 0 .. 4, NEW cs, NEW st,
           Reading(m, k, s, cs, st), ~Present(m, k, s + 1)
    PROVE  Reading(m, k, s + 1, cs, st)
<1>1. TextPart(m, k, s + 1, cs, st)
    BY TextStays DEF Reading
<1>2. CallPart(m, k, s + 1, cs, st.toolCalls)
    BY CallSame DEF Reading, Alike
<1>3. QED
    BY <1>1, <1>2 DEF Reading
-----------------------------------------------------------------------------
(* What the events of a message do to the streaming reader. *)

\* The reader gives up, and calls the event invalid only if a call was ended twice
\* or is of a kind it does not know.
Fair(m) ==
    /\ reader' = "failing"
    /\ summary'.CompletionStatus = "upstream_invalid" =>
         {"whole", "item"} \subseteq m.call \/ Has(m, "custom")
Advances(m, k, s) == reader' = reader /\ Reading(m, k, s, client \o pending', state')

LEMMA FailsFair ==
    ASSUME Typed, NEW m, NEW class, NEW status, Fails(class, status),
           status = "upstream_invalid" => {"whole", "item"} \subseteq m.call \/ Has(m, "custom")
    PROVE  Fair(m)
BY DEF Fails, Fair, Typed, NoSummary

LEMMA BecomesAdvances ==
    ASSUME Typed, NEW m, NEW k, NEW s, NEW st, NEW chunks, Becomes(st, chunks), st \in States,
           client \o chunks \in Seq(Chunks), TextPart(m, k, s, client \o chunks, st),
           CallPart(m, k, s, client \o chunks, st.toolCalls)
    PROVE  Fair(m) \/ Advances(m, k, s)
<1>1. PICK su : su = [st EXCEPT !.events = @ + 1]
    OBVIOUS
<1>2. state' = su /\ pending' = chunks
    BY <1>1 DEF Becomes, Writes
<1>3. /\ su \in States /\ su.toolCalls = st.toolCalls /\ su.outputTextDone = st.outputTextDone
      /\ su.outputItemDone = st.outputItemDone /\ su.sawDelta = st.sawDelta
      /\ su.sawToolCall = st.sawToolCall
    <2>1. st.events + 1 \in Nat
        BY DEF States
    <2>2. su \in States
        BY <1>1, <2>1 DEF States
    <2>3. DOMAIN st = {"wroteRole", "sawDelta", "sawToolCall", "outputTextDone", "outputItemDone",
                       "toolCalls", "events"}
        BY DEF States
    <2>4. QED
        BY <1>1, <2>2, <2>3
<1>4. Reading(m, k, s, client \o pending', state')
    BY <1>2, <1>3 DEF Reading, TextPart
<1>5. Fails("upstream_stream_too_large", "too_large") \/ reader' = reader
    BY DEF Becomes, Keeps, Continues
<1>6. QED
    BY <1>4, <1>5, FailsFair DEF Advances

\* With the chunk that tells of the role in front, the rest reads the same.
LEMMA RoleEffect ==
    ASSUME NEW cs \in Seq(Chunks)
    PROVE  \E ds \in Seq(Chunks) :
              /\ ds = cs \o Role /\ TextIn(ds) = TextIn(cs) /\ Alike(cs, ds)
              /\ \A c \in Chunks : /\ cs \o (Role \o <<c>>) = Append(ds, c)
                                   /\ cs \o Append(Role, c) = Append(ds, c)
<1>1. PICK r : r = Chunk("role", 0, <<>>)
    OBVIOUS
<1>2. r \in Chunks
    <2>1. "role" \in Kinds /\ 0 \in Nat /\ <<>> \in Seq(Nat)
        BY EmptySeq DEF Kinds
    <2>2. QED
        BY <1>1, <2>1, ChunkType
<1>3. Role = <<>> \/ Role = <<r>>
    BY <1>1 DEF Role
<1>4. Role \in Seq(Chunks)
    <2>1. <<>> \in Seq(Chunks) /\ <<r>> \in Seq(Chunks)
        BY <1>2
    <2>2. QED
        BY <1>3, <2>1
<1>5. PICK ds : ds = cs \o Role
    OBVIOUS
<1>6. ds \in Seq(Chunks)
    BY <1>4, <1>5, ConcatProperties
<1>7. ASSUME NEW c \in Chunks
      PROVE  cs \o (Role \o <<c>>) = Append(ds, c) /\ cs \o Append(Role, c) = Append(ds, c)
    <2>1. <<c>> \in Seq(Chunks)
        OBVIOUS
    <2>2. (cs \o Role) \o <<c>> = cs \o (Role \o <<c>>)
        BY <1>4, <2>1, ConcatAssociative
    <2>3. Append(ds, c) = ds \o <<c>>
        BY <1>6, AppendIsConcat
    <2>4. Append(Role, c) = Role \o <<c>>
        BY <1>4, AppendIsConcat
    <2>5. QED
        BY <1>5, <2>2, <2>3, <2>4
<1>8. TextIn(ds) = TextIn(cs) /\ Alike(cs, ds)
    <2>1. CASE Role = <<>>
        <3>1. ds = cs
            BY <1>5, <2>1, ConcatEmptySeq
        <3>2. QED
            BY <3>1 DEF Alike
    <2>2. CASE Role = <<r>>
        <3>1. ds = Append(cs, r)
            BY <1>2, <1>5, <2>2, AppendIsConcat
        <3>2. QED
            BY <1>1, <3>1, ReadMark DEF Alike
    <2>3. QED
        BY <1>3, <2>1, <2>2
<1>9. QED
    BY <1>5, <1>6, <1>7, <1>8

LEMMA ClientPlain ==
    ASSUME client \in Seq(Chunks)
    PROVE  client \o <<>> = client
BY ConcatEmptySeq

\* The events of a text.
LEMMA TextHandled ==
    ASSUME Typed, NEW m, IsMessage(m), NEW k \in 1 .. Size(m), NEW s \in 0 .. 4,
           Present(m, k, s + 1), m.items[k] = "text", Reading(m, k, s, client, state),
           NEW e, e = EventAt(m, k, s + 1),
           \/ s \in {1, 2} /\ TextDelta(e)
           \/ s = 3 /\ TextDone(e)
           \/ s = 4 /\ ItemDone(e)
    PROVE  Fair(m) \/ Advances(m, k, s + 1)
<1>1. client \in Seq(Chunks) /\ state \in States
    BY DEF Reading
<1>2. /\ TextIn(client) \in Seq(Nat) /\ state.outputTextDone \in Seq(Nat)
      /\ state.outputItemDone \in Seq(Nat)
    BY <1>1, ReadType DEF States
<1>3. /\ TextIn(client) \o <<>> = TextIn(client)
      /\ state.outputTextDone \o <<>> = state.outputTextDone
      /\ state.outputItemDone \o <<>> = state.outputItemDone
    BY <1>2, ConcatEmptySeq
<1>4. e = TextEventAt(k, s + 1) /\ k \in Nat
    BY ItemEventsType DEF EventAt
<1>5. PICK t : t = e.text
    OBVIOUS
<1>6. \A w : TextAt(m, w, k, s) = IF Way(s + 1) = w THEN t ELSE <<>>
    BY <1>5 DEF TextAt
<1>7. Way(s + 1) \in Forms => t \in Seq(Nat) /\ t # <<>>
    BY <1>4, <1>5, GotStep
<1>8. /\ Way(2) = "deltas" /\ Way(3) = "deltas" /\ Way(4) = "whole" /\ Way(5) = "item"
    BY DEF Way
<1>9. m.items[k] # "call"
    OBVIOUS
<1>10. CASE s \in {1, 2} /\ TextDelta(e)
    <2>1. Way(s + 1) = "deltas" /\ t \in Seq(Nat) /\ t # <<>>
        <3>1. s + 1 = 2 \/ s + 1 = 3
            BY <1>10
        <3>2. QED
            BY <1>7, <1>8, <3>1 DEF Forms
    <2>2. PICK su : su = [state EXCEPT !.wroteRole = TRUE, !.sawDelta = TRUE]
        OBVIOUS
    <2>3. /\ su \in States /\ su.toolCalls = state.toolCalls
          /\ su.outputTextDone = state.outputTextDone /\ su.outputItemDone = state.outputItemDone
          /\ su.sawDelta /\ su.sawToolCall = state.sawToolCall
        BY <1>1, <2>2 DEF States
    <2>4. Becomes(su, Role \o <<Chunk("text", 0, t)>>)
        BY <1>5, <1>10, <2>1, <2>2 DEF TextDelta
    <2>5. PICK ds \in Seq(Chunks) :
              /\ TextIn(ds) = TextIn(client) /\ Alike(client, ds)
              /\ \A c \in Chunks : client \o (Role \o <<c>>) = Append(ds, c)
        BY <1>1, RoleEffect
    <2>6. PICK us : us = Append(ds, Chunk("text", 0, t))
        OBVIOUS
    <2>7. client \o (Role \o <<Chunk("text", 0, t)>>) = us
        <3>1. Chunk("text", 0, t) \in Chunks
            <4>1. "text" \in Kinds /\ 0 \in Nat
                BY DEF Kinds
            <4>2. QED
                BY <2>1, <4>1, ChunkType
        <3>2. QED
            BY <2>5, <2>6, <3>1
    <2>8. us \in Seq(Chunks) /\ TextIn(us) = TextIn(client) \o t /\ Alike(client, us)
        <3>1. /\ us \in Seq(Chunks) /\ TextIn(us) = TextIn(ds) \o t /\ CallsIn(us) = CallsIn(ds)
              /\ \A i : ArgumentsIn(us, i) = ArgumentsIn(ds, i)
            BY <2>1, <2>6, ReadText
        <3>2. QED
            BY <2>5, <3>1 DEF Alike
    <2>9. TextPart(m, k, s + 1, us, su)
        <3>1. /\ TextAt(m, "deltas", k, s) = t /\ TextAt(m, "whole", k, s) = <<>>
              /\ TextAt(m, "item", k, s) = <<>>
            BY <1>6, <2>1
        <3>2. QED
            BY <1>3, <2>1, <2>3, <2>8, <3>1, TextMoves DEF Reading
    <2>10. CallPart(m, k, s + 1, us, su.toolCalls)
        BY <1>9, <2>3, <2>8, CallSame DEF Reading
    <2>11. QED
        BY <2>3, <2>4, <2>7, <2>8, <2>9, <2>10, BecomesAdvances
<1>11. CASE s = 3 /\ TextDone(e)
    <2>1. Way(s + 1) = "whole" /\ t \in Seq(Nat)
        <3>1. s + 1 = 4
            BY <1>11
        <3>2. QED
            BY <1>7, <1>8, <3>1 DEF Forms
    <2>2. PICK su : su = [state EXCEPT !.outputTextDone = @ \o t]
        OBVIOUS
    <2>3. /\ su \in States /\ su.toolCalls = state.toolCalls
          /\ su.outputTextDone = state.outputTextDone \o t
          /\ su.outputItemDone = state.outputItemDone
          /\ su.sawDelta = state.sawDelta /\ su.sawToolCall = state.sawToolCall
        <3>1. state.outputTextDone \o t \in Seq(Nat)
            BY <1>2, <2>1, ConcatProperties
        <3>2. QED
            BY <1>1, <2>2, <3>1 DEF States
    <2>4. Becomes(su, <<>>)
        BY <1>5, <1>11, <2>2 DEF TextDone
    <2>5. client \o <<>> = client
        BY <1>1, ClientPlain
    <2>6. TextPart(m, k, s + 1, client, su)
        <3>1. /\ TextAt(m, "deltas", k, s) = <<>> /\ TextAt(m, "whole", k, s) = t
              /\ TextAt(m, "item", k, s) = <<>>
            BY <1>6, <2>1
        <3>2. QED
            BY <1>3, <2>3, <3>1, TextMoves DEF Reading
    <2>7. CallPart(m, k, s + 1, client, su.toolCalls)
        BY <1>9, <2>3, CallSame DEF Reading, Alike
    <2>8. QED
        BY <1>1, <2>3, <2>4, <2>5, <2>6, <2>7, BecomesAdvances
<1>12. CASE s = 4 /\ ItemDone(e)
    <2>1. Way(s + 1) = "item" /\ t \in Seq(Nat) /\ e.item = "message"
        <3>1. s + 1 = 5
            BY <1>12
        <3>2. e.item = "message"
            <4>1. e = Event("response.output_item.done", "message", NoId, NoId, Pieces(k))
                BY <1>4, <3>1 DEF TextEventAt
            <4>2. QED
                BY <4>1, EventFields
        <3>3. QED
            BY <1>7, <1>8, <3>1, <3>2 DEF Forms
    <2>2. PICK su : su = [state EXCEPT !.outputItemDone = @ \o t]
        OBVIOUS
    <2>3. /\ su \in States /\ su.toolCalls = state.toolCalls
          /\ su.outputTextDone = state.outputTextDone
          /\ su.outputItemDone = state.outputItemDone \o t
          /\ su.sawDelta = state.sawDelta /\ su.sawToolCall = state.sawToolCall
        <3>1. state.outputItemDone \o t \in Seq(Nat)
            BY <1>2, <2>1, ConcatProperties
        <3>2. QED
            BY <1>1, <2>2, <3>1 DEF States
    <2>4. Becomes(su, <<>>)
        BY <1>5, <1>12, <2>1, <2>2 DEF ItemDone
    <2>5. client \o <<>> = client
        BY <1>1, ClientPlain
    <2>6. TextPart(m, k, s + 1, client, su)
        <3>1. /\ TextAt(m, "deltas", k, s) = <<>> /\ TextAt(m, "whole", k, s) = <<>>
              /\ TextAt(m, "item", k, s) = t
            BY <1>6, <2>1
        <3>2. QED
            BY <1>3, <2>3, <3>1, TextMoves DEF Reading
    <2>7. CallPart(m, k, s + 1, client, su.toolCalls)
        BY <1>9, <2>3, CallSame DEF Reading, Alike
    <2>8. QED
        BY <1>1, <2>3, <2>4, <2>5, <2>6, <2>7, BecomesAdvances
<1>13. QED
    BY <1>10, <1>11, <1>12
-----------------------------------------------------------------------------
(* The events of a call.                                                   *)

LEMMA CallAlike ==
    ASSUME NEW m, NEW k, NEW s, NEW cs, NEW ds, NEW tc, CallPart(m, k, s, cs, tc), Alike(cs, ds)
    PROVE  CallPart(m, k, s, ds, tc)
BY DEF CallPart, Mirror, Alike

\* An item's number and its call's are none of the empty string's.
LEMMA Numbers ==
    ASSUME NEW k \in Nat \ {0}, NoId \notin Nat \ {0}
    PROVE  /\ ItemId(k) \in Nat /\ CallId(k) \in Nat /\ ItemId(k) \in Keys /\ CallId(k) \in Keys
           /\ ItemId(k) # NoId /\ CallId(k) # NoId
<1>1. ItemId(k) \in Nat \ {0} /\ CallId(k) \in Nat \ {0}
    BY DEF ItemId, CallId
<1>2. QED
    BY <1>1 DEF Keys

\* The reader finds the call of this item once it is announced, and none before.
LEMMA TrackedCall ==
    ASSUME NEW m, NEW k \in Nat \ {0}, NEW s, NoId \notin Nat \ {0},
           state.toolCalls \in Seq(Entries),
           Keyed(m, k, s, state.toolCalls), Current(m, k, s, state.toolCalls)
    PROVE  /\ ~Opened(m, "call", k, s) => Tracked(ItemId(k)) = {}
           /\ Opened(m, "call", k, s) /\ "added" \in m.call =>
                /\ Len(state.toolCalls) \in 1 .. Len(state.toolCalls)
                /\ Tracked(ItemId(k)) = {Len(state.toolCalls)}
                /\ PlaceOf(ItemId(k)) = Len(state.toolCalls)
<1>1. PICK tc : tc = state.toolCalls
    OBVIOUS
<1>2. PICK x : x = ItemId(k)
    OBVIOUS
<1>3. /\ Len(tc) \in Nat /\ DOMAIN tc = 1 .. Len(tc)
      /\ x \in Nat /\ x # NoId
    BY <1>1, <1>2, LenProperties, Numbers
<1>4. ASSUME NEW i \in Tracked(x) PROVE i = Len(tc) /\ Opened(m, "call", k, s)
    <2>1. i \in 1 .. Len(tc) /\ tc[i].key = x /\ tc[i].tracked
        BY <1>1, <1>3 DEF Tracked
    <2>2. tc[i].key < x \/ (i = Len(tc) /\ Opened(m, "call", k, s))
        BY <1>1, <1>2, <2>1 DEF Keyed
    <2>3. ~(x < x)
        BY <1>3
    <2>4. QED
        BY <2>1, <2>2, <2>3
<1>5. ~Opened(m, "call", k, s) => Tracked(x) = {}
    BY <1>4
<1>6. ASSUME Opened(m, "call", k, s), "added" \in m.call
      PROVE  Len(tc) \in 1 .. Len(tc) /\ Tracked(x) = {Len(tc)} /\ PlaceOf(x) = Len(tc)
    <2>1. Len(tc) # 0 /\ tc[Len(tc)].tracked /\ tc[Len(tc)].key = x
        BY <1>1, <1>2, <1>6 DEF Current
    <2>2. Len(tc) \in 1 .. Len(tc)
        BY <1>3, <2>1
    <2>3. Len(tc) \in Tracked(x)
        BY <1>1, <1>3, <2>1, <2>2 DEF Tracked
    <2>4. Tracked(x) = {Len(tc)}
        BY <1>4, <2>3
    <2>5. PlaceOf(x) \in Tracked(x)
        BY <2>3 DEF PlaceOf
    <2>6. QED
        BY <2>2, <2>4, <2>5
<1>7. QED
    BY <1>1, <1>2, <1>5, <1>6

LEMMA EntryReplaced ==
    ASSUME NEW tc \in Seq(Entries), NEW n \in 1 .. Len(tc), NEW d \in Entries
    PROVE  Replaced(tc, [tc EXCEPT ![n] = d], n, d)
<1>1. PICK uc : uc = [tc EXCEPT ![n] = d]
    OBVIOUS
<1>2. DOMAIN tc = 1 .. Len(tc) /\ n \in DOMAIN tc /\ Len(tc) \in Nat
    BY LenProperties
<1>3. uc \in Seq(Entries) /\ Len(uc) = Len(tc)
    BY <1>1, <1>2, ExceptSeq
<1>4. uc[n] = d /\ \A i \in 1 .. Len(tc) : i # n => uc[i] = tc[i]
    BY <1>1, <1>2
<1>5. QED
    BY <1>1, <1>2, <1>3, <1>4 DEF Replaced

\* Arguments are written after the chunk of the role, if there are any.
LEMMA ArgumentsEffect ==
    ASSUME NEW cs \in Seq(Chunks), NEW n \in Nat \ {0}, NEW text \in Seq(Nat)
    PROVE  \E ds \in Seq(Chunks), us \in Seq(Chunks) :
              /\ TextIn(us) = TextIn(cs) /\ Alike(cs, ds)
              /\ us = cs \o (Role \o ArgumentsChunk(n, text))
              /\ Extended(ds, us, n, text)
<1>1. PICK ds \in Seq(Chunks) :
         /\ ds = cs \o Role /\ TextIn(ds) = TextIn(cs) /\ Alike(cs, ds)
         /\ \A c \in Chunks : cs \o (Role \o <<c>>) = Append(ds, c)
    BY RoleEffect
<1>2. PICK c : c = Chunk("args", n - 1, text)
    OBVIOUS
<1>3. c \in Chunks /\ n - 1 \in Nat
    <2>1. "args" \in Kinds /\ n - 1 \in Nat
        BY DEF Kinds
    <2>2. QED
        BY <1>2, <2>1, ChunkType
<1>4. CASE text = <<>>
    <2>1. ArgumentsChunk(n, text) = <<>>
        BY <1>4 DEF ArgumentsChunk
    <2>2. Role \o <<>> = Role
        <3>1. PICK r : r = Chunk("role", 0, <<>>)
            OBVIOUS
        <3>2. Role = <<>> \/ Role = <<r>>
            BY <3>1 DEF Role
        <3>3. <<>> \in Seq({r}) /\ <<r>> \in Seq({r})
            OBVIOUS
        <3>4. Role \in Seq({r})
            BY <3>2, <3>3
        <3>5. QED
            BY <3>4, ConcatEmptySeq
    <2>3. QED
        BY <1>1, <1>4, <2>1, <2>2 DEF Extended
<1>5. CASE text # <<>>
    <2>1. ArgumentsChunk(n, text) = <<c>>
        BY <1>2, <1>5 DEF ArgumentsChunk
    <2>2. PICK us : us = Append(ds, c)
        OBVIOUS
    <2>3. us = cs \o (Role \o ArgumentsChunk(n, text))
        BY <1>1, <1>3, <2>1, <2>2
    <2>4. us \in Seq(Chunks) /\ TextIn(us) = TextIn(ds)
        BY <1>1, <1>2, <1>3, <2>2, ReadCall DEF CallRead
    <2>5. QED
        BY <1>1, <1>2, <1>5, <2>2, <2>3, <2>4 DEF Extended
<1>6. QED
    BY <1>4, <1>5

SameText(st, su) ==
    /\ su \in States /\ su.outputTextDone = st.outputTextDone
    /\ su.outputItemDone = st.outputItemDone /\ su.sawDelta = st.sawDelta

\* The call that is open grows by a text, or is closed.
LEMMA CallGrows ==
    ASSUME Typed, NEW m, IsMessage(m), NEW k \in 1 .. Size(m), NEW s \in 0 .. 4, s # 0,
           m.items[k] = "call", "added" \in m.call, Reading(m, k, s, client, state),
           NEW n, n = Len(state.toolCalls), n \in Nat \ {0}, NEW text, NEW su, NEW d,
           Becomes(su, Role \o ArgumentsChunk(n, text)), SameText(state, su),
           NEW tc, tc = state.toolCalls, NEW uc, uc = su.toolCalls, Grows(m, k, s, tc, uc, d, text)
    PROVE  Fair(m) \/ Advances(m, k, s + 1)
<1>1. client \in Seq(Chunks) /\ state \in States /\ text \in Seq(Nat)
    BY DEF Reading, Grows
<1>2. PICK ds \in Seq(Chunks), us \in Seq(Chunks) :
         /\ TextIn(us) = TextIn(client) /\ Alike(client, ds)
         /\ us = client \o (Role \o ArgumentsChunk(n, text))
         /\ Extended(ds, us, n, text)
    BY <1>1, ArgumentsEffect
<1>3. TextPart(m, k, s + 1, us, su)
    BY <1>1, <1>2, TextStays DEF Reading, SameText
<1>4. CallPart(m, k, s, ds, tc)
    BY <1>2, CallAlike DEF Reading
<1>5. CallPart(m, k, s + 1, us, uc)
    <2>1. ds \in Seq(Chunks) /\ Extended(ds, us, Len(tc), text)
        BY <1>2
    <2>2. QED
        BY <1>4, <2>1, CallGrown
<1>6. QED
    BY <1>2, <1>3, <1>5, BecomesAdvances DEF SameText

\* A call is announced: the client is told of a new one.
LEMMA CallAnnounced ==
    ASSUME Typed, NEW m, IsMessage(m), NoId \notin Nat \ {0}, NEW k \in 1 .. Size(m), NEW s \in 0 .. 4,
           m.items[k] = "call", Reading(m, k, s, client, state),
           ~Opened(m, "call", k, s), Opened(m, "call", k, s + 1),
           NEW c \in Entries, c.arguments = Partial(m, k, s + 1),
           c.key = ItemId(k), c.id = CallId(k), ~c.finalized, c.tracked <=> "added" \in m.call,
           NEW su, su = [state EXCEPT !.wroteRole = TRUE, !.sawToolCall = TRUE,
                                      !.toolCalls = Append(@, c)],
           Becomes(su, Append(Role, Chunk("call", Len(state.toolCalls), c.arguments)))
    PROVE  Fair(m) \/ Advances(m, k, s + 1)
<1>1. client \in Seq(Chunks) /\ state \in States /\ state.toolCalls \in Seq(Entries)
    BY DEF Reading, States
<1>2. PICK tc, uc, n : tc = state.toolCalls /\ uc = Append(tc, c) /\ n = Len(tc)
    OBVIOUS
<1>3. uc \in Seq(Entries) /\ n \in Nat
    BY <1>1, <1>2, ContentsAppend, LenProperties
<1>4. /\ su \in States /\ su.toolCalls = uc /\ su.sawDelta = state.sawDelta
      /\ su.outputTextDone = state.outputTextDone /\ su.outputItemDone = state.outputItemDone
    BY <1>1, <1>2, <1>3 DEF States
<1>5. PICK ds \in Seq(Chunks) :
         /\ TextIn(ds) = TextIn(client) /\ Alike(client, ds)
         /\ \A x \in Chunks : client \o Append(Role, x) = Append(ds, x)
    BY <1>1, RoleEffect
<1>6. PICK x, us : x = Chunk("call", n, c.arguments) /\ us = Append(ds, x)
    OBVIOUS
<1>7. c.arguments \in Seq(Nat) /\ "call" \in Kinds
    BY DEF Entries, Kinds
<1>8. client \o Append(Role, x) = us
    <2>1. x \in Chunks
        BY <1>3, <1>6, <1>7, ChunkType
    <2>2. QED
        BY <1>5, <1>6, <2>1
<1>9. us \in Seq(Chunks) /\ TextIn(us) = TextIn(client)
    BY <1>3, <1>5, <1>6, <1>7, ReadCall DEF CallRead
<1>10. TextPart(m, k, s + 1, us, su)
    BY <1>1, <1>4, <1>9, TextStays DEF Reading
<1>11. CallPart(m, k, s, ds, tc)
    BY <1>2, <1>5, CallAlike DEF Reading
<1>12. CallPart(m, k, s + 1, us, uc)
    BY <1>2, <1>6, <1>11, CallOpened
<1>13. QED
    BY <1>2, <1>4, <1>6, <1>8, <1>9, <1>10, <1>12, BecomesAdvances

\* What the reader does with an event of the call that is open at place s.
LEMMA CallOpen ==
    ASSUME NEW m, IsMessage(m), NoId \notin Nat \ {0}, NEW k \in 1 .. Size(m), NEW s \in 0 .. 4,
           s # 0, m.items[k] = "call", "added" \in m.call, Reading(m, k, s, client, state)
    PROVE  \E n \in Nat \ {0}, c \in Entries :
              /\ n = Len(state.toolCalls) /\ n \in 1 .. Len(state.toolCalls)
              /\ c = state.toolCalls[n] /\ c.arguments = Partial(m, k, s)
              /\ Tracked(ItemId(k)) = {n} /\ PlaceOf(ItemId(k)) = n
              /\ c.id = CallId(k) /\ (c.finalized => "whole" \in m.call)
<1>1. PICK tc : tc = state.toolCalls
    OBVIOUS
<1>2. /\ tc \in Seq(Entries) /\ Contents(tc) = CallsSoFar(m, "call", k, s)
      /\ Keyed(m, k, s, tc) /\ Current(m, k, s, tc)
    BY <1>1 DEF Reading, CallPart
<1>3. Opened(m, "call", k, s) /\ k \in Nat \ {0}
    BY ItemEventsType DEF Opened
<1>4. Len(tc) \in 1 .. Len(tc) /\ Tracked(ItemId(k)) = {Len(tc)} /\ PlaceOf(ItemId(k)) = Len(tc)
    BY <1>1, <1>2, <1>3, TrackedCall
<1>5. PICK n : n = Len(tc)
    OBVIOUS
<1>6. n \in Nat \ {0} /\ n \in 1 .. Len(tc) /\ Tracked(ItemId(k)) = {n} /\ PlaceOf(ItemId(k)) = n
    BY <1>2, <1>4, <1>5, LenProperties
<1>7. PICK c : c = tc[n]
    OBVIOUS
<1>8. c \in Entries
    BY <1>2, <1>6, <1>7, ContentsType
<1>9. c.id = CallId(k) /\ (c.finalized => "whole" \in m.call)
    <2>1. s # 5
        OBVIOUS
    <2>2. QED
        BY <1>2, <1>3, <1>5, <1>7, <2>1 DEF Current
<1>10. c.arguments = Partial(m, k, s)
    <2>1. PICK a, x : a = Earlier(m, "call", k) /\ x = Partial(m, k, s)
        OBVIOUS
    <2>2. k \in 1 .. Size(m) + 1
        BY ItemEventsType
    <2>3. a \in Seq(Seq(Nat))
        BY <2>1, <2>2, EarlierStep
    <2>4. Contents(tc) = a \o <<x>>
        BY <1>2, <1>3, <2>1 DEF CallsSoFar
    <2>5. Replaced(tc, tc, Len(tc), c)
        BY <1>2, <1>5, <1>6, <1>7 DEF Replaced
    <2>6. tc[Len(tc)].arguments = x
        BY <1>2, <2>3, <2>4, <2>5, ContentsLast DEF LastChanged
    <2>7. QED
        BY <1>5, <1>7, <2>1, <2>6
<1>11. QED
    BY <1>1, <1>5, <1>6, <1>7, <1>8, <1>9, <1>10

\* A delta of the arguments of the call that is open.
LEMMA DeltaHandled ==
    ASSUME Typed, NEW m, IsMessage(m), NoId \notin Nat \ {0}, NEW k \in 1 .. Size(m),
           NEW s \in {1, 2}, m.items[k] = "call", "deltas" \in m.call, "added" \in m.call,
           Reading(m, k, s, client, state),
           NEW e, ArgumentsDelta(e), e.key = ItemId(k), e.text = <<Pieces(k)[s]>>
    PROVE  Fair(m) \/ Advances(m, k, s + 1)
<1>1. s \in 0 .. 4 /\ s # 0 /\ k \in Nat
    BY ItemEventsType
<1>2. PICK n \in Nat \ {0}, c \in Entries :
              /\ n = Len(state.toolCalls) /\ n \in 1 .. Len(state.toolCalls)
              /\ c = state.toolCalls[n] /\ c.arguments = Partial(m, k, s)
              /\ Tracked(ItemId(k)) = {n} /\ PlaceOf(ItemId(k)) = n
    BY <1>1, CallOpen
<1>3. PICK t : t = <<Pieces(k)[s]>>
    OBVIOUS
<1>4. t \in Seq(Nat) /\ t # <<>> /\ Partial(m, k, s + 1) = Partial(m, k, s) \o t
    <2>1. t \in Seq(Nat) /\ t # <<>>
        BY <1>1, <1>3, PiecesType
    <2>2. s = 1 \/ s = 2
        OBVIOUS
    <2>3. /\ Partial(m, k, 2) = Partial(m, k, 1) \o <<Pieces(k)[1]>>
          /\ Partial(m, k, 3) = Partial(m, k, 2) \o <<Pieces(k)[2]>>
        BY <1>1, PartialStep
    <2>4. CASE s = 1
        BY <1>3, <2>1, <2>3, <2>4
    <2>5. CASE s = 2
        BY <1>3, <2>1, <2>3, <2>5
    <2>6. QED
        BY <2>2, <2>4, <2>5
<1>5. PICK tc, d, su : /\ tc = state.toolCalls
                       /\ d = [c EXCEPT !.arguments = @ \o t]
                       /\ su = [Extends(state, n, t) EXCEPT !.wroteRole = TRUE, !.sawToolCall = TRUE]
    OBVIOUS
<1>6. state \in States /\ tc \in Seq(Entries)
    BY <1>5 DEF Reading, States
<1>7. /\ d \in Entries /\ d.arguments = c.arguments \o t /\ d.key = c.key /\ d.id = c.id
      /\ d.tracked = c.tracked /\ d.finalized = c.finalized
    <2>1. c.arguments \o t \in Seq(Nat)
        BY <1>4, ConcatProperties DEF Entries
    <2>2. QED
        BY <1>5, <2>1 DEF Entries
<1>8. PICK uc : uc = [tc EXCEPT ![n] = d]
    OBVIOUS
<1>9. Replaced(tc, uc, n, d) /\ uc \in Seq(Entries)
    <2>1. n \in 1 .. Len(tc)
        BY <1>2, <1>5
    <2>2. Replaced(tc, uc, n, d)
        BY <1>6, <1>7, <1>8, <2>1, EntryReplaced
    <2>3. QED
        BY <2>2 DEF Replaced
<1>10. /\ su \in States /\ su.toolCalls = uc /\ su.sawDelta = state.sawDelta
       /\ su.outputTextDone = state.outputTextDone /\ su.outputItemDone = state.outputItemDone
    BY <1>2, <1>5, <1>6, <1>8, <1>9 DEF States, Extends
<1>11. Becomes(su, Role \o ArgumentsChunk(n, t))
    BY <1>2, <1>3, <1>4, <1>5 DEF ArgumentsDelta
<1>12. Grows(m, k, s, tc, uc, d, t)
    BY <1>2, <1>4, <1>5, <1>7, <1>9 DEF Grows
<1>13. SameText(state, su)
    BY <1>10 DEF SameText
<1>14. QED
    BY <1>1, <1>2, <1>5, <1>10, <1>11, <1>12, <1>13, CallGrows

\* The whole arguments of the call that is open: what is not there yet is sent, and it is closed.
LEMMA WholeHandled ==
    ASSUME Typed, NEW m, IsMessage(m), NoId \notin Nat \ {0}, NEW k \in 1 .. Size(m),
           NEW s \in {3, 4}, m.items[k] = "call", "added" \in m.call,
           s = 3 => "whole" \in m.call, Reading(m, k, s, client, state),
           NEW n, n = Len(state.toolCalls), Completes(n, Pieces(k), Role)
    PROVE  Fair(m) \/ Advances(m, k, s + 1)
<1>1. s \in 0 .. 4 /\ s # 0 /\ k \in Nat
    BY ItemEventsType
<1>2. PICK c \in Entries :
              /\ n \in Nat \ {0} /\ n \in 1 .. Len(state.toolCalls)
              /\ c = state.toolCalls[n] /\ c.arguments = Partial(m, k, s)
    BY <1>1, CallOpen
<1>3. Partial(m, k, s) \in {<<>>, Pieces(k)} /\ Partial(m, k, s + 1) = Pieces(k)
    <2>1. s = 3 \/ s = 4
        OBVIOUS
    <2>2. /\ Partial(m, k, 3) \in {<<>>, Pieces(k)} /\ Partial(m, k, 4) \in {<<>>, Pieces(k)}
          /\ "whole" \in m.call => Partial(m, k, 4) = Pieces(k)
          /\ Partial(m, k, 5) = Pieces(k)
        BY <1>1, PartialStep
    <2>3. CASE s = 3
        <3>1. s + 1 = 4
            BY <2>3
        <3>2. QED
            BY <2>2, <2>3, <3>1
    <2>4. CASE s = 4
        <3>1. s + 1 = 5
            BY <2>4
        <3>2. QED
            BY <2>2, <2>4, <3>1
    <2>5. QED
        BY <2>1, <2>3, <2>4
<1>4. PICK p, w, t : /\ p = Pieces(k) /\ w = c.arguments
                     /\ t = IF IsPrefix(w, p) THEN Suffix(p, w) ELSE <<>>
    OBVIOUS
<1>5. p \in Seq(Nat) /\ Len(p) = 2
    BY <1>1, <1>4, PiecesType
<1>6. t \in Seq(Nat) /\ p = w \o t
    <2>1. CASE w = <<>>
        <3>1. IsPrefix(w, p)
            BY <1>5, <2>1 DEF IsPrefix
        <3>2. Suffix(p, w) = p
            <4>1. Len(w) = 0
                BY <2>1
            <4>2. SubSeq(p, 1, Len(p)) = p
                BY <1>5, SubSeqFull
            <4>3. QED
                BY <4>1, <4>2 DEF Suffix
        <3>3. <<>> \o p = p
            BY <1>5, ConcatEmptySeq
        <3>4. QED
            BY <1>4, <1>5, <2>1, <3>1, <3>2, <3>3
    <2>2. CASE w = p
        <3>1. Suffix(p, w) = <<>>
            <4>1. SubSeq(p, 2 + 1, 2) = <<>>
                BY <1>5, SubSeqEmpty
            <4>2. QED
                BY <1>5, <2>2, <4>1 DEF Suffix
        <3>2. p \o <<>> = p /\ <<>> \in Seq(Nat)
            BY <1>5, ConcatEmptySeq
        <3>3. QED
            BY <1>4, <2>2, <3>1, <3>2
    <2>3. QED
        BY <1>2, <1>3, <1>4, <2>1, <2>2
<1>7. PICK tc, d, su : /\ tc = state.toolCalls
                       /\ d = [c EXCEPT !.arguments = @ \o t, !.finalized = TRUE]
                       /\ su = [Extends(state, n, t)
                                  EXCEPT !.toolCalls[n].finalized = TRUE,
                                         !.wroteRole = TRUE, !.sawToolCall = TRUE]
    OBVIOUS
<1>8. state \in States /\ tc \in Seq(Entries)
    BY <1>7 DEF Reading, States
<1>9. /\ d \in Entries /\ d.arguments = c.arguments \o t /\ d.key = c.key /\ d.id = c.id
      /\ d.tracked = c.tracked
    <2>1. c.arguments \o t \in Seq(Nat)
        BY <1>6, ConcatProperties DEF Entries
    <2>2. QED
        BY <1>7, <2>1 DEF Entries
<1>10. PICK uc : uc = [tc EXCEPT ![n] = d]
    OBVIOUS
<1>11. Replaced(tc, uc, n, d) /\ uc \in Seq(Entries)
    <2>1. n \in 1 .. Len(tc)
        BY <1>2, <1>7
    <2>2. Replaced(tc, uc, n, d)
        BY <1>8, <1>9, <1>10, <2>1, EntryReplaced
    <2>3. QED
        BY <2>2 DEF Replaced
<1>12. /\ su \in States /\ su.toolCalls = uc /\ su.sawDelta = state.sawDelta
       /\ su.outputTextDone = state.outputTextDone /\ su.outputItemDone = state.outputItemDone
    <2>1. PICK sv : sv = Extends(state, n, t)
        OBVIOUS
    <2>2. PICK vc : vc = [tc EXCEPT ![n].arguments = @ \o t]
        OBVIOUS
    <2>3. sv = [state EXCEPT !.toolCalls = vc]
        BY <1>7, <1>8, <2>1, <2>2 DEF Extends, States
    <2>4. [vc EXCEPT ![n].finalized = TRUE] = uc
        BY <1>2, <1>7, <1>8, <1>10, <2>2 DEF Entries
    <2>5. su = [state EXCEPT !.toolCalls = uc, !.wroteRole = TRUE, !.sawToolCall = TRUE]
        BY <1>7, <1>8, <2>1, <2>3, <2>4 DEF States
    <2>6. QED
        BY <1>8, <1>11, <2>5 DEF States
<1>13. Becomes(su, Role \o ArgumentsChunk(n, t))
    BY <1>2, <1>4, <1>7 DEF Completes
<1>14. Partial(m, k, s + 1) = Partial(m, k, s) \o t
    BY <1>2, <1>3, <1>4, <1>6
<1>15. d.finalized => "whole" \in m.call \/ s + 1 = 5
    <2>1. s = 3 \/ s + 1 = 5
        OBVIOUS
    <2>2. QED
        BY <2>1
<1>16. Grows(m, k, s, tc, uc, d, t)
    BY <1>2, <1>6, <1>7, <1>9, <1>11, <1>14, <1>15 DEF Grows
<1>17. SameText(state, su)
    BY <1>12 DEF SameText
<1>18. uc = su.toolCalls /\ s \in 0 .. 4 /\ k \in 1 .. Size(m) /\ m.items[k] = "call"
    BY <1>1, <1>2, <1>12
<1>19. n = Len(state.toolCalls) /\ n \in Nat \ {0} /\ "added" \in m.call /\ s # 0
    BY <1>2, <1>7
<1>20. Becomes(su, Role \o ArgumentsChunk(n, t)) /\ Reading(m, k, s, client, state)
    BY <1>13
<1>21. QED
    BY <1>7, <1>16, <1>17, <1>18, <1>19, <1>20, CallGrows

\* What the event of a call says.
CallSays(e, k, j, item, delta, done) ==
    /\ e.key = ItemId(k) /\ e.usage = "absent"
    /\ j = 1 => /\ e.type = "response.output_item.added" /\ e.item = item
                /\ e.id = CallId(k) /\ e.text = <<>>
    /\ j = 2 => e.type = delta /\ e.text = <<Pieces(k)[1]>> /\ e.id = NoId
    /\ j = 3 => e.type = delta /\ e.text = <<Pieces(k)[2]>> /\ e.id = NoId
    /\ j = 4 => e.type = done /\ e.text = Pieces(k) /\ e.id = NoId
    /\ j = 5 => /\ e.type = "response.output_item.done" /\ e.item = item
                /\ e.id = CallId(k) /\ e.text = Pieces(k)

LEMMA CallEventSays ==
    ASSUME NEW k, NEW j, j \in 1 .. 5, NEW item, NEW delta, NEW done, NEW e,
           e = CallEventAt(k, j, item, delta, done)
    PROVE  CallSays(e, k, j, item, delta, done)
<1>1. j = 1 \/ j = 2 \/ j = 3 \/ j = 4 \/ j = 5
    OBVIOUS
<1>2. PICK a, b, p, q, r : /\ a = ItemId(k) /\ b = CallId(k) /\ p = Pieces(k)
                           /\ q = <<Pieces(k)[1]>> /\ r = <<Pieces(k)[2]>>
    OBVIOUS
<1>3. CASE j = 1
    <2>1. PICK x, t : x = "response.output_item.added" /\ t = <<>>
        OBVIOUS
    <2>2. e = Event(x, item, a, b, t)
        BY <1>2, <1>3, <2>1 DEF CallEventAt
    <2>3. QED
        BY <1>2, <1>3, <2>1, <2>2, EventFields DEF CallSays
<1>4. CASE j = 2
    <2>1. e = Event(delta, "none", a, NoId, q)
        <3>1. j - 1 = 1
            BY <1>4
        <3>2. QED
            BY <1>2, <1>4, <3>1 DEF CallEventAt
    <2>2. QED
        BY <1>2, <1>4, <2>1, EventFields DEF CallSays
<1>5. CASE j = 3
    <2>1. e = Event(delta, "none", a, NoId, r)
        <3>1. j - 1 = 2
            BY <1>5
        <3>2. QED
            BY <1>2, <1>5, <3>1 DEF CallEventAt
    <2>2. QED
        BY <1>2, <1>5, <2>1, EventFields DEF CallSays
<1>6. CASE j = 4
    <2>1. e = Event(done, "none", a, NoId, p)
        BY <1>2, <1>6 DEF CallEventAt
    <2>2. QED
        BY <1>2, <1>6, <2>1, EventFields DEF CallSays
<1>7. CASE j = 5
    <2>1. PICK x : x = "response.output_item.done"
        OBVIOUS
    <2>2. e = Event(x, item, a, b, p)
        BY <1>2, <1>7, <2>1 DEF CallEventAt
    <2>3. QED
        BY <1>2, <1>7, <2>1, <2>2, EventFields DEF CallSays
<1>8. QED
    BY <1>1, <1>3, <1>4, <1>5, <1>6, <1>7

TextSays(e, j) ==
    /\ e.usage = "absent"
    /\ j \in {2, 3} => e.type = "response.output_text.delta"
    /\ j = 4 => e.type = "response.output_text.done"
    /\ j = 5 => e.type = "response.output_item.done" /\ e.item = "message"

LEMMA TextEventSays ==
    ASSUME NEW k, NEW j, j \in 2 .. 5, NEW e, e = TextEventAt(k, j)
    PROVE  TextSays(e, j)
<1>1. j = 2 \/ j = 3 \/ j = 4 \/ j = 5
    OBVIOUS
<1>2. CASE j \in {2, 3}
    <2>1. PICK x, q : x = "response.output_text.delta" /\ q = <<Pieces(k)[j - 1]>>
        OBVIOUS
    <2>2. e = Event(x, "none", NoId, NoId, q)
        BY <1>2, <2>1 DEF TextEventAt
    <2>3. QED
        BY <1>2, <2>1, <2>2, EventFields DEF TextSays
<1>3. CASE j = 4
    <2>1. PICK x, q : x = "response.output_text.done" /\ q = Pieces(k)
        OBVIOUS
    <2>2. e = Event(x, "none", NoId, NoId, q)
        BY <1>3, <2>1 DEF TextEventAt
    <2>3. QED
        BY <1>3, <2>1, <2>2, EventFields DEF TextSays
<1>4. CASE j = 5
    <2>1. PICK x, q : x = "response.output_item.done" /\ q = Pieces(k)
        OBVIOUS
    <2>2. e = Event(x, "message", NoId, NoId, q)
        BY <1>4, <2>1 DEF TextEventAt
    <2>3. QED
        BY <1>4, <2>1, <2>2, EventFields DEF TextSays
<1>5. QED
    BY <1>1, <1>2, <1>3, <1>4

\* The events of a call.
LEMMA CallHandled ==
    ASSUME Typed, NEW m, IsMessage(m), NoId \notin Nat \ {0}, NEW k \in 1 .. Size(m), NEW s \in 0 .. 4,
           Present(m, k, s + 1), m.items[k] = "call", Reading(m, k, s, client, state),
           NEW e, e.key = ItemId(k), e.text = <<>> \/ s # 0,
           s \in {0, 4} => e.id = CallId(k),
           s \in {1, 2} => e.text = <<Pieces(k)[s]>>, s \in {3, 4} => e.text = Pieces(k),
           \/ s = 0 /\ CallAdded(e)
           \/ s \in {1, 2} /\ ArgumentsDelta(e)
           \/ s = 3 /\ ArgumentsDone(e)
           \/ s = 4 /\ CallDone(e)
    PROVE  Fair(m) \/ Advances(m, k, s + 1)
<1>1. k \in Nat \ {0} /\ k \in Nat
    BY ItemEventsType
<1>2. /\ Way(1) = "added" /\ Way(2) = "deltas" /\ Way(3) = "deltas" /\ Way(4) = "whole"
      /\ Way(5) = "item"
    BY DEF Way
<1>3. Way(s + 1) \in m.call /\ (m.call \cap {"deltas", "whole"} # {} => "added" \in m.call)
    BY DEF Present, WaysOf, IsMessage
<1>4. /\ state \in States /\ state.toolCalls \in Seq(Entries)
      /\ Keyed(m, k, s, state.toolCalls) /\ Current(m, k, s, state.toolCalls)
    BY DEF Reading, CallPart
<1>5. /\ ItemId(k) \in Keys /\ CallId(k) \in Keys /\ CallId(k) # NoId
    BY <1>1, Numbers
<1>6. Pieces(k) \in Seq(Nat) /\ Pieces(k) # <<>> /\ <<>> \in Seq(Nat)
    BY <1>1, PiecesType, EmptySeq
<1>7. CASE s = 0
    <2>1. ~Opened(m, "call", k, s) /\ Opened(m, "call", k, s + 1) /\ "added" \in m.call
        BY <1>2, <1>3, <1>7 DEF Opened
    <2>2. Tracked(e.key) = {}
        BY <1>1, <1>4, <2>1, TrackedCall
    <2>3. PICK c : c = NewCall(e.key, e.id, TRUE)
        OBVIOUS
    <2>4. /\ c \in Entries /\ c.arguments = <<>> /\ c.key = ItemId(k) /\ c.id = CallId(k)
          /\ ~c.finalized /\ c.tracked
        BY <1>5, <1>6, <1>7, <2>3 DEF NewCall, Entries
    <2>5. PICK su : su = [state EXCEPT !.wroteRole = TRUE, !.sawToolCall = TRUE,
                                       !.toolCalls = Append(@, c)]
        OBVIOUS
    <2>6. Becomes(su, Append(Role, Chunk("call", Len(state.toolCalls), <<>>)))
        <3>1. CallAdded(e) /\ e.id # NoId
            BY <1>5, <1>7
        <3>2. [[state EXCEPT !.wroteRole = TRUE, !.sawToolCall = TRUE]
                  EXCEPT !.toolCalls = Append(@, c)] = su
            BY <1>4, <2>5 DEF States
        <3>3. QED
            BY <2>2, <2>3, <3>1, <3>2 DEF CallAdded
    <2>7. Partial(m, k, s + 1) = <<>>
        <3>1. s + 1 = 1
            BY <1>7
        <3>2. QED
            BY <1>1, <3>1, PartialStep
    <2>8. QED
        BY <2>1, <2>4, <2>5, <2>6, <2>7, CallAnnounced
<1>8. CASE s \in {1, 2}
    <2>1. "deltas" \in m.call /\ "added" \in m.call
        <3>1. s + 1 = 2 \/ s + 1 = 3
            BY <1>8
        <3>2. QED
            BY <1>2, <1>3, <3>1
    <2>2. ArgumentsDelta(e)
        BY <1>8
    <2>3. QED
        BY <1>8, <2>1, <2>2, DeltaHandled
<1>9. CASE s = 3
    <2>1. "whole" \in m.call /\ "added" \in m.call
        BY <1>2, <1>3, <1>9
    <2>2. PICK n : n = Len(state.toolCalls)
        OBVIOUS
    <2>3. PICK c \in Entries :
              /\ c = state.toolCalls[n] /\ c.arguments = Partial(m, k, s)
              /\ Tracked(ItemId(k)) = {n} /\ PlaceOf(ItemId(k)) = n
        BY <1>9, <2>1, <2>2, CallOpen
    <2>4. IsPrefix(c.arguments, Pieces(k))
        <3>1. PICK p, w : p = Pieces(k) /\ w = c.arguments
            OBVIOUS
        <3>2. w = <<>> \/ w = p
            <4>1. Partial(m, k, 3) \in {<<>>, Pieces(k)}
                BY <1>1, PartialStep
            <4>2. QED
                BY <1>9, <2>3, <3>1, <4>1
        <3>3. p \in Seq(Nat) /\ Len(p) = 2
            BY <1>1, <3>1, PiecesType
        <3>4. IsPrefix(<<>>, p)
            BY <3>3 DEF IsPrefix
        <3>5. IsPrefix(p, p)
            BY <3>3 DEF IsPrefix
        <3>6. QED
            BY <3>1, <3>2, <3>4, <3>5
    <2>5. Completes(n, Pieces(k), Role)
        <3>1. PICK p : p = Pieces(k)
            OBVIOUS
        <3>2. p # <<>> /\ e.text = p
            BY <1>6, <1>9, <3>1
        <3>3. Tracked(e.key) # {} /\ PlaceOf(e.key) = n /\ Call(e.key) = c
            BY <2>3 DEF Call
        <3>4. IsPrefix(Call(e.key).arguments, e.text)
            BY <2>4, <3>1, <3>2, <3>3
        <3>5. ArgumentsDone(e)
            BY <1>9
        <3>6. Completes(PlaceOf(e.key), e.text, Role)
            BY <3>2, <3>3, <3>4, <3>5 DEF ArgumentsDone
        <3>7. QED
            BY <3>1, <3>2, <3>3, <3>6
    <2>6. QED
        BY <1>9, <2>1, <2>2, <2>5, WholeHandled
<1>10. CASE s = 4 /\ "added" \in m.call
    <2>1. PICK n : n = Len(state.toolCalls)
        OBVIOUS
    <2>2. PICK c \in Entries :
              /\ c = state.toolCalls[n] /\ (c.finalized => "whole" \in m.call)
              /\ Tracked(ItemId(k)) = {n} /\ PlaceOf(ItemId(k)) = n
        BY <1>10, <2>1, CallOpen
    <2>3. CallDone(e) /\ e.id # NoId /\ Tracked(e.key) # {}
        BY <1>5, <1>10, <2>2
    <2>4. CASE c.finalized
        <3>1. {"whole", "item"} \subseteq m.call
            BY <1>2, <1>3, <1>10, <2>2, <2>4
        <3>2. Rejects("upstream_invalid_response", Role)
            BY <2>2, <2>3, <2>4 DEF CallDone, Call
        <3>3. QED
            BY <3>1, <3>2, FailsFair DEF Rejects
    <2>5. CASE ~c.finalized
        <3>1. Completes(n, Pieces(k), Role)
            BY <1>10, <2>2, <2>3, <2>5 DEF CallDone, Call
        <3>2. QED
            BY <1>10, <2>1, <3>1, WholeHandled
    <2>6. QED
        BY <2>4, <2>5
<1>11. CASE s = 4 /\ "added" \notin m.call
    <2>1. ~Opened(m, "call", k, s) /\ Opened(m, "call", k, s + 1)
        BY <1>11 DEF Opened
    <2>2. Tracked(e.key) = {}
        BY <1>1, <1>4, <2>1, TrackedCall
    <2>3. PICK c : c = [NewCall(e.key, e.id, FALSE) EXCEPT !.arguments = e.text]
        OBVIOUS
    <2>4. /\ c \in Entries /\ c.arguments = Pieces(k) /\ c.key = ItemId(k) /\ c.id = CallId(k)
          /\ ~c.finalized /\ ~c.tracked
        BY <1>5, <1>6, <1>11, <2>3 DEF NewCall, Entries
    <2>5. PICK su : su = [state EXCEPT !.wroteRole = TRUE, !.sawToolCall = TRUE,
                                       !.toolCalls = Append(@, c)]
        OBVIOUS
    <2>6. Becomes(su, Append(Role, Chunk("call", Len(state.toolCalls), c.arguments)))
        <3>1. CallDone(e) /\ e.id # NoId /\ e.text = c.arguments
            BY <1>5, <1>11, <2>4
        <3>2. QED
            BY <2>2, <2>3, <2>5, <3>1 DEF CallDone
    <2>7. Partial(m, k, s + 1) = Pieces(k)
        <3>1. s + 1 = 5
            BY <1>11
        <3>2. QED
            BY <1>1, <3>1, PartialStep
    <2>8. QED
        BY <1>11, <2>1, <2>4, <2>5, <2>6, <2>7, CallAnnounced
<1>12. QED
    BY <1>7, <1>8, <1>9, <1>10, <1>11

\* A custom call ends the stream; what would come of it later is not read.
LEMMA CustomHandled ==
    ASSUME Typed, NEW m, IsMessage(m), NEW k \in 1 .. Size(m), NEW s \in 0 .. 4,
           Present(m, k, s + 1), m.items[k] = "custom", Reading(m, k, s, client, state),
           NEW e, e.item = "custom_tool_call" \/ s \notin {0, 4},
           \/ s = 0 /\ ItemAdded(e)
           \/ s = 4 /\ ItemDone(e)
           \/ s \in {1, 2, 3} /\ Ignores
    PROVE  Fair(m) \/ Advances(m, k, s + 1)
<1>1. Has(m, "custom")
    BY ItemEventsType DEF Has
<1>2. CASE s \in {0, 4}
    <2>1. Rejects("upstream_invalid_response", <<>>)
        BY <1>2 DEF ItemAdded, ItemDone
    <2>2. QED
        BY <1>1, <2>1, FailsFair DEF Rejects
<1>3. CASE s \in {1, 2, 3}
    <2>1. client \in Seq(Chunks) /\ state \in States
        BY DEF Reading
    <2>2. PICK ds : ds = client \o <<>>
        OBVIOUS
    <2>3. ds = client
        BY <2>1, <2>2, ClientPlain
    <2>4. TextPart(m, k, s + 1, ds, state)
        BY <2>1, <2>3, TextStays DEF Reading
    <2>5. CallPart(m, k, s + 1, ds, state.toolCalls)
        BY <2>3, CallSame DEF Reading, Alike
    <2>6. Becomes(state, <<>>)
        BY <1>3 DEF Ignores
    <2>7. QED
        BY <2>1, <2>2, <2>3, <2>4, <2>5, <2>6, BecomesAdvances
<1>4. QED
    BY <1>2, <1>3

\* An event of an item, whatever it is.
LEMMA Handled ==
    ASSUME Typed, NEW m, IsMessage(m), NoId \notin Nat \ {0}, NEW k \in 1 .. Size(m), NEW s \in 0 .. 4,
           Present(m, k, s + 1), Reading(m, k, s, client, state),
           NEW e, e = EventAt(m, k, s + 1), StreamEvent(e)
    PROVE  Fair(m) \/ Advances(m, k, s + 1)
<1>1. k \in Nat \ {0} /\ m.items[k] \in ItemKinds
    BY ItemEventsType DEF IsMessage
<1>2. s = 0 \/ s = 1 \/ s = 2 \/ s = 3 \/ s = 4
    OBVIOUS
<1>3. CASE state.events >= MaxEvents
    <2>1. Fails("upstream_event_limit", "event_limit")
        BY <1>3 DEF StreamEvent
    <2>2. QED
        BY <2>1, FailsFair
<1>4. CASE ~(state.events >= MaxEvents) /\ m.items[k] = "text"
    <2>1. s # 0
        <3>1. Way(1) \notin m.text
            BY DEF Way, IsMessage, Forms
        <3>2. QED
            BY <1>4, <3>1 DEF Present, WaysOf
    <2>2. e = TextEventAt(k, s + 1) /\ s + 1 \in 2 .. 5
        BY <1>4, <2>1 DEF EventAt
    <2>3. /\ s \in {1, 2} => e.type = "response.output_text.delta"
          /\ s = 3 => e.type = "response.output_text.done"
          /\ s = 4 => e.type = "response.output_item.done"
        <3>1. PICK j : j = s + 1
            OBVIOUS
        <3>2. TextSays(e, j)
            BY <2>2, <3>1, TextEventSays
        <3>3. (s \in {1, 2} => j \in {2, 3}) /\ (s = 3 => j = 4) /\ (s = 4 => j = 5)
            BY <3>1
        <3>4. QED
            BY <3>2, <3>3 DEF TextSays
    <2>4. \/ s \in {1, 2} /\ TextDelta(e)
          \/ s = 3 /\ TextDone(e)
          \/ s = 4 /\ ItemDone(e)
        BY <1>2, <1>4, <2>1, <2>3 DEF StreamEvent
    <2>5. QED
        BY <1>4, <2>4, TextHandled
<1>5. CASE ~(state.events >= MaxEvents) /\ m.items[k] = "call"
    <2>1. e = CallEventAt(k, s + 1, "function_call", "response.function_call_arguments.delta",
                          "response.function_call_arguments.done")
        BY <1>5 DEF EventAt
    <2>2. s + 1 \in 1 .. 5
        OBVIOUS
    <2>3. /\ e.key = ItemId(k)
          /\ s = 0 => /\ e.type = "response.output_item.added" /\ e.item = "function_call"
                      /\ e.id = CallId(k) /\ e.text = <<>>
          /\ s = 1 => e.type = "response.function_call_arguments.delta" /\ e.text = <<Pieces(k)[1]>>
          /\ s = 2 => e.type = "response.function_call_arguments.delta" /\ e.text = <<Pieces(k)[2]>>
          /\ s = 3 => e.type = "response.function_call_arguments.done" /\ e.text = Pieces(k)
          /\ s = 4 => /\ e.type = "response.output_item.done" /\ e.item = "function_call"
                      /\ e.id = CallId(k) /\ e.text = Pieces(k)
        <3>1. PICK j, item, delta, done :
                 /\ j = s + 1 /\ item = "function_call"
                 /\ delta = "response.function_call_arguments.delta"
                 /\ done = "response.function_call_arguments.done"
            OBVIOUS
        <3>2. CallSays(e, k, j, item, delta, done)
            BY <2>1, <2>2, <3>1, CallEventSays
        <3>3. /\ (s = 0 => j = 1) /\ (s = 1 => j = 2) /\ (s = 2 => j = 3)
              /\ (s = 3 => j = 4) /\ (s = 4 => j = 5)
            BY <3>1
        <3>4. QED
            BY <3>1, <3>2, <3>3 DEF CallSays
    <2>4. \/ s = 0 /\ CallAdded(e)
          \/ s \in {1, 2} /\ ArgumentsDelta(e)
          \/ s = 3 /\ ArgumentsDone(e)
          \/ s = 4 /\ CallDone(e)
        <3>1. CASE s = 0
            BY <1>5, <2>3, <3>1 DEF StreamEvent, ItemAdded
        <3>2. CASE s \in {1, 2}
            BY <1>5, <2>3, <3>2 DEF StreamEvent
        <3>3. CASE s = 3
            BY <1>5, <2>3, <3>3 DEF StreamEvent
        <3>4. CASE s = 4
            BY <1>5, <2>3, <3>4 DEF StreamEvent, ItemDone
        <3>5. QED
            BY <1>2, <3>1, <3>2, <3>3, <3>4
    <2>5. s \in {1, 2} => e.text = <<Pieces(k)[s]>>
        BY <2>3
    <2>6. QED
        BY <1>5, <2>3, <2>4, <2>5, CallHandled
<1>6. CASE ~(state.events >= MaxEvents) /\ m.items[k] = "custom"
    <2>1. e = CallEventAt(k, s + 1, "custom_tool_call", "response.custom_tool_call_input.delta",
                          "response.custom_tool_call_input.done")
        BY <1>6 DEF EventAt
    <2>2. s + 1 \in 1 .. 5
        OBVIOUS
    <2>3. /\ s = 0 => e.type = "response.output_item.added" /\ e.item = "custom_tool_call"
          /\ s \in {1, 2} => e.type = "response.custom_tool_call_input.delta"
          /\ s = 3 => e.type = "response.custom_tool_call_input.done"
          /\ s = 4 => e.type = "response.output_item.done" /\ e.item = "custom_tool_call"
        <3>1. PICK j, item, delta, done :
                 /\ j = s + 1 /\ item = "custom_tool_call"
                 /\ delta = "response.custom_tool_call_input.delta"
                 /\ done = "response.custom_tool_call_input.done"
            OBVIOUS
        <3>2. CallSays(e, k, j, item, delta, done)
            BY <2>1, <2>2, <3>1, CallEventSays
        <3>3. /\ (s = 0 => j = 1) /\ (s = 1 => j = 2) /\ (s = 2 => j = 3)
              /\ (s = 3 => j = 4) /\ (s = 4 => j = 5)
            BY <3>1
        <3>4. QED
            BY <3>1, <3>2, <3>3 DEF CallSays
    <2>4. \/ s = 0 /\ ItemAdded(e)
          \/ s = 4 /\ ItemDone(e)
          \/ s \in {1, 2, 3} /\ Ignores
        BY <1>2, <1>6, <2>3 DEF StreamEvent
    <2>5. QED
        BY <1>2, <1>6, <2>3, <2>4, CustomHandled
<1>7. QED
    BY <1>1, <1>4, <1>5, <1>6, <1>3 DEF ItemKinds

\* No event of an item ends the answer.
LEMMA ItemEventType ==
    ASSUME NEW m, IsMessage(m), NEW k \in 1 .. Size(m), NEW s \in 0 .. 4, Present(m, k, s + 1),
           NEW e, e = EventAt(m, k, s + 1)
    PROVE  e.type # "response.completed"
<1>1. m.items[k] \in ItemKinds
    BY ItemEventsType DEF IsMessage
<1>2. s = 0 \/ s = 1 \/ s = 2 \/ s = 3 \/ s = 4
    OBVIOUS
<1>3. CASE m.items[k] = "text"
    <2>1. s # 0
        <3>1. Way(1) \notin m.text
            BY DEF Way, IsMessage, Forms
        <3>2. QED
            BY <1>3, <3>1 DEF Present, WaysOf
    <2>2. e = TextEventAt(k, s + 1) /\ s + 1 \in 2 .. 5
        BY <1>3, <2>1 DEF EventAt
    <2>3. PICK j : j = s + 1
        OBVIOUS
    <2>4. TextSays(e, j) /\ j \in {2, 3, 4, 5}
        BY <1>2, <2>1, <2>2, <2>3, TextEventSays
    <2>5. QED
        BY <2>4 DEF TextSays
<1>4. ASSUME NEW item, NEW delta, NEW done, delta # "response.completed", done # "response.completed",
             e = CallEventAt(k, s + 1, item, delta, done)
      PROVE  e.type # "response.completed"
    <2>1. s + 1 \in 1 .. 5
        OBVIOUS
    <2>2. PICK j : j = s + 1
        OBVIOUS
    <2>3. CallSays(e, k, j, item, delta, done)
        BY <1>4, <2>1, <2>2, CallEventSays
    <2>4. j = 1 \/ j = 2 \/ j = 3 \/ j = 4 \/ j = 5
        BY <1>2, <2>2
    <2>5. QED
        BY <1>4, <2>3, <2>4 DEF CallSays
<1>5. CASE m.items[k] # "text"
    BY <1>1, <1>4, <1>5 DEF EventAt, ItemKinds
<1>6. QED
    BY <1>3, <1>5

LEMMA EventAdds ==
    ASSUME Typed, NEW e, StreamEvent(e), e.type # "response.completed"
    PROVE  Adds
<1>1. CASE state.events >= MaxEvents
    BY <1>1, NoChunk, FailsEffect DEF StreamEvent, Adds, Writes
<1>2. CASE ~(state.events >= MaxEvents)
    <2>1. ASSUME NEW class, Fails(class, "upstream_error"), Writes(<<>>) PROVE Adds
        BY <2>1, NoChunk, FailsEffect DEF Adds, Writes
    <2>2. QED
        BY <1>2, <2>1, NoChunk, TextEvent, CallEvent, ItemEvent,
           BecomesEffect, RejectsEffect DEF StreamEvent, Ignores
<1>3. QED
    BY <1>1, <1>2
-----------------------------------------------------------------------------
(* The end of the stream. *)

\* What the client has is the message.
Exactly(m, cs) ==
    /\ [n \in DOMAIN CallsIn(cs) |-> ArgumentsIn(cs, CallsIn(cs)[n])] = Flatten(Listed(m, "call"))
    /\ ("deltas" \in m.text \/ ~Has(m, "call")) => TextIn(cs) = Flatten(Flatten(Listed(m, "text")))

LEMMA PushJoined ==
    ASSUME NEW S, NEW s \in Seq(S), NEW t \in Seq(S), NEW x \in S
    PROVE  s \o Append(t, x) = Append(s \o t, x) /\ Append(t, x) \in Seq(S) /\ s \o t \in Seq(S)
<1>1. <<x>> \in Seq(S) /\ s \o t \in Seq(S)
    BY ConcatProperties
<1>2. Append(t, x) = t \o <<x>> /\ Append(s \o t, x) = (s \o t) \o <<x>>
    BY <1>1, AppendIsConcat
<1>3. (s \o t) \o <<x>> = s \o (t \o <<x>>)
    BY <1>1, ConcatAssociative
<1>4. Append(t, x) \in Seq(S)
    BY AppendProperties
<1>5. QED
    BY <1>1, <1>2, <1>3, <1>4

LEMMA FinishReads ==
    ASSUME NEW cs \in Seq(Chunks), NEW p \in Seq(Chunks), NEW usage, NEW q, q = p \o FinishChunks(usage)
    PROVE  /\ q \in Seq(Chunks) /\ q # <<>> /\ q[Len(q)].kind = "done"
           /\ TextIn(cs \o q) = TextIn(cs \o p) /\ Alike(cs \o p, cs \o q)
<1>1. PICK f, u, d : /\ f = Chunk("finish", 0, <<>>) /\ u = Chunk("usage", 0, <<>>)
                     /\ d = Chunk("done", 0, <<>>)
    OBVIOUS
<1>2. f \in Chunks /\ u \in Chunks /\ d \in Chunks /\ d.kind = "done"
    <2>1. PICK t, z : t = <<>> /\ z = 0
        OBVIOUS
    <2>2. /\ "finish" \in Kinds /\ "usage" \in Kinds /\ "done" \in Kinds
          /\ z \in Nat /\ t \in Seq(Nat)
        BY <2>1, EmptySeq DEF Kinds
    <2>3. /\ f = Chunk("finish", z, t) /\ u = Chunk("usage", z, t) /\ d = Chunk("done", z, t)
        BY <1>1, <2>1
    <2>4. QED
        BY <2>2, <2>3, ChunkType
<1>3. PICK r : r = IF IncludeUsage /\ usage THEN Append(Append(p, f), u) ELSE Append(p, f)
    OBVIOUS
<1>4. r \in Seq(Chunks) /\ Append(p, f) \in Seq(Chunks)
    BY <1>2, <1>3, AppendProperties
<1>5. q = Append(r, d)
    <2>1. <<f>> \in Seq(Chunks) /\ <<u>> \in Seq(Chunks) /\ <<d>> \in Seq(Chunks)
        BY <1>2
    <2>2. /\ Append(p, f) = p \o <<f>> /\ Append(Append(p, f), u) = Append(p, f) \o <<u>>
          /\ Append(r, d) = r \o <<d>>
        BY <1>2, <1>4, AppendIsConcat
    <2>3. CASE IncludeUsage /\ usage
        <3>1. FinishChunks(usage) = (<<f>> \o <<u>>) \o <<d>>
            BY <1>1, <2>3 DEF FinishChunks
        <3>2. p \o ((<<f>> \o <<u>>) \o <<d>>) = ((p \o <<f>>) \o <<u>>) \o <<d>>
            <4>1. <<f>> \o <<u>> \in Seq(Chunks)
                BY <2>1, ConcatProperties
            <4>2. p \o ((<<f>> \o <<u>>) \o <<d>>) = (p \o (<<f>> \o <<u>>)) \o <<d>>
                BY <2>1, <4>1, ConcatAssociative
            <4>3. p \o (<<f>> \o <<u>>) = (p \o <<f>>) \o <<u>>
                BY <2>1, ConcatAssociative
            <4>4. QED
                BY <4>2, <4>3
        <3>3. QED
            BY <1>3, <2>2, <2>3, <3>1, <3>2
    <2>4. CASE ~(IncludeUsage /\ usage)
        <3>1. FinishChunks(usage) = (<<f>> \o <<>>) \o <<d>>
            BY <1>1, <2>4 DEF FinishChunks
        <3>2. <<f>> \o <<>> = <<f>>
            BY <2>1, ConcatEmptySeq
        <3>3. p \o (<<f>> \o <<d>>) = (p \o <<f>>) \o <<d>>
            BY <2>1, ConcatAssociative
        <3>4. QED
            BY <1>3, <2>2, <2>4, <3>1, <3>2, <3>3
    <2>5. QED
        BY <2>3, <2>4
<1>6. q \in Seq(Chunks) /\ q # <<>> /\ q[Len(q)] = d
    BY <1>2, <1>4, <1>5, AppendProperties
<1>7. ASSUME NEW t \in Seq(Chunks), NEW c \in {f, u, d}
      PROVE  TextIn(cs \o Append(t, c)) = TextIn(cs \o t) /\ Alike(cs \o t, cs \o Append(t, c))
    <2>1. PICK z : z = cs \o t
        OBVIOUS
    <2>2. z \in Seq(Chunks) /\ cs \o Append(t, c) = Append(z, c)
        BY <1>2, <2>1, PushJoined
    <2>3. TextIn(Append(z, c)) = TextIn(z) /\ Alike(z, Append(z, c))
        BY <1>1, <2>2, ReadMark DEF Alike
    <2>4. QED
        BY <2>1, <2>2, <2>3
<1>8. TextIn(cs \o r) = TextIn(cs \o p) /\ Alike(cs \o p, cs \o r)
    <2>1. PICK a : a = Append(p, f)
        OBVIOUS
    <2>2. a \in Seq(Chunks) /\ (r = a \/ r = Append(a, u))
        BY <1>3, <1>4, <2>1
    <2>3. TextIn(cs \o a) = TextIn(cs \o p) /\ Alike(cs \o p, cs \o a)
        BY <1>7, <2>1
    <2>4. TextIn(cs \o Append(a, u)) = TextIn(cs \o a) /\ Alike(cs \o a, cs \o Append(a, u))
        BY <1>7, <2>2
    <2>5. QED
        BY <2>2, <2>3, <2>4 DEF Alike
<1>9. TextIn(cs \o q) = TextIn(cs \o r) /\ Alike(cs \o r, cs \o q)
    BY <1>4, <1>5, <1>7
<1>10. QED
    BY <1>2, <1>6, <1>8, <1>9 DEF Alike

\* What was kept back completes the text, or nothing is missing.
LEMMA KeptCompletes ==
    ASSUME NEW m, IsMessage(m), NEW cs \in Seq(Chunks), state \in States,
           TextPart(m, Size(m) + 1, 0, cs, state)
    PROVE  /\ KeptText \in Seq(Nat)
           /\ ("deltas" \in m.text \/ ~Has(m, "call")) =>
                TextIn(cs) \o KeptText = Flatten(Flatten(Listed(m, "text")))
<1>1. PICK T, a, b, c : /\ T = Flatten(Flatten(Listed(m, "text"))) /\ a = TextIn(cs)
                        /\ b = state.outputTextDone /\ c = state.outputItemDone
    OBVIOUS
<1>2. a \in Seq(Nat) /\ b \in Seq(Nat) /\ c \in Seq(Nat) /\ <<>> \in Seq(Nat)
    BY <1>1, ReadType, EmptySeq DEF States
<1>3. /\ a = IF "deltas" \in m.text THEN T ELSE <<>>
      /\ b = IF "whole" \in m.text THEN T ELSE <<>>
      /\ c = IF "item" \in m.text THEN T ELSE <<>>
      /\ m.text \cap Forms = {} => T = <<>>
    BY <1>1, TextLast DEF TextPart, Forms
<1>4. PICK kept : kept = KeptText
    OBVIOUS
<1>5. /\ state.sawDelta \/ state.sawToolCall => kept = <<>>
      /\ ~(state.sawDelta \/ state.sawToolCall) /\ b # <<>> => kept = b
      /\ ~(state.sawDelta \/ state.sawToolCall) /\ b = <<>> => kept = c
    BY <1>1, <1>4 DEF KeptText
<1>6. /\ state.sawDelta => "deltas" \in m.text
      /\ ~state.sawDelta => a = <<>>
      /\ state.sawToolCall => Has(m, "call")
      /\ state.sawDelta \in BOOLEAN /\ state.sawToolCall \in BOOLEAN
    BY <1>1 DEF TextPart, States
<1>7. kept \in Seq(Nat)
    BY <1>2, <1>5, <1>6
<1>8. a \o <<>> = a /\ <<>> \o kept = kept
    BY <1>2, <1>7, ConcatEmptySeq
<1>9. ASSUME "deltas" \in m.text PROVE a \o kept = T
    <2>1. a = T
        BY <1>3, <1>9
    <2>2. kept = <<>>
        <3>1. CASE state.sawDelta
            BY <1>5, <3>1
        <3>2. CASE ~state.sawDelta
            <4>1. T = <<>>
                BY <1>6, <2>1, <3>2
            <4>2. b = <<>> /\ c = <<>>
                BY <1>3, <4>1
            <4>3. QED
                BY <1>5, <4>2
        <3>3. QED
            BY <3>1, <3>2
    <2>3. QED
        BY <1>8, <2>1, <2>2
<1>10. ASSUME "deltas" \notin m.text, ~Has(m, "call") PROVE a \o kept = T
    <2>1. a = <<>> /\ ~state.sawDelta /\ ~state.sawToolCall
        BY <1>3, <1>6, <1>10
    <2>2. kept = T
        <3>1. CASE "whole" \in m.text
            <4>1. b = T /\ (T = <<>> => c = <<>>)
                BY <1>3, <3>1
            <4>2. QED
                BY <1>5, <2>1, <4>1
        <3>2. CASE "whole" \notin m.text /\ "item" \in m.text
            BY <1>3, <1>5, <2>1, <3>2
        <3>3. CASE "whole" \notin m.text /\ "item" \notin m.text
            <4>1. m.text \cap Forms = {}
                BY <1>10, <3>3 DEF Forms
            <4>2. QED
                BY <1>3, <1>5, <2>1, <3>3, <4>1
        <3>4. QED
            BY <3>1, <3>2, <3>3
    <2>3. QED
        BY <1>8, <2>1, <2>2
<1>11. QED
    BY <1>1, <1>4, <1>7, <1>9, <1>10

\* After the last item the client was told of every call with its arguments.
LEMMA CallsComplete ==
    ASSUME NEW m, IsMessage(m), NEW cs, NEW tc, CallPart(m, Size(m) + 1, 0, cs, tc)
    PROVE  [n \in DOMAIN CallsIn(cs) |-> ArgumentsIn(cs, CallsIn(cs)[n])] = Flatten(Listed(m, "call"))
<1>1. tc \in Seq(Entries) /\ Mirror(cs, tc)
    BY DEF CallPart
<1>2. PICK N, f, g : N = Len(tc) /\ f = CallsIn(cs) /\ g = Contents(tc)
    OBVIOUS
<1>3. N \in Nat /\ DOMAIN tc = 1 .. N
    BY <1>1, <1>2, LenProperties
<1>4. f = [n \in 1 .. N |-> n - 1] /\ DOMAIN f = 1 .. N
    BY <1>1, <1>2 DEF Mirror
<1>5. ASSUME NEW n \in 1 .. N PROVE ArgumentsIn(cs, f[n]) = tc[n].arguments
    <2>1. f[n] = n - 1 /\ n - 1 \in Nat /\ n - 1 < N /\ (n - 1) + 1 = n
        BY <1>3, <1>4
    <2>2. QED
        BY <1>1, <1>2, <2>1 DEF Mirror
<1>6. [n \in DOMAIN f |-> ArgumentsIn(cs, f[n])] = [n \in 1 .. N |-> tc[n].arguments]
    BY <1>4, <1>5
<1>7. g = [n \in 1 .. N |-> tc[n].arguments]
    BY <1>2, <1>3 DEF Contents
<1>8. g = Flatten(Listed(m, "call"))
    <2>1. Size(m) + 1 \in 1 .. Size(m) + 1
        BY ItemEventsType
    <2>2. PICK a : a = Earlier(m, "call", Size(m) + 1)
        OBVIOUS
    <2>3. a \in Seq(Seq(Nat))
        BY <2>1, <2>2, EarlierStep
    <2>4. a \o <<>> = a
        BY <2>3, ConcatEmptySeq
    <2>5. g = a
        BY <1>2, <2>2, <2>4 DEF CallPart, CallsSoFar, Opened
    <2>6. QED
        BY <2>2, <2>5, EarlierStep
<1>9. QED
    BY <1>2, <1>6, <1>7, <1>8

\* The last event of a stream.
LEMMA EndHandled ==
    ASSUME Typed, NEW m, IsMessage(m), Reading(m, Size(m) + 1, 0, client, state),
           NEW e, StreamEvent(e), UNCHANGED client,
           e.type \in {"response.completed", "error", "response.failed", "response.incomplete"}
    PROVE  \/ /\ reader' = "failing"
              /\ summary'.CompletionStatus = "upstream_invalid" => e.usage = "partial"
           \/ /\ reader' = reader /\ summary'.CompletionStatus = summary.CompletionStatus
              /\ summary'.Done = summary.Done
              /\ pending' \in Seq(Chunks) /\ pending' # <<>> /\ pending'[Len(pending')].kind = "done"
              /\ client \in Seq(Chunks) /\ Exactly(m, client \o pending')
<1>1. client \in Seq(Chunks) /\ state \in States
    BY DEF Reading
<1>2. ASSUME NEW class, NEW status, Fails(class, status)
      PROVE  reader' = "failing" /\ summary'.CompletionStatus = status
    BY <1>2 DEF Fails, Typed, NoSummary
<1>3. CASE state.events >= MaxEvents
    <2>1. Fails("upstream_event_limit", "event_limit")
        BY <1>3 DEF StreamEvent
    <2>2. QED
        BY <1>2, <2>1
<1>4. CASE ~(state.events >= MaxEvents) /\ e.type # "response.completed"
    <2>1. Fails(e.class, "upstream_error")
        BY <1>4 DEF StreamEvent
    <2>2. QED
        BY <1>2, <2>1
<1>5. CASE ~(state.events >= MaxEvents) /\ e.type = "response.completed" /\ e.usage = "partial"
    <2>1. Completion(e, KeptText)
        BY <1>5 DEF StreamEvent
    <2>2. Fails("upstream_stream_invalid", "upstream_invalid")
        BY <1>5, <2>1 DEF Completion, Rejects
    <2>3. QED
        BY <1>2, <1>5, <2>2
<1>6. CASE ~(state.events >= MaxEvents) /\ e.type = "response.completed" /\ e.usage # "partial"
    <2>1. Completion(e, KeptText)
        BY <1>6 DEF StreamEvent
    <2>2. PICK kept, usage : kept = KeptText /\ usage = (e.usage = "complete")
        OBVIOUS
    <2>3. PICK p : p = IF kept = <<>> THEN <<>> ELSE Append(Role, Chunk("text", 0, kept))
        OBVIOUS
    <2>4. /\ reader' = reader /\ pending' = p \o FinishChunks(usage)
          /\ summary'.CompletionStatus = summary.CompletionStatus /\ summary'.Done = summary.Done
        BY <1>6, <2>1, <2>2, <2>3 DEF Completion, Writes, Typed, NoSummary
    <2>5. TextPart(m, Size(m) + 1, 0, client, state)
        BY DEF Reading
    <2>6. /\ kept \in Seq(Nat)
          /\ ("deltas" \in m.text \/ ~Has(m, "call")) =>
                TextIn(client) \o kept = Flatten(Flatten(Listed(m, "text")))
        BY <1>1, <2>2, <2>5, KeptCompletes
    <2>7. PICK cp : cp = client \o p
        OBVIOUS
    <2>8. p \in Seq(Chunks) /\ TextIn(cp) = TextIn(client) \o kept /\ Alike(client, cp)
        <3>1. CASE kept = <<>>
            <4>1. p = <<>> /\ cp = client
                BY <1>1, <2>3, <2>7, <3>1, ClientPlain
            <4>2. TextIn(client) \o <<>> = TextIn(client)
                BY <1>1, ReadType, ConcatEmptySeq
            <4>3. QED
                BY <3>1, <4>1, <4>2, EmptySeq DEF Alike
        <3>2. CASE kept # <<>>
            <4>1. PICK c : c = Chunk("text", 0, kept)
                OBVIOUS
            <4>2. c \in Chunks
                <5>1. "text" \in Kinds /\ 0 \in Nat
                    BY DEF Kinds
                <5>2. QED
                    BY <2>6, <4>1, <5>1, ChunkType
            <4>3. PICK ds \in Seq(Chunks) :
                     /\ TextIn(ds) = TextIn(client) /\ Alike(client, ds)
                     /\ \A x \in Chunks : client \o Append(Role, x) = Append(ds, x)
                BY <1>1, RoleEffect
            <4>4. p = Append(Role, c) /\ cp = Append(ds, c)
                BY <2>3, <2>7, <3>2, <4>1, <4>2, <4>3
            <4>5. p \in Seq(Chunks)
                <5>1. Role \in Seq(Chunks)
                    <6>1. PICK r : r = Chunk("role", 0, <<>>)
                        OBVIOUS
                    <6>2. r \in Chunks
                        <7>1. PICK t, z : t = <<>> /\ z = 0
                            OBVIOUS
                        <7>2. "role" \in Kinds /\ z \in Nat /\ t \in Seq(Nat)
                            BY <7>1, EmptySeq DEF Kinds
                        <7>3. r = Chunk("role", z, t)
                            BY <6>1, <7>1
                        <7>4. QED
                            BY <7>2, <7>3, ChunkType
                    <6>3. r \in Chunks
                        BY <6>2
                    <6>4. <<>> \in Seq(Chunks) /\ <<r>> \in Seq(Chunks)
                        BY <6>3
                    <6>5. Role = <<>> \/ Role = <<r>>
                        BY <6>1 DEF Role
                    <6>6. QED
                        BY <6>4, <6>5
                <5>2. QED
                    BY <4>2, <4>4, <5>1, AppendProperties
            <4>6. TextIn(cp) = TextIn(ds) \o kept /\ Alike(ds, cp)
                BY <2>6, <4>1, <4>4, ReadText DEF Alike
            <4>7. QED
                BY <4>3, <4>5, <4>6 DEF Alike
        <3>3. QED
            BY <3>1, <3>2
    <2>9. PICK q, cq : q = pending' /\ cq = client \o q
        OBVIOUS
    <2>10. /\ q \in Seq(Chunks) /\ q # <<>> /\ q[Len(q)].kind = "done"
           /\ TextIn(cq) = TextIn(cp) /\ Alike(cp, cq)
        <3>1. q = p \o FinishChunks(usage)
            BY <2>4, <2>9
        <3>2. client \in Seq(Chunks) /\ p \in Seq(Chunks)
            BY <1>1, <2>8
        <3>3. /\ q \in Seq(Chunks) /\ q # <<>> /\ q[Len(q)].kind = "done"
              /\ TextIn(client \o q) = TextIn(client \o p) /\ Alike(client \o p, client \o q)
            BY <3>1, <3>2, FinishReads
        <3>4. QED
            BY <2>7, <2>9, <3>3
    <2>11. CallPart(m, Size(m) + 1, 0, cq, state.toolCalls)
        <3>1. Alike(client, cq)
            BY <2>8, <2>10 DEF Alike
        <3>2. QED
            BY <3>1, CallAlike DEF Reading
    <2>12. Exactly(m, cq)
        <3>1. [n \in DOMAIN CallsIn(cq) |-> ArgumentsIn(cq, CallsIn(cq)[n])]
                = Flatten(Listed(m, "call"))
            BY <2>11, CallsComplete
        <3>2. QED
            BY <2>6, <2>8, <2>10, <3>1 DEF Exactly
    <2>13. QED
        BY <1>1, <2>4, <2>9, <2>10, <2>12
<1>7. QED
    BY <1>3, <1>4, <1>5, <1>6
-----------------------------------------------------------------------------
(* The streaming reader while nothing disturbs the stream.                 *)

\* Somewhere in the message, with all that was read of it in chunks cs.
ReadUpTo(cs) ==
    \E k \in 1 .. Size(message) + 1, s \in 0 .. 5 :
       Stands(message, rest, k, s) /\ Reading(message, k, s, cs, state)

Amid == ContentOnly(pending) /\ ReadUpTo(client \o pending)

\* The reader is about to end an answer that is the message.
Closing ==
    /\ pending # <<>> /\ pending[Len(pending)].kind = "done"
    /\ Exactly(message, client \o pending)

Undisturbed ==
    /\ reader = "connecting" => ReadUpTo(client)
    /\ reader = "reading" =>
         client \in Seq(Chunks) /\ pending \in Seq(Chunks) /\ (Amid \/ Closing)
    /\ summary.Done => Exactly(message, client \o pending)

ReaderInv ==
    /\ faults \in Nat
    /\ adapter = "codex" =>
         /\ IsMessage(message)
         /\ summary.Done => reader = "ended"
         /\ faults = 0 => Undisturbed

LEMMA MessageTyped ==
    ASSUME Init, adapter # "chat"
    PROVE  IsMessage(message) /\ rest = Stream(message)
<1>1. /\ message.items \in Messages /\ message.text \in TextWays \cup {{}}
      /\ message.call \in CallWays \cup {{}} /\ message.ending \in Endings
      /\ message.text = {} <=> ~Has(message, "text")
      /\ message.call = {} <=> ~(Has(message, "call") \/ Has(message, "custom"))
      /\ rest = Stream(message)
    BY DEF Init
<1>2. message.items \in Seq(ItemKinds)
    BY <1>1, CodexAssumption DEF ItemKinds
<1>3. message.text \subseteq Forms
    BY <1>1, CodexAssumption DEF Forms
<1>4. /\ message.call # {} => message.call \cap Forms # {}
      /\ message.call \cap {"deltas", "whole"} # {} => "added" \in message.call
    BY <1>1, CodexAssumption DEF Forms
<1>5. \/ message.ending = <<>>
      \/ /\ message.ending = <<message.ending[1]>>
         /\ message.ending[1].type \in {"response.completed", "error", "response.failed",
                                        "response.incomplete"}
    BY <1>1, CodexAssumption
<1>6. QED
    BY <1>1, <1>2, <1>3, <1>4, <1>5 DEF IsMessage

LEMMA ReaderInit ==
    ASSUME Init
    PROVE  ReaderInv
<1>1. /\ faults = 0 /\ reader = "connecting" /\ summary = NoSummary
      /\ pending = <<>> /\ client = <<>> /\ state = NewState
    BY DEF Init
<1>2. ~summary.Done
    BY <1>1 DEF NoSummary
<1>3. ASSUME adapter = "codex" PROVE IsMessage(message) /\ ReadUpTo(client)
    <2>1. IsMessage(message) /\ rest = Stream(message)
        BY <1>3, MessageTyped
    <2>2. Stands(message, rest, 1, 0) /\ Reading(message, 1, 0, client, state)
        BY <1>1, <2>1, StandsFirst, ReadingFirst
    <2>3. 1 \in 1 .. Size(message) + 1 /\ 0 \in 0 .. 5
        BY <2>1, ItemEventsType
    <2>4. QED
        BY <2>1, <2>2, <2>3 DEF ReadUpTo
<1>4. QED
    BY <1>1, <1>2, <1>3 DEF ReaderInv, Undisturbed

\* Of the places up to which all was read the last.
LEMMA ReadSettles ==
    ASSUME NEW m, m = message, IsMessage(m), NEW cs, ReadUpTo(cs)
    PROVE  \E k \in 1 .. Size(m) + 1, s \in 0 .. 5 :
              /\ Stands(m, rest, k, s) /\ Reading(m, k, s, cs, state)
              /\ k # Size(m) + 1 => s \in 0 .. 4 /\ Present(m, k, s + 1)
<1>1. PICK N : N = Size(m)
    OBVIOUS
<1>2. N \in Nat
    BY <1>1, ItemEventsType
<1> DEFINE Z == {z \in (1 .. N + 1) \X (0 .. 5) :
                   Stands(m, rest, z[1], z[2]) /\ Reading(m, z[1], z[2], cs, state)}
<1>3. \A k \in 1 .. N + 1, s \in 0 .. 5 :
         <<k, s>> \in Z <=> Stands(m, rest, k, s) /\ Reading(m, k, s, cs, state)
    OBVIOUS
<1>4. Z \subseteq (1 .. N + 1) \X (0 .. 5) /\ Z # {}
    <2>1. PICK k \in 1 .. N + 1, s \in 0 .. 5 :
             Stands(m, rest, k, s) /\ Reading(m, k, s, cs, state)
        BY <1>1 DEF ReadUpTo
    <2>2. <<k, s>> \in Z
        BY <1>3, <2>1
    <2>3. QED
        BY <2>2
<1> HIDE DEF Z
<1>5. PICK k \in 1 .. N + 1, s \in 0 .. 5 :
         /\ <<k, s>> \in Z
         /\ k # N + 1 /\ s # 5 => <<k, s + 1>> \notin Z
         /\ k # N + 1 /\ s = 5 => <<k + 1, 0>> \notin Z
    BY <1>2, <1>4, Settles
<1>6. Stands(m, rest, k, s) /\ Reading(m, k, s, cs, state)
    BY <1>3, <1>5
<1>7. ASSUME k # N + 1 PROVE s \in 0 .. 4 /\ Present(m, k, s + 1)
    <2>1. k \in 1 .. N /\ k \in 1 .. Size(m)
        BY <1>1, <1>2, <1>7
    <2>2. s # 5
        <3>1. SUFFICES ASSUME s = 5 PROVE FALSE
            OBVIOUS
        <3>2. Stands(m, rest, k + 1, 0) /\ Reading(m, k + 1, 0, cs, state)
            BY <1>6, <2>1, <3>1, StandsNext, ReadingNext
        <3>3. k + 1 \in 1 .. N + 1 /\ 0 \in 0 .. 5
            BY <1>2, <2>1
        <3>4. <<k + 1, 0>> \in Z
            BY <1>3, <3>2, <3>3
        <3>5. QED
            BY <1>5, <1>7, <3>1, <3>4
    <2>3. s \in 0 .. 4 /\ s + 1 \in 0 .. 5
        BY <2>2
    <2>4. Present(m, k, s + 1)
        <3>1. SUFFICES ASSUME ~Present(m, k, s + 1) PROVE FALSE
            OBVIOUS
        <3>2. Stands(m, rest, k, s + 1) /\ Reading(m, k, s + 1, cs, state)
            BY <1>6, <2>1, <2>3, <3>1, StandsPast, ReadingPast
        <3>3. <<k, s + 1>> \in Z
            BY <1>3, <2>3, <3>2
        <3>4. QED
            BY <1>5, <1>7, <2>2, <3>3
    <2>5. QED
        BY <2>3, <2>4
<1>8. QED
    BY <1>1, <1>6, <1>7

LEMMA RestOfSeq ==
    ASSUME NEW S, NEW c \in Seq(S), NEW p, IsSeq(p), c \o p \in Seq(S)
    PROVE  p \in Seq(S)
<1>1. PICK T : T = {p[i] : i \in DOMAIN p}
    OBVIOUS
<1>2. p \in Seq(T)
    BY <1>1 DEF IsSeq
<1>3. PICK U : U = S \cup T
    OBVIOUS
<1>4. c \in Seq(U) /\ p \in Seq(U)
    BY <1>2, <1>3, SeqMonotonic
<1>5. PICK q : q = c \o p
    OBVIOUS
<1>6. /\ Len(c) \in Nat /\ Len(p) \in Nat /\ Len(q) = Len(c) + Len(p)
      /\ \A i \in 1 .. Len(c) + Len(p) : q[i] = IF i <= Len(c) THEN c[i] ELSE p[i - Len(c)]
    BY <1>4, <1>5, ConcatProperties, LenProperties
<1>7. \A i \in 1 .. Len(q) : q[i] \in S
    BY <1>5
<1>8. ASSUME NEW i \in 1 .. Len(p) PROVE p[i] \in S
    <2>1. /\ Len(c) + i \in 1 .. Len(c) + Len(p) /\ ~(Len(c) + i <= Len(c))
          /\ (Len(c) + i) - Len(c) = i
        BY <1>6
    <2>2. q[Len(c) + i] = p[i]
        BY <1>6, <2>1
    <2>3. QED
        BY <1>6, <1>7, <2>1, <2>2
<1>9. p \in [1 .. Len(p) -> S]
    <2>1. p \in [1 .. Len(p) -> U]
        BY <1>4
    <2>2. QED
        BY <1>8, <2>1
<1>10. QED
    BY <1>6, <1>9, SeqDef

\* The next event of an undisturbed stream.
NextRead(e) ==
    \/ /\ reader' = "failing"
       /\ summary'.CompletionStatus = "upstream_invalid" =>
            {"whole", "item"} \subseteq message.call \/ Has(message, "custom") \/ e.usage = "partial"
    \/ /\ reader' = reader /\ summary'.CompletionStatus = summary.CompletionStatus
       /\ client' \in Seq(Chunks) /\ pending' \in Seq(Chunks) /\ (Amid \/ Closing)'

LEMMA NextEvent ==
    ASSUME StreamInv, adapter = "codex", reader = "reading", pending = <<>>, IsMessage(message),
           client \in Seq(Chunks), ReadUpTo(client), rest # <<>>, NEW e, e = Head(rest),
           StreamEvent(e), rest' = Tail(rest), UNCHANGED <<client, message>>
    PROVE  NextRead(e)
<1>1. PICK m : m = message
    OBVIOUS
<1>2. IsMessage(m) /\ m = message' /\ NoId \notin Nat \ {0} /\ client' = client
    BY <1>1, CodexAssumption
<1>3. PICK k \in 1 .. Size(m) + 1, s \in 0 .. 5 :
         /\ Stands(m, rest, k, s) /\ Reading(m, k, s, client, state)
         /\ k # Size(m) + 1 => s \in 0 .. 4 /\ Present(m, k, s + 1)
    BY <1>1, <1>2, ReadSettles
<1>4. Typed
    BY DEF StreamInv
<1>5. CASE k = Size(m) + 1
    <2>1. s = 0 /\ rest = m.ending
        BY <1>3, <1>5 DEF Stands
    <2>2. /\ m.ending = <<m.ending[1]>>
          /\ m.ending[1].type \in {"response.completed", "error", "response.failed",
                                   "response.incomplete"}
        BY <1>2, <2>1 DEF IsMessage
    <2>3. e = m.ending[1]
        <3>1. PICK x : x = m.ending[1]
            OBVIOUS
        <3>2. Head(<<x>>) = x
            OBVIOUS
        <3>3. QED
            BY <2>1, <2>2, <3>1, <3>2
    <2>4. e.type \in {"response.completed", "error", "response.failed", "response.incomplete"}
        BY <2>2, <2>3
    <2>5. Reading(m, Size(m) + 1, 0, client, state)
        BY <1>3, <1>5, <2>1
    <2>6. \/ /\ reader' = "failing"
             /\ summary'.CompletionStatus = "upstream_invalid" => e.usage = "partial"
          \/ /\ reader' = reader /\ summary'.CompletionStatus = summary.CompletionStatus
             /\ pending' \in Seq(Chunks) /\ pending' # <<>>
             /\ pending'[Len(pending')].kind = "done" /\ Exactly(m, client \o pending')
        BY <1>2, <1>4, <2>4, <2>5, EndHandled
    <2>7. QED
        BY <1>2, <2>6 DEF NextRead, Closing
<1>6. CASE k # Size(m) + 1
    <2>1. k \in 1 .. Size(m) /\ s \in 0 .. 4 /\ Present(m, k, s + 1)
        <3>1. Size(m) \in Nat
            BY <1>2, ItemEventsType
        <3>2. QED
            BY <1>3, <1>6, <3>1
    <2>2. e = EventAt(m, k, s + 1) /\ Stands(m, Tail(rest), k, s + 1)
        BY <1>2, <1>3, <2>1, StandsRead
    <2>3. Fair(m) \/ Advances(m, k, s + 1)
        BY <1>2, <1>3, <1>4, <2>1, <2>2, Handled
    <2>4. Adds
        <3>1. e.type # "response.completed"
            BY <1>2, <2>1, <2>2, ItemEventType
        <3>2. QED
            BY <1>4, <3>1, EventAdds
    <2>5. CASE Fair(m)
        BY <1>1, <2>5 DEF Fair, NextRead
    <2>6. CASE Advances(m, k, s + 1)
        <3>1. reader' = reader /\ Reading(m, k, s + 1, client \o pending', state')
            BY <2>6 DEF Advances
        <3>2. ContentOnly(pending') /\ summary'.CompletionStatus = summary.CompletionStatus
            <4>1. ~GivesUp
                BY <3>1 DEF GivesUp
            <4>2. QED
                BY <2>4, <4>1 DEF Adds, GoesOn, Same
        <3>3. pending' \in Seq(Chunks)
            <4>1. IsSeq(pending') /\ client \o pending' \in Seq(Chunks)
                BY <3>1, <3>2 DEF ContentOnly, Reading
            <4>2. QED
                BY <4>1, RestOfSeq
        <3>4. k \in 1 .. Size(m) + 1 /\ s + 1 \in 0 .. 5
            BY <2>1
        <3>5. ReadUpTo(client \o pending)'
            <4>1. Stands(m, rest', k, s + 1)
                BY <2>2
            <4>2. QED
                BY <1>2, <3>1, <3>4, <4>1 DEF ReadUpTo
        <3>6. QED
            BY <1>2, <3>1, <3>2, <3>3, <3>5 DEF NextRead, Amid
    <2>7. QED
        BY <2>3, <2>5, <2>6
<1>7. QED
    BY <1>5, <1>6
-----------------------------------------------------------------------------
(* The steps. *)

\* The head of a sequence moves to the end of another.
LEMMA HeadMoves ==
    ASSUME NEW S, NEW c \in Seq(S), NEW p \in Seq(S), p # <<>>
    PROVE  /\ Append(c, Head(p)) \in Seq(S) /\ Tail(p) \in Seq(S)
           /\ Append(c, Head(p)) \o Tail(p) = c \o p
           /\ Tail(p) # <<>> => Tail(p)[Len(Tail(p))] = p[Len(p)]
           /\ Tail(p) = <<>> => Head(p) = p[Len(p)]
<1>1. IsSeq(p)
    BY IsSeqIntro
<1>2. /\ Len(p) \in Nat \ {0} /\ Head(p) = p[1] /\ Len(Tail(p)) = Len(p) - 1
      /\ \A i \in 1 .. Len(Tail(p)) : Tail(p)[i] = p[i + 1]
      /\ Tail(p) = <<>> => Len(p) = 1
    BY <1>1, PopEffect
<1>3. Tail(p) \in Seq(S) /\ Head(p) \in S
    BY HeadTailProperties
<1>4. PICK h, t : h = Head(p) /\ t = Tail(p)
    OBVIOUS
<1>5. <<h>> \in Seq(S) /\ t \in Seq(S) /\ p = <<h>> \o t
    <2>1. SubSeq(p, 1, Len(p)) = p
        BY SubSeqFull
    <2>2. 1 \in 1 .. Len(p) /\ Len(p) \in 1 .. Len(p) /\ 1 + 1 = 2
        BY <1>2
    <2>3. SubSeq(p, 1, Len(p)) = <<p[1]>> \o SubSeq(p, 1 + 1, Len(p))
        BY <2>2, SubSeqRecursiveFirst
    <2>4. t = SubSeq(p, 2, Len(p))
        BY <1>4, TailIsSubSeq
    <2>5. p = <<h>> \o t
        BY <1>2, <1>4, <2>1, <2>2, <2>3, <2>4
    <2>6. QED
        BY <1>3, <1>4, <2>5
<1>6. Append(c, h) = c \o <<h>> /\ Append(c, h) \in Seq(S)
    BY <1>3, <1>4, AppendIsConcat, AppendProperties
<1>7. (c \o <<h>>) \o t = c \o (<<h>> \o t)
    BY <1>5, ConcatAssociative
<1>8. ASSUME t # <<>> PROVE t[Len(t)] = p[Len(p)]
    <2>1. Len(t) # 0
        BY <1>5, <1>8, EmptySeq
    <2>2. Len(t) \in 1 .. Len(t) /\ Len(t) + 1 = Len(p)
        BY <1>2, <1>4, <2>1
    <2>3. QED
        BY <1>2, <1>4, <2>2
<1>9. QED
    BY <1>2, <1>3, <1>4, <1>5, <1>6, <1>7, <1>8

LEMMA ContentRest ==
    ASSUME NEW p, ContentOnly(p), p # <<>>
    PROVE  ContentOnly(Tail(p))
<1>1. /\ IsSeq(p) /\ Len(p) \in Nat \ {0} /\ IsSeq(Tail(p)) /\ Len(Tail(p)) = Len(p) - 1
      /\ \A i \in 1 .. Len(Tail(p)) : Tail(p)[i] = p[i + 1]
    BY PopEffect DEF ContentOnly
<1>2. ASSUME NEW i \in 1 .. Len(Tail(p)) PROVE Tail(p)[i].kind \in Content
    <2>1. i + 1 \in 1 .. Len(p)
        BY <1>1
    <2>2. QED
        BY <1>1, <2>1 DEF ContentOnly
<1>3. QED
    BY <1>1, <1>2 DEF ContentOnly

LEMMA WrittenDone ==
    ASSUME Typed, NEW kind
    PROVE  /\ kind \in Normal \cup {"error"} => Written(summary, kind).Done = summary.Done
BY DEF Typed, NoSummary, Written, Normal

\* What the invariant of the streaming reader speaks of stays as it is.
LEMMA ReaderStill ==
    ASSUME ReaderInv,
           UNCHANGED <<adapter, rest, reader, summary, pending, client, state, message, faults>>
    PROVE  ReaderInv'
BY DEF ReaderInv, Undisturbed, Amid, Closing, ReadUpTo

\* An answer that is not ended, of a reader that does not read.
LEMMA ReaderIdle ==
    ASSUME UNCHANGED message, adapter = "codex", IsMessage(message), faults' \in Nat, ~summary'.Done,
           reader' \notin {"connecting", "reading"}
    PROVE  ReaderInv'
BY DEF ReaderInv, Undisturbed

LEMMA ReaderWrites ==
    ASSUME StreamInv, ReaderInv, adapter = "codex", Write, UNCHANGED <<state, message, faults>>
    PROVE  ReaderInv'
<1>1. /\ reader \in {"reading", "failing"} /\ pending # <<>>
      /\ Head(pending).kind \in {"finish", "usage", "done"} => reader = "reading"
      /\ Follows(LastKind, Head(pending).kind)
    BY Writing DEF Write
<1>2. ~summary.Done /\ IsMessage(message) /\ faults \in Nat /\ Typed
    BY <1>1 DEF ReaderInv, StreamInv
<1>3. CASE Disconnected
    <2>1. reader' = "failing" /\ summary'.Done = summary.Done
        BY <1>2, <1>3 DEF Disconnected, Typed, NoSummary
    <2>2. QED
        BY <1>2, <2>1, ReaderIdle
<1>4. CASE Reached /\ Head(pending).kind # "done"
    <2>1. Head(pending).kind \in Normal \cup {"error"}
        BY <1>1, <1>4 DEF Follows, Content, Normal
    <2>2. reader' = reader /\ ~summary'.Done
        BY <1>2, <1>4, <2>1, WrittenDone DEF Reached
    <2>3. CASE reader = "failing"
        BY <1>2, <2>2, <2>3, ReaderIdle
    <2>4. CASE reader = "reading"
        <3>1. SUFFICES ASSUME faults = 0
                       PROVE  /\ client' \in Seq(Chunks) /\ pending' \in Seq(Chunks)
                              /\ (Amid \/ Closing)'
            BY <1>2, <2>2, <2>4 DEF ReaderInv, Undisturbed
        <3>2. client \in Seq(Chunks) /\ pending \in Seq(Chunks) /\ (Amid \/ Closing)
            BY <2>4, <3>1 DEF ReaderInv, Undisturbed
        <3>3. /\ client' = Append(client, Head(pending)) /\ pending' = Tail(pending)
            BY <1>4 DEF Reached
        <3>4. /\ client' \in Seq(Chunks) /\ pending' \in Seq(Chunks)
              /\ client' \o pending' = client \o pending
              /\ pending' # <<>> => pending'[Len(pending')] = pending[Len(pending)]
              /\ pending' = <<>> => Head(pending) = pending[Len(pending)]
            BY <1>1, <3>2, <3>3, HeadMoves
        <3>5. CASE Amid
            <4>1. ContentOnly(pending')
                BY <1>1, <3>3, <3>5, ContentRest DEF Amid
            <4>2. ReadUpTo(client \o pending)'
                <5>1. rest' = rest /\ state' = state /\ message' = message
                    BY DEF Write
                <5>2. QED
                    BY <3>4, <3>5, <5>1 DEF Amid, ReadUpTo
            <4>3. QED
                BY <3>4, <4>1, <4>2 DEF Amid
        <3>6. CASE Closing
            <4>1. pending' # <<>>
                BY <1>4, <3>4, <3>6 DEF Closing
            <4>2. QED
                BY <3>4, <3>6, <4>1 DEF Closing
        <3>7. QED
            BY <3>2, <3>5, <3>6
    <2>5. QED
        BY <1>1, <2>3, <2>4
<1>5. CASE Reached /\ Head(pending).kind = "done"
    <2>1. reader = "reading" /\ reader' = "ended"
        BY <1>1, <1>5 DEF Reached
    <2>2. SUFFICES ASSUME faults = 0 PROVE Exactly(message, client' \o pending')
        BY <1>2, <2>1 DEF ReaderInv, Undisturbed
    <2>3. client \in Seq(Chunks) /\ pending \in Seq(Chunks) /\ (Amid \/ Closing)
        BY <2>1, <2>2 DEF ReaderInv, Undisturbed
    <2>4. ~Amid
        <3>1. Head(pending) = pending[1] /\ Len(pending) \in Nat \ {0}
            BY <1>1, <2>3, IsSeqIntro, PopEffect
        <3>2. QED
            BY <1>5, <3>1 DEF Amid, ContentOnly, Content
    <2>5. client' \o pending' = client \o pending
        BY <1>1, <1>5, <2>3, HeadMoves DEF Reached
    <2>6. QED
        BY <2>3, <2>4, <2>5 DEF Closing
<1>6. QED
    BY <1>3, <1>4, <1>5, WriteSplits

LEMMA ReaderServes ==
    ASSUME StreamInv, ReaderInv, adapter = "codex", Server
    PROVE  ReaderInv'
<1>1. UNCHANGED <<state, message, faults>>
    BY DEF Server, Streamed
<1>2. /\ IsMessage(message) /\ faults \in Nat /\ Typed
      /\ summary.Done => reader = "ended"
    BY DEF ReaderInv, StreamInv
<1>3. CASE Connect
    <2>1. /\ reader = "connecting" /\ pending = <<>> /\ client = <<>> /\ ~summary.Done
          /\ UNCHANGED <<rest, pending, client>>
        BY <1>2, <1>3 DEF Connect, StreamInv, Stages
    <2>2. CASE reader' = "failing"
        <3>1. summary'.Done = summary.Done
            BY <1>2, <1>3, <2>2 DEF Connect, Typed, NoSummary
        <3>2. QED
            BY <1>1, <1>2, <2>1, <2>2, <3>1, ReaderIdle
    <2>3. CASE reader' = "reading" /\ UNCHANGED summary
        <3>1. SUFFICES ASSUME faults = 0
                       PROVE  /\ client' \in Seq(Chunks) /\ pending' \in Seq(Chunks) /\ Amid'
            BY <1>1, <1>2, <2>1, <2>3 DEF ReaderInv, Undisturbed
        <3>2. ReadUpTo(client)
            BY <2>1, <3>1 DEF ReaderInv, Undisturbed
        <3>3. client \o pending = client
            BY <2>1, EmptySeq
        <3>4. ReadUpTo(client \o pending)'
            BY <1>1, <2>1, <3>2, <3>3 DEF ReadUpTo
        <3>5. <<>> \in Seq(Chunks) /\ ContentOnly(<<>>)
            BY EmptySeq, NoChunk
        <3>6. QED
            BY <2>1, <3>4, <3>5 DEF Amid
    <2>4. QED
        BY <1>3, <2>2, <2>3 DEF Connect
<1>4. CASE Write
    BY <1>1, <1>4, ReaderWrites
<1>5. CASE ReadFault
    <2>1. reader = "reading" /\ reader' = "failing" /\ summary'.Done = summary.Done
        BY <1>2, <1>5 DEF ReadFault, Reads, Fails, Typed, NoSummary
    <2>2. QED
        BY <1>1, <1>2, <2>1, ReaderIdle
<1>6. CASE AddErrorEvent
    <2>1. reader = "failing" /\ reader' = "failing" /\ summary' = summary
        BY <1>6 DEF AddErrorEvent
    <2>2. QED
        BY <1>1, <1>2, <2>1, ReaderIdle
<1>7. CASE Return
    <2>1. reader = "failing" /\ reader' = "ended" /\ summary'.Done = summary.Done
        BY <1>2, <1>7 DEF Return, Marked, Typed, NoSummary
    <2>2. QED
        BY <1>1, <1>2, <2>1, ReaderIdle
<1>8. QED
    BY <1>3, <1>4, <1>5, <1>6, <1>7 DEF Server

\* An event, in its place or out of it, does not end the answer by itself.
LEMMA EventEnds ==
    ASSUME StreamInv, adapter = "codex", NEW e, Reaches(e), Reads
    PROVE  StreamEvent(e) /\ reader' \in {"reading", "failing"} /\ summary'.Done = summary.Done
<1>1. StreamEvent(e)
    BY DEF Reaches, RelayChunk, RelayBlock
<1>2. Adds \/ Ends
    <2>1. /\ Typed /\ LastKind \in Content \cup {"nothing"}
        BY ReadsOpen DEF Reads
    <2>2. QED
        BY <1>1, <2>1, StreamEventEffect DEF Reads
<1>3. QED
    BY <1>1, <1>2 DEF Adds, Ends, GoesOn, GivesUp, Same, Reads

LEMMA ReaderReached ==
    ASSUME StreamInv, ReaderInv, adapter = "codex", NEW e, Reaches(e), faults' \in Nat \ {0}
    PROVE  ReaderInv'
<1>1. /\ IsMessage(message) /\ message' = message /\ adapter' = adapter
      /\ summary.Done => reader = "ended"
    BY DEF ReaderInv, Reaches
<1>2. summary'.Done => reader' = "ended"
    <2>1. CASE Reads
        BY <1>1, <2>1, EventEnds DEF Reads
    <2>2. CASE ~Reads
        BY <1>1, <2>2 DEF Reaches
    <2>3. QED
        BY <2>1, <2>2
<1>3. QED
    BY <1>1, <1>2 DEF ReaderInv

LEMMA ReaderDelivers ==
    ASSUME StreamInv, ReaderInv, adapter = "codex", Deliver
    PROVE  /\ ReaderInv'
           /\ faults = 0 /\ Reads => NextRead(Head(rest))
<1>1. PICK e : e = Head(rest)
    OBVIOUS
<1>2. Reaches(e) /\ rest # <<>> /\ rest' = Tail(rest) /\ faults' = faults
    BY <1>1 DEF Deliver
<1>3. /\ IsMessage(message) /\ message' = message /\ adapter' = adapter /\ client' = client
      /\ summary.Done => reader = "ended"
      /\ faults \in Nat /\ reader \in {"reading", "ended"} /\ pending = <<>>
    BY <1>2 DEF ReaderInv, Reaches
<1>4. CASE ~Reads
    <2>1. UNCHANGED <<reader, summary, pending, state>> /\ reader = "ended"
        BY <1>2, <1>3, <1>4 DEF Reaches, Reads
    <2>2. QED
        BY <1>2, <1>3, <1>4, <2>1 DEF ReaderInv, Undisturbed
<1>5. CASE Reads
    <2>1. StreamEvent(e) /\ reader' \in {"reading", "failing"} /\ ~summary'.Done /\ reader = "reading"
        BY <1>2, <1>5, EventEnds DEF Reads
    <2>2. ASSUME faults = 0 PROVE NextRead(e)
        <3>1. client \in Seq(Chunks) /\ (Amid \/ Closing)
            BY <2>1, <2>2 DEF ReaderInv, Undisturbed
        <3>2. ReadUpTo(client \o pending)
            BY <1>3, <3>1 DEF Amid, Closing
        <3>3. client \o pending = client
            BY <1>3, <3>1, ClientPlain
        <3>4. ReadUpTo(client)
            BY <3>2, <3>3
        <3>5. QED
            BY <1>1, <1>2, <1>3, <2>1, <3>1, <3>4, NextEvent
    <2>3. faults = 0 => Undisturbed'
        BY <2>1, <2>2 DEF NextRead, Undisturbed
    <2>4. QED
        BY <1>1, <1>2, <1>3, <2>1, <2>2, <2>3 DEF ReaderInv
<1>6. QED
    BY <1>4, <1>5

LEMMA ReaderNext ==
    ASSUME StreamInv, ReaderInv, [Next]_vars
    PROVE  ReaderInv'
<1>1. faults' \in Nat /\ adapter' = adapter
    <2>1. faults \in Nat
        BY DEF ReaderInv
    <2>2. CASE Deliver
        BY <2>1, <2>2 DEF Deliver, Reaches
    <2>3. CASE Repeat
        BY <2>1, <2>3 DEF Repeat, MayFail, Reaches
    <2>4. CASE Stray
        <3>1. MayFail /\ \E e : Reaches(e)
            BY <2>4 DEF Stray
        <3>2. QED
            BY <2>1, <3>1 DEF MayFail, Reaches
    <2>5. CASE Lose
        BY <2>1, <2>5 DEF Lose, MayFail
    <2>6. CASE Server
        <3>1. (Connect \/ Write \/ ReadFault \/ AddErrorEvent \/ Return) /\ faults' = faults
            BY <2>6 DEF Server
        <3>2. adapter' = adapter
            BY <3>1 DEF Connect, Write, ReadFault, AddErrorEvent, Return
        <3>3. QED
            BY <2>1, <3>1, <3>2
    <2>7. CASE Relayed
        BY <2>1, <2>7 DEF Relayed, BlockEnds
    <2>8. CASE CollectorFails
        BY <2>1, <2>8 DEF CollectorFails, sinkVars
    <2>9. CASE UNCHANGED vars
        BY <2>1, <2>9 DEF vars, sinkVars
    <2>10. QED
        BY <2>2, <2>3, <2>4, <2>5, <2>6, <2>7, <2>8, <2>9 DEF Next
<1>2. SUFFICES ASSUME adapter = "codex" PROVE ReaderInv'
    BY <1>1 DEF ReaderInv
<1>3. CASE Deliver
    BY <1>2, <1>3, ReaderDelivers
<1>4. CASE Repeat \/ Stray
    <2>1. faults' \in Nat \ {0} /\ \E e : Reaches(e)
        BY <1>4 DEF ReaderInv, Repeat, Stray, MayFail
    <2>2. QED
        BY <1>2, <2>1, ReaderReached
<1>5. CASE Lose
    <2>1. /\ faults' \in Nat \ {0}
          /\ UNCHANGED <<adapter, reader, summary, message>>
        BY <1>5 DEF ReaderInv, Lose, MayFail
    <2>2. QED
        BY <2>1 DEF ReaderInv
<1>6. CASE Server
    BY <1>2, <1>6, ReaderServes
<1>7. CASE Relayed
    BY <1>2, <1>7 DEF Relayed, BlockEnds
<1>8. CASE CollectorFails \/ UNCHANGED vars
    <2>1. UNCHANGED <<adapter, rest, reader, summary, pending, client, state, message, faults>>
        BY <1>8 DEF CollectorFails, Streamed, sinkVars, vars
    <2>2. QED
        BY <2>1, ReaderStill
<1>9. QED
    BY <1>3, <1>4, <1>5, <1>6, <1>7, <1>8 DEF Next

LEMMA ReaderAlways == Spec => []ReaderInv
BY ReaderInit, ReaderNext, StreamAlways, PTL DEF Spec

\* StreamedExactly: whatever the messages and the ways their items are sent, a stream that
\* nothing disturbed and that ends with [DONE] has delivered the message.
THEOREM StreamDelivers == Spec => []StreamedExactly
<1>1. StreamInv /\ ReaderInv => StreamedExactly
    <2>1. SUFFICES ASSUME StreamInv, ReaderInv, adapter = "codex", faults = 0, summary.Done
                   PROVE  /\ ClientCalls = Sent("call")
                          /\ ("deltas" \in message.text \/ ~Has(message, "call")) =>
                               ClientText = SentText
        BY DEF StreamedExactly
    <2>2. Exactly(message, client \o pending) /\ reader = "ended"
        BY <2>1 DEF ReaderInv, Undisturbed
    <2>3. client \o pending = client
        <3>1. pending = <<>> /\ IsSeq(client)
            BY <2>1, <2>2 DEF StreamInv, Stages, InOrder
        <3>2. QED
            BY <3>1, ConcatEmptySeq DEF IsSeq
    <2>4. \A kind : Sent(kind) = Flatten(Listed(message, kind))
        BY DEF Sent, Listed
    <2>5. QED
        BY <2>2, <2>3, <2>4 DEF Exactly, ClientCalls, ClientText, SentText
<1>2. QED
    BY <1>1, StreamAlways, ReaderAlways, PTL
=============================================================================
