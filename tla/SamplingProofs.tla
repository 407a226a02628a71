--------------------------- MODULE SamplingProofs ---------------------------
(***************************************************************************)
(* Proofs about the gatherers that look outside, alone and within the      *)
(* scan: the reading of the sitemap, for any server, any declarations and  *)
(* any cap on the entries; the page sample, for any site, any window and   *)
(* any limits; and the reference probe, for any documents, any budget and  *)
(* any world behind the names.                                             *)
(***************************************************************************)
EXTENDS Sampling, Induction, FiniteSetTheorems, SequenceTheorems, TLAPS

(* The sitemap. *)

Candidate == [url : Url, declared : BOOLEAN]
Exchange == [url : Url, answer : Reply]
Evidence ==
    [exists : BOOLEAN, valid : BOOLEAN, url : Url \cup {"none"}, fetch_status : {"ok", "error"},
     entries : Seq(Url), served_as_html : BOOLEAN]

Shape ==
    /\ server \in [Url -> SUBSET Reply]
    /\ queue \in Seq(Candidate) /\ requests \in Seq(Exchange)
    /\ record \in Evidence /\ missed \in BOOLEAN
    /\ reading \in {"locate", "read", "child", "probe", "done", "failed"}

Standard(u) == [url |-> u, declared |-> FALSE]

\* A standard address was answered, or the miss is on record.
Settled(u) == \E r \in Asked : r.url = u /\ (missed \/ Answered(r.answer))

AllSettled == queue = <<>> /\ \A i \in DOMAIN Fallbacks : Settled(Fallbacks[i])

\* Every request that got no answer is a miss, and nothing that validates was
\* passed over.
NothingLost ==
    \A r \in Asked :
        /\ r.answer.status = NoAnswer => missed
        /\ Validates(r.answer) => record.valid /\ r.url = record.url

WhileLocating ==
    reading = "locate" =>
        /\ queue # <<>> /\ ~record.valid /\ record.entries = <<>> /\ NothingLost
        /\ record.exists => \E r \in Asked : r.url = record.url /\ r.answer.status = 200
        /\ \A i \in DOMAIN Fallbacks :
              Settled(Fallbacks[i]) \/ \E k \in DOMAIN queue : queue[k] = Standard(Fallbacks[i])

WhileProbing ==
    reading = "probe" =>
        /\ ~record.exists /\ ~record.valid /\ record.entries = <<>> /\ NothingLost
        /\ AllSettled /\ (missed => record.fetch_status = "error")

\* What was found was answered with 200, and validates if it is called valid.
WhileReading ==
    reading = "read" =>
        /\ record.exists /\ record.entries = <<>> /\ NothingLost
        /\ \E r \in Asked :
              r.url = record.url /\ r.answer.status = 200 /\ (record.valid => Validates(r.answer))
        /\ ~record.valid => AllSettled /\ (missed => record.fetch_status = "error")

\* An index with children is not what settles its own soundness.
WhileFollowing ==
    reading = "child" =>
        /\ record.exists /\ record.valid /\ record.entries # <<>>
        /\ \E r \in Asked : r.answer.root \in {"urlset", "sitemapindex", "foreign"}
        /\ Consistent => \A r \in Asked : ~Sound(r.answer)

SitemapInv ==
    /\ Shape /\ WhileLocating /\ WhileProbing /\ WhileReading /\ WhileFollowing
    /\ SitemapRecordFounded
-----------------------------------------------------------------------------
\* One more request, and what it makes of what was asked.
LEMMA OneMoreAsked ==
  ASSUME Shape, NEW u \in Url, NEW a \in Reply, Request(u, a)
  PROVE  /\ requests' \in Seq(Exchange)
         /\ Asked' = Asked \cup {[url |-> u, answer |-> a]}
         /\ Last(requests') = [url |-> u, answer |-> a]
         /\ Consistent' => Consistent /\ \A r \in Asked : r.url = u => r.answer = a
<1> DEFINE x == [url |-> u, answer |-> a]
<1>1. requests \in Seq(Exchange) /\ x \in Exchange /\ requests' = Append(requests, x)
  BY DEF Shape, Exchange, Request
<1>2. /\ requests' \in Seq(Exchange) /\ Len(requests') = Len(requests) + 1
      /\ \A i \in 1..Len(requests) : requests'[i] = requests[i]
      /\ requests'[Len(requests) + 1] = x /\ Len(requests) \in Nat
  BY <1>1
<1>3. Asked' = Asked \cup {x}
  <2>1. DOMAIN requests = 1..Len(requests) /\ DOMAIN requests' = 1..(Len(requests) + 1)
    BY <1>1, <1>2
  <2>2. ASSUME NEW r \in Asked' PROVE r \in Asked \cup {x}
    <3>1. PICK i \in DOMAIN requests' : r = requests'[i]
      BY DEF Asked
    <3>2. CASE i = Len(requests) + 1
      BY <3>1, <3>2, <1>2
    <3>3. CASE i \in 1..Len(requests)
      BY <3>1, <3>3, <1>2, <2>1 DEF Asked
    <3>4. QED
      BY <1>2, <2>1, <3>2, <3>3
  <2>3. ASSUME NEW r \in Asked PROVE r \in Asked'
    <3>1. PICK i \in DOMAIN requests : r = requests[i]
      BY DEF Asked
    <3>2. i \in DOMAIN requests' /\ requests'[i] = r
      BY <3>1, <1>2, <2>1
    <3>3. QED
      BY <3>2 DEF Asked
  <2>4. x \in Asked'
    <3>1. Len(requests) + 1 \in DOMAIN requests'
      BY <1>2, <2>1
    <3>2. QED
      BY <3>1, <1>2 DEF Asked
  <2>5. QED
    BY <2>2, <2>3, <2>4
<1>4. Last(requests') = x
  BY <1>2 DEF Last
<1>5. ASSUME Consistent' PROVE Consistent /\ \A r \in Asked : r.url = u => r.answer = a
  <2>1. \A r, s \in Asked' : r.url = s.url => r.answer = s.answer
    BY <1>5 DEF Consistent
  <2>2. x \in Asked' /\ x.url = u /\ x.answer = a
    BY <1>3
  <2>3. QED
    BY <1>3, <2>1, <2>2 DEF Consistent
<1>6. QED
  BY <1>2, <1>3, <1>4, <1>5

\* The entries kept of an answer are the first of its locations.
LEMMA EntriesArePrefix ==
  ASSUME NEW a \in Reply
  PROVE  /\ Entries(a) \in Seq(Url)
         /\ IsPrefix(Entries(a), a.locs)
         /\ Entries(a) # <<>> => a.root \in {"urlset", "sitemapindex"}
         /\ a.locs # <<>> /\ a.root \in {"urlset", "sitemapindex"} => Entries(a) # <<>>
<1> DEFINE all == Locations(a)
           n == IF Len(all) < MaxEntries THEN Len(all) ELSE MaxEntries
<1>1. a.locs \in Seq(Url) /\ Len(a.locs) \in Nat
  BY DEF Reply
<1>2. all \in Seq(Url) /\ Len(all) \in Nat /\ n \in 0..Len(all)
  BY <1>1, SitemapAssumption DEF Locations
<1>3. Entries(a) = SubSeq(all, 1, n)
  BY DEF Entries
<1>4. /\ Entries(a) \in Seq(Url) /\ Len(Entries(a)) = n
      /\ \A i \in 1..n : Entries(a)[i] = all[i]
  BY <1>2, <1>3
<1>5. CASE a.root \in {"urlset", "sitemapindex"}
  <2>1. all = a.locs
    BY <1>5 DEF Locations
  <2>2. IsPrefix(Entries(a), a.locs)
    <3>1. SubSeq(Entries(a), 1, n) = SubSeq(a.locs, 1, n)
      BY <1>1, <1>2, <1>3, <1>4, <2>1
    <3>2. QED
      BY <3>1, <1>2, <1>4, <2>1 DEF IsPrefix
  <2>3. a.locs # <<>> => n > 0
    BY <1>1, <2>1, SitemapAssumption
  <2>4. QED
    BY <1>4, <1>5, <2>2, <2>3
<1>6. CASE a.root \notin {"urlset", "sitemapindex"}
  <2>1. all = <<>>
    BY <1>6 DEF Locations
  <2>2. Entries(a) = <<>>
    BY <1>2, <1>3, <1>4, <2>1
  <2>3. IsPrefix(<<>>, a.locs)
    BY <1>1 DEF IsPrefix
  <2>4. QED
    BY <1>4, <1>6, <2>2, <2>3
<1>7. QED
  BY <1>5, <1>6

\* What follows the first candidate.
LEMMA QueueSplits ==
  ASSUME queue \in Seq(Candidate), queue # <<>>
  PROVE  /\ Head(queue) \in Candidate /\ Tail(queue) \in Seq(Candidate)
         /\ \A k \in DOMAIN queue :
               queue[k] = Head(queue) \/ \E j \in DOMAIN Tail(queue) : Tail(queue)[j] = queue[k]
<1>1. Head(queue) \in Candidate /\ Tail(queue) \in Seq(Candidate)
  OBVIOUS
<1>2. ASSUME NEW k \in DOMAIN queue, k # 1
      PROVE  \E j \in DOMAIN Tail(queue) : Tail(queue)[j] = queue[k]
  <2>1. k - 1 \in DOMAIN Tail(queue) /\ Tail(queue)[k - 1] = queue[k]
    BY <1>2
  <2>2. QED
    BY <2>1
<1>3. QED
  BY <1>1, <1>2

\* The initial states: every standard address is still to be asked.
LEMMA SitemapInitInv == SitemapInit => SitemapInv
<1> SUFFICES ASSUME SitemapInit PROVE SitemapInv
  OBVIOUS
<1>1. PICK values \in Declarations : queue = CandidatesOf(requestable(values))
  BY DEF SitemapInit
<1> DEFINE declared == requestable(values)
           first == [i \in DOMAIN declared |-> [url |-> declared[i], declared |-> TRUE]]
           last == [i \in DOMAIN Fallbacks |-> [url |-> Fallbacks[i], declared |-> FALSE]]
<1>2. first \in Seq(Candidate) /\ last \in Seq(Candidate) /\ Len(last) = Len(Fallbacks)
  <2>1. declared \in Seq(Url) /\ Fallbacks \in Seq(Url)
    BY SitemapAssumption
  <2>2. first \in [1..Len(declared) -> Candidate] /\ Len(declared) \in Nat
    BY <2>1 DEF Candidate
  <2>3. last \in [1..Len(Fallbacks) -> Candidate] /\ Len(Fallbacks) \in Nat
    BY <2>1 DEF Candidate
  <2>4. QED
    BY <2>2, <2>3
<1>3. queue = first \o last
  BY <1>1 DEF CandidatesOf
<1>4. queue \in Seq(Candidate) /\ Len(queue) = Len(first) + Len(last)
  BY <1>2, <1>3
<1>5. \A i \in DOMAIN Fallbacks : \E k \in DOMAIN queue : queue[k] = Standard(Fallbacks[i])
  <2> SUFFICES ASSUME NEW i \in DOMAIN Fallbacks
               PROVE  \E k \in DOMAIN queue : queue[k] = Standard(Fallbacks[i])
    OBVIOUS
  <2>1. i \in 1..Len(last) /\ last[i] = Standard(Fallbacks[i])
    BY <1>2, SitemapAssumption DEF Standard
  <2> HIDE DEF first, last
  <2>2. Len(first) + i \in DOMAIN queue /\ queue[Len(first) + i] = last[i]
    BY <1>2, <1>3, <1>4, <2>1
  <2>3. QED
    BY <2>1, <2>2
<1>6. queue # <<>>
  BY <1>2, <1>4, SitemapAssumption
<1>7. Asked = {}
  BY DEF SitemapInit, Asked
<1>8. Shape
  <2>1. record \in Evidence
    BY DEF SitemapInit, NoRecord, Evidence
  <2>2. requests \in Seq(Exchange)
    BY DEF SitemapInit
  <2>3. missed = FALSE /\ reading = "locate"
    BY DEF SitemapInit
  <2>4. server \in [Url -> SUBSET Reply]
    BY SitemapAssumption DEF SitemapInit
  <2>5. QED
    BY <1>4, <2>1, <2>2, <2>3, <2>4 DEF Shape
<1>9. WhileLocating
  BY <1>5, <1>6, <1>7 DEF SitemapInit, WhileLocating, NoRecord, NothingLost
<1>10. QED
  BY <1>8, <1>9 DEF SitemapInit, SitemapInv, WhileProbing, WhileReading, WhileFollowing, SitemapRecordFounded
-----------------------------------------------------------------------------
\* A candidate is asked.
LEMMA LocateKeeps ==
  ASSUME SitemapInv, Locate
  PROVE  SitemapInv'
<1> DEFINE c == Head(queue)
           located(a) == IF a.status = 200
                         THEN [record EXCEPT !.exists = TRUE, !.url = c.url, !.valid = Validates(a)]
                         ELSE record
           over(a) == Tail(queue) = <<>> /\ ~Validates(a)
<1>1. PICK a \in server[c.url] :
        /\ Request(c.url, a)
        /\ missed' = (missed \/ Unanswered(c, a))
        /\ record' = [located(a) EXCEPT !.fetch_status = IF over(a) /\ missed' THEN "error" ELSE "ok"]
        /\ reading' = IF ~over(a) /\ ~Validates(a) THEN "locate"
                      ELSE IF located(a).exists THEN "read" ELSE "probe"
  BY DEF Locate
<1>2. /\ reading = "locate" /\ queue' = Tail(queue) /\ server' = server
      /\ Shape /\ queue # <<>> /\ ~record.valid /\ record.entries = <<>> /\ NothingLost
  BY DEF Locate, SitemapInv, WhileLocating
<1>3. /\ c \in Candidate /\ queue' \in Seq(Candidate)
      /\ \A k \in DOMAIN queue : queue[k] = c \/ \E j \in DOMAIN queue' : queue'[j] = queue[k]
  BY <1>2, QueueSplits DEF Shape
<1>4. c.url \in Url /\ a \in Reply
  BY <1>1, <1>2, <1>3 DEF Candidate, Shape
<1>5. /\ requests' \in Seq(Exchange)
      /\ Asked' = Asked \cup {[url |-> c.url, answer |-> a]}
  BY <1>1, <1>2, <1>4, OneMoreAsked
<1>6. /\ record' \in Evidence /\ record'.entries = <<>>
      /\ record'.valid = Validates(a)
      /\ a.status = 200 => record'.exists /\ record'.url = c.url
      /\ a.status # 200 => record'.exists = record.exists /\ record'.url = record.url
      /\ record'.exists = located(a).exists
      /\ record'.fetch_status = IF over(a) /\ missed' THEN "error" ELSE "ok"
  <2>1. record \in Evidence /\ Validates(a) \in BOOLEAN
    BY <1>2 DEF Shape, Validates
  <2>2. CASE a.status = 200
    BY <1>1, <1>2, <1>4, <2>1, <2>2 DEF Evidence
  <2>3. CASE a.status # 200
    <3>1. ~Validates(a)
      BY <2>3 DEF Validates
    <3>2. QED
      BY <1>1, <1>2, <2>1, <2>3, <3>1 DEF Evidence
  <2>4. QED
    BY <2>2, <2>3
<1>7. Shape'
  BY <1>1, <1>2, <1>3, <1>5, <1>6 DEF Shape, Unanswered
<1>8. NothingLost'
  <2>1. \A r \in Asked : ~Validates(r.answer) /\ (r.answer.status = NoAnswer => missed')
    BY <1>1, <1>2 DEF NothingLost
  <2>2. a.status = NoAnswer => missed'
    BY <1>1 DEF Unanswered
  <2>3. Validates(a) => record'.valid /\ record'.url = c.url
    BY <1>6 DEF Validates
  <2>4. QED
    BY <1>5, <2>1, <2>2, <2>3 DEF NothingLost
<1>9. \A v : Settled(v) => Settled(v)'
  BY <1>1, <1>5 DEF Settled
<1>10. \A i \in DOMAIN Fallbacks :
         Settled(Fallbacks[i])' \/ \E k \in DOMAIN queue' : queue'[k] = Standard(Fallbacks[i])
  <2> SUFFICES ASSUME NEW i \in DOMAIN Fallbacks, ~Settled(Fallbacks[i]), c = Standard(Fallbacks[i])
               PROVE  Settled(Fallbacks[i])'
    BY <1>2, <1>3, <1>9 DEF SitemapInv, WhileLocating
  <2>1. c.url = Fallbacks[i] /\ ~c.declared
    BY DEF Standard
  <2>2. missed' \/ Answered(a)
    BY <1>1, <2>1 DEF Unanswered, Answered
  <2>3. [url |-> c.url, answer |-> a] \in Asked'
    BY <1>5
  <2>4. QED
    BY <2>1, <2>2, <2>3 DEF Settled
<1>11. record'.exists => \E r \in Asked' : r.url = record'.url /\ r.answer.status = 200
  <2>1. CASE a.status = 200
    <3>1. [url |-> c.url, answer |-> a] \in Asked' /\ record'.url = c.url
      BY <1>5, <1>6, <2>1
    <3>2. QED
      BY <2>1, <3>1
  <2>2. CASE a.status # 200
    BY <1>2, <1>5, <1>6, <2>2 DEF SitemapInv, WhileLocating
  <2>3. QED
    BY <2>1, <2>2
<1>12. CASE ~over(a) /\ ~Validates(a)
  <2>1. reading' = "locate" /\ queue' # <<>>
    BY <1>1, <1>2, <1>12
  <2>2. WhileLocating'
    BY <1>6, <1>8, <1>10, <1>12, <1>11, <2>1 DEF WhileLocating
  <2>3. QED
    BY <1>7, <2>1, <2>2 DEF SitemapInv, WhileProbing, WhileReading, WhileFollowing, SitemapRecordFounded
<1>13. CASE Validates(a)
  <2>1. a.status = 200 /\ reading' = "read"
    BY <1>1, <1>6, <1>13 DEF Validates
  <2>2. [url |-> c.url, answer |-> a] \in Asked'
    BY <1>5
  <2>3. WhileReading'
    BY <1>6, <1>8, <1>13, <2>1, <2>2 DEF WhileReading
  <2>4. QED
    BY <1>7, <2>1, <2>3 DEF SitemapInv, WhileLocating, WhileProbing, WhileFollowing, SitemapRecordFounded
<1>14. CASE over(a)
  <2>1. AllSettled' /\ ~record'.valid /\ (missed' => record'.fetch_status = "error")
    BY <1>2, <1>3, <1>6, <1>10, <1>14 DEF AllSettled
  <2>2. CASE record'.exists
    <3>1. reading' = "read"
      BY <1>1, <1>6, <1>14, <2>2
    <3>2. WhileReading'
      BY <1>6, <1>8, <1>11, <2>1, <2>2 DEF WhileReading
    <3>3. QED
      BY <1>7, <3>1, <3>2 DEF SitemapInv, WhileLocating, WhileProbing, WhileFollowing, SitemapRecordFounded
  <2>3. CASE ~record'.exists
    <3>1. reading' = "probe"
      BY <1>1, <1>6, <1>14, <2>3
    <3>2. WhileProbing'
      BY <1>6, <1>8, <2>1, <2>3 DEF WhileProbing
    <3>3. QED
      BY <1>7, <3>1, <3>2 DEF SitemapInv, WhileLocating, WhileReading, WhileFollowing, SitemapRecordFounded
  <2>4. QED
    BY <2>2, <2>3
<1>15. QED
  BY <1>13, <1>14, <1>12

\* Nothing was found, and the first standard address is asked once more.
LEMMA ProbeKeeps ==
  ASSUME SitemapInv, Probe
  PROVE  SitemapInv'
<1> DEFINE u == Fallbacks[1]
<1>1. PICK a \in server[u] :
        Request(u, a) /\ record' = [record EXCEPT !.served_as_html = Soft200(a)]
  BY DEF Probe
<1>2. /\ reading = "probe" /\ reading' = "done"
      /\ server' = server /\ queue' = queue /\ missed' = missed
      /\ Shape /\ ~record.exists /\ ~record.valid /\ record.entries = <<>>
      /\ NothingLost /\ AllSettled /\ (missed => record.fetch_status = "error")
  BY DEF Probe, SitemapInv, WhileProbing
<1>3. 1 \in DOMAIN Fallbacks /\ u \in Url
  BY SitemapAssumption
<1>4. a \in Reply
  BY <1>1, <1>2, <1>3 DEF Shape
<1>5. /\ requests' \in Seq(Exchange)
      /\ Asked' = Asked \cup {[url |-> u, answer |-> a]}
      /\ Consistent' => \A r \in Asked : r.url = u => r.answer = a
  BY <1>1, <1>2, <1>3, <1>4, OneMoreAsked
<1>6. /\ record' \in Evidence /\ ~record'.exists /\ ~record'.valid /\ record'.entries = <<>>
      /\ record'.fetch_status = record.fetch_status
  <2>1. record \in Evidence /\ Soft200(a) \in BOOLEAN
    BY <1>2 DEF Shape, Soft200
  <2>2. QED
    BY <1>1, <1>2, <2>1 DEF Evidence
<1>7. Shape'
  BY <1>2, <1>5, <1>6 DEF Shape
<1>8. \A r \in Asked : ~Validates(r.answer) /\ (r.answer.status = NoAnswer => missed)
  BY <1>2 DEF NothingLost
<1>9. PICK first \in Asked : first.url = u /\ (missed \/ Answered(first.answer))
  BY <1>2, <1>3 DEF AllSettled, Settled
<1>10. Consistent' => a = first.answer
  BY <1>5, <1>9
<1>11. Consistent' => \A r \in Asked' : ~Validates(r.answer)
  BY <1>5, <1>8, <1>9, <1>10
<1>12. ASSUME Consistent', record'.fetch_status = "ok"
       PROVE  /\ queue' = <<>>
              /\ \A i \in DOMAIN Fallbacks : \E r \in Asked' : r.url = Fallbacks[i] /\ Answered(r.answer)
              /\ \A r \in Asked' : r.answer.status # NoAnswer
  <2>1. ~missed
    BY <1>2, <1>6, <1>12
  <2>2. \A r \in Asked' : r.answer.status # NoAnswer
    BY <1>5, <1>8, <1>9, <1>10, <1>12, <2>1
  <2>3. QED
    BY <1>2, <1>5, <2>1, <2>2 DEF AllSettled, Settled
<1>13. SitemapRecordFounded'
  BY <1>6, <1>11, <1>12 DEF SitemapRecordFounded, Sound
<1>14. QED
  BY <1>2, <1>7, <1>13 DEF SitemapInv, WhileLocating, WhileProbing, WhileReading, WhileFollowing

\* What reading an answer makes of the record.
LEMMA ReadRecordCases ==
  ASSUME Shape, record.entries = <<>>, NEW a \in Reply
  PROVE  LET R == ReadRecord(a) IN
         /\ R \in Evidence /\ R.fetch_status = record.fetch_status
         /\ R.exists \/ Soft200(a) \/ ~record.exists
         /\ R.valid => (~Answered(a) /\ record.valid) \/ a.root \in {"urlset", "sitemapindex"}
         /\ ~R.valid => ~Sound(a)  \/ ~Answered(a)
         /\ R.entries # <<>> => R.valid /\ IsPrefix(R.entries, a.locs)
         /\ a.root = "sitemapindex" /\ Answered(a) /\ a.locs # <<>> =>
               R.valid /\ R.entries # <<>> /\ R.exists = record.exists
<1> DEFINE R == ReadRecord(a)
<1>1. record \in Evidence
  BY DEF Shape
<1>2. CASE ~Answered(a)
  BY <1>1, <1>2 DEF ReadRecord
<1>3. CASE Answered(a) /\ Soft200(a)
  <2>1. R = [record EXCEPT !.exists = FALSE, !.url = "none", !.valid = FALSE, !.served_as_html = TRUE]
    BY <1>3 DEF ReadRecord
  <2>2. a.root = "html"
    BY <1>3 DEF Soft200
  <2>3. QED
    BY <1>1, <1>3, <2>1, <2>2 DEF Evidence, Sound, Validates
<1>4. CASE Answered(a) /\ ~Soft200(a) /\ ~Parses(a)
  <2>1. R = [record EXCEPT !.valid = FALSE]
    BY <1>4 DEF ReadRecord
  <2>2. QED
    BY <1>1, <1>4, <2>1 DEF Evidence, Sound, Validates, Parses
<1>5. CASE Answered(a) /\ ~Soft200(a) /\ Parses(a)
  <2>1. R = [record EXCEPT !.valid = a.root \in {"urlset", "sitemapindex"}, !.entries = Entries(a)]
    BY <1>5 DEF ReadRecord
  <2>2. /\ Entries(a) \in Seq(Url) /\ IsPrefix(Entries(a), a.locs)
        /\ Entries(a) # <<>> => a.root \in {"urlset", "sitemapindex"}
        /\ a.locs # <<>> /\ a.root \in {"urlset", "sitemapindex"} => Entries(a) # <<>>
    BY EntriesArePrefix
  <2>3. /\ R \in Evidence /\ R.fetch_status = record.fetch_status /\ R.exists = record.exists
        /\ R.valid <=> a.root \in {"urlset", "sitemapindex"}
        /\ R.entries = Entries(a)
    <3>1. CASE a.root \in {"urlset", "sitemapindex"}
      <4>1. R = [record EXCEPT !.valid = TRUE, !.entries = Entries(a)]
        BY <2>1, <3>1
      <4>2. QED
        BY <1>1, <2>2, <3>1, <4>1 DEF Evidence
    <3>2. CASE a.root \notin {"urlset", "sitemapindex"}
      <4>1. (a.root \in {"urlset", "sitemapindex"}) = FALSE
        BY <3>2
      <4>2. R = [record EXCEPT !.valid = FALSE, !.entries = Entries(a)]
        BY <2>1, <4>1, Zenon
      <4>3. QED
        BY <1>1, <2>2, <3>2, <4>2 DEF Evidence
    <3>3. QED
      BY <3>1, <3>2
  <2>4. QED
    BY <1>5, <2>2, <2>3 DEF Sound, Validates
<1>6. QED
  BY <1>2, <1>3, <1>4, <1>5

\* The document found is fetched again.
LEMMA ReadKeeps ==
  ASSUME SitemapInv, Read
  PROVE  SitemapInv'
<1> DEFINE u == record.url
           follow(a) == a.root = "sitemapindex" /\ Answered(a) /\ a.locs # <<>>
<1>1. PICK a \in server[u] :
        /\ Request(u, a) /\ record' = ReadRecord(a)
        /\ reading' = IF follow(a) THEN "child" ELSE "done"
  BY DEF Read
<1>2. /\ reading = "read" /\ server' = server /\ queue' = queue /\ missed' = missed
      /\ Shape /\ record.exists /\ record.entries = <<>> /\ NothingLost
      /\ ~record.valid => AllSettled /\ (missed => record.fetch_status = "error")
  BY DEF Read, SitemapInv, WhileReading
<1>3. PICK sighting \in Asked :
        sighting.url = u /\ sighting.answer.status = 200 /\ (record.valid => Validates(sighting.answer))
  BY <1>2 DEF SitemapInv, WhileReading
<1>4. u \in Url /\ a \in Reply
  <2>1. sighting \in Exchange
    BY <1>2, <1>3 DEF Shape, Asked
  <2>2. QED
    BY <1>1, <1>2, <1>3, <2>1 DEF Exchange, Shape
<1>5. /\ requests' \in Seq(Exchange)
      /\ Asked' = Asked \cup {[url |-> u, answer |-> a]}
      /\ Last(requests').answer = a
      /\ Consistent' => \A r \in Asked : r.url = u => r.answer = a
  BY <1>1, <1>2, <1>4, OneMoreAsked
<1>6. /\ record' \in Evidence /\ record'.fetch_status = record.fetch_status
      /\ record'.exists \/ Soft200(a)
      /\ record'.valid => (~Answered(a) /\ record.valid) \/ a.root \in {"urlset", "sitemapindex"}
      /\ ~record'.valid => ~Sound(a) \/ ~Answered(a)
      /\ record'.entries # <<>> => record'.valid /\ IsPrefix(record'.entries, a.locs)
      /\ follow(a) => record'.valid /\ record'.entries # <<>> /\ record'.exists
  BY <1>1, <1>2, <1>4, ReadRecordCases
<1>7. Shape'
  BY <1>1, <1>2, <1>5, <1>6 DEF Shape
<1>8. [url |-> u, answer |-> a] \in Asked'
  BY <1>5
<1>9. Consistent' => a = sighting.answer
  BY <1>3, <1>5
<1>10. ASSUME Consistent', ~Sound(a) PROVE \A r \in Asked' : ~Sound(r.answer)
  BY <1>2, <1>5, <1>10 DEF NothingLost, Sound
<1>11. record'.valid => \E r \in Asked' : r.answer.root \in {"urlset", "sitemapindex", "foreign"}
  BY <1>3, <1>5, <1>6, <1>8 DEF Validates
<1>12. CASE follow(a)
  <2>1. ~Sound(a)
    BY <1>12 DEF Sound
  <2>2. WhileFollowing'
    BY <1>6, <1>10, <1>11, <1>12, <2>1 DEF WhileFollowing
  <2>3. QED
    BY <1>1, <1>7, <1>12, <2>2
    DEF SitemapInv, WhileLocating, WhileProbing, WhileReading, SitemapRecordFounded
<1>13. CASE ~follow(a)
  <2>1. ASSUME Consistent', ~record'.exists, record'.fetch_status = "ok"
        PROVE  /\ queue' = <<>>
               /\ \A i \in DOMAIN Fallbacks : \E r \in Asked' : r.url = Fallbacks[i] /\ Answered(r.answer)
               /\ \A r \in Asked' : r.answer.status # NoAnswer /\ ~Validates(r.answer)
    <3>1. a.status = 200 /\ a.root = "html"
      BY <1>6, <2>1 DEF Soft200
    <3>2. ~Validates(a) /\ a.status # NoAnswer
      BY <3>1 DEF Validates, NoAnswer
    <3>3. ~record.valid
      BY <1>3, <1>9, <2>1, <3>2
    <3>4. AllSettled /\ ~missed
      BY <1>2, <1>6, <2>1, <3>3
    <3>5. \A r \in Asked : r.answer.status # NoAnswer /\ ~Validates(r.answer)
      BY <1>2, <3>3, <3>4 DEF NothingLost
    <3>6. QED
      BY <1>2, <1>5, <3>2, <3>4, <3>5 DEF AllSettled, Settled
  <2>2. ASSUME Consistent', ~record'.valid PROVE \A r \in Asked' : ~Sound(r.answer)
    <3>1. Answered(a)
      BY <1>3, <1>9, <2>2 DEF Answered, NoAnswer, Refused
    <3>2. QED
      BY <1>6, <1>10, <2>2, <3>1
  <2>3. SitemapRecordFounded'
    BY <1>5, <1>6, <1>11, <2>1, <2>2 DEF SitemapRecordFounded
  <2>4. QED
    BY <1>1, <1>7, <1>13, <2>3 DEF SitemapInv, WhileLocating, WhileProbing, WhileReading, WhileFollowing
<1>14. QED
  BY <1>12, <1>13

\* The first child of an index decides.
LEMMA ReadChildKeeps ==
  ASSUME SitemapInv, ReadChild
  PROVE  SitemapInv'
<1>1. /\ reading = "child" /\ server' = server /\ queue' = queue /\ missed' = missed
      /\ Shape /\ record.exists /\ record.valid /\ record.entries # <<>>
      /\ \E r \in Asked : r.answer.root \in {"urlset", "sitemapindex", "foreign"}
      /\ Consistent => \A r \in Asked : ~Sound(r.answer)
  BY DEF ReadChild, SitemapInv, WhileFollowing
<1>2. CASE FirstChild \in Malformed
  <2>1. reading' = "failed" /\ requests' = requests /\ record' = record
    BY <1>2 DEF ReadChild
  <2>2. Shape'
    BY <1>1, <2>1 DEF Shape
  <2>3. QED
    BY <2>1, <2>2 DEF SitemapInv, WhileLocating, WhileProbing, WhileReading, WhileFollowing, SitemapRecordFounded
<1>3. CASE FirstChild \notin Malformed
  <2>1. PICK a \in server[FirstChild] :
          /\ Request(FirstChild, a) /\ reading' = "done"
          /\ record' = IF ~Answered(a) THEN [record EXCEPT !.entries = <<>>]
                       ELSE IF ~Parses(a) THEN [record EXCEPT !.valid = FALSE, !.entries = <<>>]
                       ELSE [record EXCEPT !.entries = Entries(a)]
    BY <1>3 DEF ReadChild
  <2>2. record \in Evidence /\ FirstChild \in Url
    BY <1>1 DEF Shape, Evidence, FirstChild
  <2>3. a \in Reply
    BY <1>1, <2>1, <2>2 DEF Shape
  <2>4. /\ requests' \in Seq(Exchange)
        /\ Asked' = Asked \cup {[url |-> FirstChild, answer |-> a]}
        /\ Last(requests').answer = a
        /\ Consistent' => Consistent
    BY <1>1, <2>1, <2>2, <2>3, OneMoreAsked
  <2>5. Entries(a) \in Seq(Url) /\ IsPrefix(Entries(a), a.locs)
    BY <2>3, EntriesArePrefix
  <2>6. /\ record' \in Evidence /\ record'.exists
        /\ ~record'.valid => ~Parses(a)
        /\ record'.entries # <<>> => record'.valid /\ record'.entries = Entries(a)
    <3> DEFINE none == <<>>
    <3>0. none \in Seq(Url) /\ none = <<>>
      OBVIOUS
    <3> HIDE DEF none
    <3>1. CASE ~Answered(a)
      <4>1. record' = [record EXCEPT !.entries = none]
        BY <2>1, <3>0, <3>1
      <4>2. QED
        BY <1>1, <2>2, <3>0, <4>1 DEF Evidence
    <3>2. CASE Answered(a) /\ ~Parses(a)
      <4>1. record' = [record EXCEPT !.valid = FALSE, !.entries = none]
        BY <2>1, <3>0, <3>2
      <4>2. QED
        BY <1>1, <2>2, <3>0, <3>2, <4>1 DEF Evidence
    <3>3. CASE Answered(a) /\ Parses(a)
      BY <1>1, <2>1, <2>2, <2>5, <3>3 DEF Evidence
    <3>4. QED
      BY <3>1, <3>2, <3>3
  <2>7. Shape'
    BY <1>1, <2>1, <2>4, <2>6 DEF Shape
  <2>8. ~Parses(a) => ~Sound(a)
    BY DEF Parses, Sound, Validates
  <2>9. SitemapRecordFounded'
    BY <1>1, <2>4, <2>5, <2>6, <2>8 DEF SitemapRecordFounded
  <2>10. QED
    BY <2>1, <2>7, <2>9 DEF SitemapInv, WhileLocating, WhileProbing, WhileReading, WhileFollowing
<1>4. QED
  BY <1>2, <1>3
-----------------------------------------------------------------------------
\* What SitemapInv says holds in every state of the reading.
THEOREM SitemapInvariance == SitemapSpec => []SitemapInv
<1>1. SitemapInv /\ [SitemapNext]_sitemapVars => SitemapInv'
  <2> SUFFICES ASSUME SitemapInv, [SitemapNext]_sitemapVars PROVE SitemapInv'
    OBVIOUS
  <2>1. CASE UNCHANGED sitemapVars
    <3>1. /\ server' = server /\ queue' = queue /\ missed' = missed /\ requests' = requests
          /\ record' = record /\ reading' = reading
      BY <2>1 DEF sitemapVars
    <3>2. Asked' = Asked /\ (Consistent' <=> Consistent) /\ (NothingLost' <=> NothingLost)
      BY <3>1 DEF Asked, Consistent, NothingLost
    <3>3. (\A u : Settled(u)' <=> Settled(u)) /\ (AllSettled' <=> AllSettled)
      BY <3>1, <3>2 DEF Settled, AllSettled
    <3>4. Shape' /\ WhileLocating' /\ WhileProbing' /\ WhileReading' /\ WhileFollowing'
      BY <3>1, <3>2, <3>3
      DEF SitemapInv, Shape, WhileLocating, WhileProbing, WhileReading, WhileFollowing
    <3>5. SitemapRecordFounded'
      BY <3>1, <3>2 DEF SitemapInv, SitemapRecordFounded
    <3>6. QED
      BY <3>4, <3>5 DEF SitemapInv
  <2>2. CASE SitemapNext
    BY <2>2, LocateKeeps, ProbeKeeps, ReadKeeps, ReadChildKeeps DEF SitemapNext
  <2>3. QED
    BY <2>1, <2>2
<1>2. QED
  BY <1>1, SitemapInitInv, PTL DEF SitemapSpec
-----------------------------------------------------------------------------
(* The page sample. *)

Reasons == {"entry", "product_or_pricing", "docs_or_api", "sitemap"}
Pick == [url : Url, reason : Reasons]

SiteTyped == site.links \in Seq(Url) /\ site.html \in BOOLEAN /\ site.max_pages \in Nat \ {0}

\* Picks that may stand: the entry page first and only once, on the site, no
\* page twice and no more than max_pages.
Fine(picks) ==
    /\ picks \in Seq(Pick) /\ Len(picks) \in 1..site.max_pages
    /\ picks[1].reason = "entry"
    /\ \A i \in DOMAIN picks : picks[i].url \in OnSite /\ (picks[i].reason = "entry" => i = 1)
    /\ \A i, j \in DOMAIN picks : Canon[picks[i].url] = Canon[picks[j].url] => i = j

\* ... unless selection raised.
Standing(picks) == picks = <<>> \/ Fine(picks)

\* The page is among the picks, in some spelling.
Picked(u, picks) == \E i \in DOMAIN picks : Canon[picks[i].url] = Canon[u]

\* What add() makes of the picks: it raises, or keeps them all and adds a page
\* that belongs there if there is room.
LEMMA AddStands ==
  ASSUME SiteTyped, NEW picks, Standing(picks), NEW u \in Url, NEW reason \in Reasons \ {"entry"}
  PROVE  LET more == Add(picks, u, reason)
         IN /\ Standing(more) /\ Len(more) \in Nat
            /\ picks = <<>> => more = <<>>
            /\ more # <<>> =>
                  /\ Len(more) \in Len(picks)..(Len(picks) + 1)
                  /\ u \in OnSite /\ Len(picks) < site.max_pages => Picked(u, more)
                  /\ \A v : Picked(v, picks) => Picked(v, more)
<1> DEFINE more == Add(picks, u, reason)
           new == [url |-> u, reason |-> reason]
<1>1. CASE picks = <<>> \/ u \in Malformed
  BY <1>1 DEF Add, Standing
<1> SUFFICES ASSUME picks # <<>>, u \notin Malformed
             PROVE  /\ Fine(more) /\ Len(more) \in Len(picks)..(Len(picks) + 1)
                    /\ u \in OnSite /\ Len(picks) < site.max_pages => Picked(u, more)
                    /\ \A v : Picked(v, picks) => Picked(v, more)
  BY <1>1 DEF Standing, Fine
<1>2. Fine(picks) /\ Len(picks) \in Nat /\ site.max_pages \in Nat
  BY DEF Standing, Fine, SiteTyped
<1>3. CASE \/ Picked(u, picks)
           \/ u \notin OnSite
           \/ Len(picks) >= site.max_pages
  <2>1. more = picks
    BY <1>3 DEF Add, Picked
  <2> HIDE DEF more
  <2>2. QED
    BY <1>2, <1>3, <2>1
<1>4. CASE ~Picked(u, picks) /\ u \in OnSite /\ Len(picks) < site.max_pages
  <2>1. more = Append(picks, new)
    BY <1>2, <1>4 DEF Add, Picked
  <2>2. new \in Pick
    BY DEF Pick
  <2> HIDE DEF more
  <2>3. /\ more \in Seq(Pick) /\ Len(more) = Len(picks) + 1
        /\ more[Len(picks) + 1] = new /\ \A i \in 1..Len(picks) : more[i] = picks[i]
    BY <1>2, <2>1, <2>2 DEF Fine
  <2> HIDE DEF new
  <2>4. DOMAIN more = DOMAIN picks \cup {Len(picks) + 1} /\ DOMAIN picks = 1..Len(picks)
    BY <1>2, <2>3 DEF Fine
  <2>5. new.url = u /\ new.reason = reason
    BY DEF new
  <2>6. \A i \in DOMAIN more : more[i].url \in OnSite /\ (more[i].reason = "entry" => i = 1)
    BY <1>2, <1>4, <2>3, <2>4, <2>5 DEF Fine
  <2>7. \A i, j \in DOMAIN more : Canon[more[i].url] = Canon[more[j].url] => i = j
    <3> SUFFICES ASSUME NEW i \in DOMAIN more, NEW j \in DOMAIN more,
                        Canon[more[i].url] = Canon[more[j].url]
                 PROVE  i = j
      OBVIOUS
    <3>1. CASE i \in DOMAIN picks /\ j \in DOMAIN picks
      BY <1>2, <2>3, <2>4, <3>1 DEF Fine
    <3>2. CASE i \in DOMAIN picks /\ j = Len(picks) + 1
      BY <1>4, <2>3, <2>4, <2>5, <3>2 DEF Picked
    <3>3. CASE i = Len(picks) + 1 /\ j \in DOMAIN picks
      BY <1>4, <2>3, <2>4, <2>5, <3>3 DEF Picked
    <3>4. QED
      BY <2>4, <3>1, <3>2, <3>3
  <2>8. Fine(more)
    <3>1. Len(more) \in 1..site.max_pages /\ more[1].reason = "entry"
      BY <1>2, <1>4, <2>3 DEF Fine
    <3>2. QED
      BY <2>3, <2>6, <2>7, <3>1 DEF Fine
  <2>9. Picked(u, more)
    BY <2>3, <2>4, <2>5 DEF Picked
  <2>10. \A v : Picked(v, picks) => Picked(v, more)
    BY <2>3, <2>4 DEF Picked
  <2>11. QED
    BY <1>2, <2>3, <2>8, <2>9, <2>10
<1>5. QED
  BY <1>2, <1>3, <1>4

\* The search for the first page of a kind adds at most that page.
LEMMA AddFirstStands ==
  ASSUME SiteTyped, Candidates \in Seq(Url), NEW picks, Standing(picks), NEW wanted,
         NEW reason \in Reasons \ {"entry"}
  PROVE  LET more == AddFirst(picks, wanted, reason)
         IN Standing(more) /\ Len(more) \in Nat /\ Len(more) <= Len(picks) + 1
<1> DEFINE I == {i \in 1..Len(Candidates) : Candidates[i] \in wanted \cup Malformed}
           k == SelectInSeq(Candidates, LAMBDA u : u \in wanted \cup Malformed)
<1>1. k = 0 \/ k \in 1..Len(Candidates)
  <2>1. k = IF I # {} THEN Min(I) ELSE 0
    BY DEF SelectInSeq
  <2>2. I # {} => Min(I) \in I
    <3>1. I \in SUBSET Nat
      OBVIOUS
    <3> HIDE DEF I
    <3>2. I # {} => \E x \in I : \A y \in I : x <= y
      BY <3>1, LeastExists
    <3>3. QED
      BY <3>2 DEF Min
  <2> HIDE DEF k
  <2>3. QED
    BY <2>1, <2>2
<1>2. Len(picks) \in Nat
  BY DEF Standing, Fine
<1>3. AddFirst(picks, wanted, reason) = IF k = 0 THEN picks ELSE Add(picks, Candidates[k], reason)
  BY DEF AddFirst
<1> HIDE DEF k
<1>4. CASE k = 0
  BY <1>2, <1>3, <1>4
<1>5. CASE k # 0
  <2>1. Candidates[k] \in Url
    BY <1>1, <1>5
  <2> DEFINE more == Add(picks, Candidates[k], reason)
  <2>2. Standing(more) /\ Len(more) \in Nat /\ (more # <<>> => Len(more) \in Len(picks)..(Len(picks) + 1))
    BY <2>1, AddStands
  <2> HIDE DEF more
  <2>3. more = <<>> => Len(more) <= Len(picks) + 1
    BY <1>2
  <2>4. QED
    BY <1>2, <1>3, <1>5, <2>2, <2>3 DEF more
<1>6. QED
  BY <1>4, <1>5


\* Sitemap entries are added while there is room, and none of the window is
\* passed over before that.
FilledTo(picks, k) ==
    /\ Standing(picks) /\ Len(picks) \in Nat
    /\ picks # <<>> =>
          /\ Len(picks) <= Limit
          /\ Len(picks) < Limit => \A j \in 1..k : Window[j] \in OnSite => Picked(Window[j], picks)

\* One entry of the window.
LEMMA FillOne ==
  ASSUME SiteTyped, NEW k \in Nat, NEW n \in Nat, k < n, Window \in [1..n -> Url],
         NEW picks, FilledTo(picks, k)
  PROVE  FilledTo(IF Len(picks) >= Limit THEN picks ELSE Add(picks, Window[k + 1], "sitemap"), k + 1)
<1> DEFINE u == Window[k + 1]
           more == Add(picks, u, "sitemap")
<1>1. Limit \in Nat /\ Limit <= site.max_pages /\ site.max_pages \in Nat
  BY SampleAssumption DEF Limit, SiteTyped
<1>2. CASE Len(picks) >= Limit
  BY <1>1, <1>2 DEF FilledTo
<1>3. CASE ~(Len(picks) >= Limit)
  <2>1. k + 1 \in 1..n /\ u \in Url /\ "sitemap" \in Reasons \ {"entry"}
    BY DEF Reasons
  <2> HIDE DEF u
  <2>2. /\ Standing(more) /\ Len(more) \in Nat
        /\ picks = <<>> => more = <<>>
        /\ more # <<>> =>
              /\ Len(more) \in Len(picks)..(Len(picks) + 1)
              /\ u \in OnSite /\ Len(picks) < site.max_pages => Picked(u, more)
              /\ \A v : Picked(v, picks) => Picked(v, more)
    BY <2>1, AddStands DEF FilledTo
  <2> HIDE DEF more
  <2>3. ASSUME more # <<>>, NEW j \in 1..(k + 1), Window[j] \in OnSite PROVE Picked(Window[j], more)
    <3>1. CASE j = k + 1
      BY <1>1, <1>3, <2>2, <2>3, <3>1 DEF FilledTo, u
    <3>2. CASE j # k + 1
      <4>1. j \in 1..k
        BY <3>2
      <4>2. Picked(Window[j], picks)
        BY <1>1, <1>3, <2>2, <2>3, <4>1 DEF FilledTo
      <4>3. QED
        BY <2>2, <2>3, <4>2
    <3>3. QED
      BY <3>1, <3>2
  <2>4. more # <<>> => Len(more) <= Limit
    BY <1>1, <1>3, <2>2 DEF FilledTo
  <2>5. FilledTo(more, k + 1)
    BY <2>2, <2>3, <2>4 DEF FilledTo
  <2>6. QED
    BY <1>3, <2>5 DEF more, u
<1>4. QED
  BY <1>2, <1>3

\* What select_pages returns: nothing, or a sample that starts with the entry
\* page, stays within both limits and leaves no room unused.
LEMMA SelectionStands ==
  ASSUME SiteTyped, SitemapEntries \in Seq(Url)
  PROVE  FilledTo(select_pages, Len(Window)) /\ DOMAIN Window = 1..Len(Window)
<1> DEFINE entry == <<[url |-> EntryUrl, reason |-> "entry"]>>
           product == AddFirst(entry, Productish, "product_or_pricing")
           docs == IF site.profile \in {"api", "auto"} THEN AddFirst(product, Docsish, "docs_or_api") ELSE product
           n == Len(Window)
           Step(p, k) == IF Len(p) >= Limit THEN p ELSE Add(p, Window[k], "sitemap")
           filled[k \in 0..n] ==
              IF k = 0 THEN docs
              ELSE LET p == filled[k - 1] IN IF Len(p) >= Limit THEN p ELSE Add(p, Window[k], "sitemap")
           R(g) == g = [k \in 0..n |-> IF k = 0 THEN docs ELSE Step(g[k - 1], k)]
<1>1. select_pages = filled[n]
  BY DEF select_pages
<1>2. filled = CHOOSE f : R(f)
  OBVIOUS
<1> HIDE DEF entry, product, docs, Step, filled, R
<1>w. n \in Nat /\ Window \in [1..n -> Url] /\ Window \in Seq(Url)
  <2> DEFINE w == IF Len(SitemapEntries) < SitemapWindow THEN Len(SitemapEntries) ELSE SitemapWindow
  <2>1. w \in 0..Len(SitemapEntries)
    BY SampleAssumption
  <2> HIDE DEF w
  <2>2. SubSeq(SitemapEntries, 1, w) \in Seq(Url)
    BY <2>1
  <2>3. Window \in Seq(Url)
    BY <2>2 DEF Window, w
  <2>4. QED
    BY <2>3
<1>3. Candidates \in Seq(Url)
  <2>1. EntryLinks \in Seq(Url)
    BY DEF EntryLinks, SiteTyped
  <2>2. QED
    BY <2>1 DEF Candidates
<1>4. FilledTo(docs, 0)
  <2>1. Standing(entry) /\ Len(entry) = 1
    <3>1. EntryUrl \in Url /\ EntryUrl \in OnSite /\ "entry" \in Reasons
      BY SampleAssumption DEF Reasons
    <3>2. [url |-> EntryUrl, reason |-> "entry"] \in Pick
      BY <3>1 DEF Pick
    <3>3. entry \in Seq(Pick) /\ Len(entry) = 1 /\ DOMAIN entry = {1}
      BY <3>2 DEF entry
    <3>4. QED
      BY <3>1, <3>3 DEF Standing, Fine, SiteTyped, entry
  <2>2. Standing(product) /\ Len(product) \in Nat /\ Len(product) <= 2
    <3>1. "product_or_pricing" \in Reasons \ {"entry"}
      BY DEF Reasons
    <3>2. Standing(product) /\ Len(product) \in Nat /\ Len(product) <= Len(entry) + 1
      BY <1>3, <2>1, <3>1, AddFirstStands, Zenon DEF product
    <3>3. QED
      BY <2>1, <3>2
  <2>3. Standing(docs) /\ Len(docs) \in Nat /\ Len(docs) <= 3
    <3>1. "docs_or_api" \in Reasons \ {"entry"}
      BY DEF Reasons
    <3>2. CASE site.profile \in {"api", "auto"}
      <4> DEFINE more == AddFirst(product, Docsish, "docs_or_api")
      <4>1. Standing(more) /\ Len(more) \in Nat /\ Len(more) <= Len(product) + 1
        BY <1>3, <2>2, <3>1, AddFirstStands
      <4> HIDE DEF more
      <4>2. docs = more
        BY <3>2 DEF docs, more
      <4>3. QED
        BY <2>2, <4>1, <4>2
    <3>3. CASE site.profile \notin {"api", "auto"}
      BY <2>2, <3>3 DEF docs
    <3>4. QED
      BY <3>2, <3>3
  <2>4. docs # <<>> => Len(docs) <= Limit
    BY <2>3, SampleAssumption DEF Limit, Standing, Fine, SiteTyped
  <2>5. 1..0 = {}
    OBVIOUS
  <2>6. QED
    BY <2>3, <2>4, <2>5 DEF FilledTo
<1>5. filled = [k \in 0..n |-> IF k = 0 THEN docs ELSE Step(filled[k - 1], k)]
  <2> DEFINE A == {p \in Seq(Pick) : Standing(p)}
             next == [q \in Nat \X A |-> IF q[1] < n THEN Step(q[2], q[1] + 1) ELSE q[2]]
  <2>1. docs \in A
    <3>1. <<>> \in Seq(Pick)
      OBVIOUS
    <3>2. QED
      BY <1>4, <3>1 DEF FilledTo, Standing, Fine
  <2>2. ASSUME NEW k \in Nat, NEW a \in A PROVE next[<<k, a>>] \in A
    <3>1. next[<<k, a>>] = IF k < n THEN Step(a, k + 1) ELSE a
      <4>1. <<k, a>> \in Nat \X A
        OBVIOUS
      <4> HIDE DEF A
      <4>2. QED
        BY <4>1
    <3>2. CASE k < n /\ ~(Len(a) >= Limit)
      <4>1. k + 1 \in 1..n
        BY <1>w, <3>2
      <4>2. Window[k + 1] \in Url /\ "sitemap" \in Reasons \ {"entry"}
        BY <1>w, <4>1 DEF Reasons
      <4> DEFINE more == Add(a, Window[k + 1], "sitemap")
      <4>3. Standing(more)
        BY <4>2, AddStands
      <4>4. <<>> \in Seq(Pick)
        OBVIOUS
      <4> HIDE DEF more
      <4>5. more \in A
        BY <4>3, <4>4 DEF Standing, Fine
      <4>6. QED
        BY <3>1, <3>2, <4>5 DEF more, Step
    <3>3. CASE ~(k < n /\ ~(Len(a) >= Limit))
      BY <3>1, <3>3 DEF Step
    <3>4. QED
      BY <3>2, <3>3
  <2>3. \E g \in [Nat -> A] : g[0] = docs /\ \A k \in Nat : g[k + 1] = next[<<k, g[k]>>]
    <3> HIDE DEF A, next
    <3>1. Stays(A, docs, next)
      BY <2>1, <2>2 DEF Stays
    <3>2. QED
      BY <3>1, Recursion
  <2>4. PICK g \in [Nat -> A] : g[0] = docs /\ \A k \in Nat : g[k + 1] = next[<<k, g[k]>>]
    BY <2>3
  <2> DEFINE h == [k \in 0..n |-> g[k]]
  <2>5. ASSUME NEW k \in 0..n, k # 0 PROVE h[k] = Step(h[k - 1], k)
    <3>1. k - 1 \in Nat /\ k - 1 \in 0..n /\ k - 1 < n /\ (k - 1) + 1 = k /\ k \in Nat
      <4>1. n \in Nat
        BY <1>w
      <4> HIDE DEF n, h, next, A
      <4>2. QED
        BY <2>5, <4>1
    <3>2. <<k - 1, g[k - 1]>> \in Nat \X A
      BY <3>1
    <3>3. g[k] = next[<<k - 1, g[k - 1]>>]
      BY <2>4, <3>1
    <3> HIDE DEF A
    <3>4. next[<<k - 1, g[k - 1]>>] = Step(g[k - 1], k)
      BY <3>1, <3>2
    <3>5. QED
      BY <3>1, <3>3, <3>4
  <2>6. R(h)
    <3>1. h[0] = docs
      BY <1>w, <2>4
    <3>2. \A k \in 0..n : h[k] = IF k = 0 THEN docs ELSE Step(h[k - 1], k)
      BY <2>5, <3>1
    <3> DEFINE hh == [k \in 0..n |-> IF k = 0 THEN docs ELSE Step(h[k - 1], k)]
    <3>3. hh = h
      <4> HIDE DEF h
      <4>1. h = [k \in 0..n |-> h[k]]
        BY DEF h
      <4>2. QED
        BY <3>2, <4>1
    <3>4. QED
      BY <3>3 DEF R
  <2> HIDE DEF h
  <2>7. R(filled)
    BY <1>2, <2>6
  <2>8. QED
    BY <2>7 DEF R
<1> DEFINE S == {k \in Nat : k <= n => FilledTo(filled[k], k)}
<1>6. 0 \in S
  BY <1>w, <1>4, <1>5
<1>7. ASSUME NEW k \in Nat, k \in S PROVE k + 1 \in S
  <2> SUFFICES ASSUME k + 1 <= n PROVE FilledTo(filled[k + 1], k + 1)
    OBVIOUS
  <2>1. k < n /\ FilledTo(filled[k], k) /\ k + 1 \in 0..n /\ k + 1 # 0 /\ (k + 1) - 1 = k
    BY <1>w, <1>7
  <2>2. filled[k + 1] = Step(filled[k], k + 1)
    BY <1>5, <2>1
  <2>3. FilledTo(Step(filled[k], k + 1), k + 1)
    BY <1>w, <2>1, FillOne DEF Step
  <2>4. QED
    BY <2>2, <2>3
<1>8. Nat \subseteq S
  <2> HIDE DEF S
  <2>1. QED
    BY <1>6, <1>7, SetInduction
<1>9. FilledTo(filled[n], n)
  BY <1>w, <1>8
<1>10. QED
  BY <1>1, <1>w, <1>9

-----------------------------------------------------------------------------
(* The reference probe. *)

Statuses == {"UNCHECKED", "VALID", "BROKEN", "UNCLAIMED"}
Lookups == {"none", "running", "again", "failed", "addresses", "noname", "nodata", "registry",
            "other", "nobody"}

\* The world does not change, and every reference has its place in it.
World ==
    /\ options \in [experimental : BOOLEAN, remote_exec : BOOLEAN]
    /\ refs \in Seq(References)
    /\ truth \in [References -> {"exists", "free", "addressless"}]
    /\ \A r \in References : r.kind # "domain" => truth[r] # "addressless"

\* The lookups run one reference ahead of the statuses while one is awaited.
InStep ==
    /\ found \in Seq(Statuses) /\ lookup \in Seq(Lookups)
    /\ Len(found) <= Len(refs)
    /\ waiting =>
          /\ Len(lookup) = Len(found) + 1 /\ Len(found) < Len(refs)
          /\ Current.kind = "domain" /\ Answer # "none" /\ verdict = "none"
    /\ ~waiting => Len(lookup) = Len(found)
    /\ ~options.experimental => ~waiting /\ lookup = <<>>

\* A resolver thread tells the truth, whenever it gets to tell it.
Truthful ==
    \A i \in DOMAIN lookup :
        /\ lookup[i] \in {"running", "addresses", "noname", "nodata"} => refs[i].kind = "domain"
        /\ lookup[i] = "addresses" => truth[refs[i]] = "exists"
        /\ lookup[i] \in {"noname", "nodata"} => truth[refs[i]] # "exists"

Paid ==
    /\ IsFiniteSet(LookedUp) /\ spent = Cardinality(LookedUp) /\ spent <= Budget
    /\ budget_exhausted <=> \E i \in DOMAIN found : lookup[i] = "none"

IInv == World /\ InStep /\ Truthful /\ Paid /\ OnlyEvidenceConvicts /\ VerdictNeedsEvidence
-----------------------------------------------------------------------------
\* What a resolver thread can find under a name.
LEMMA ResolutionsAreTrue ==
  ASSUME NEW t \in {"exists", "free", "addressless"}, NEW answer \in Resolutions(t)
  PROVE  /\ answer \in {"again", "failed", "addresses", "noname", "nodata"}
         /\ answer = "addresses" => t = "exists"
         /\ answer \in {"noname", "nodata"} => t # "exists"
<1>1. CASE t = "exists"
  BY <1>1 DEF Resolutions
<1>2. CASE t = "free"
  BY <1>2 DEF Resolutions
<1>3. CASE t = "addressless"
  BY <1>3 DEF Resolutions
<1>4. QED
  BY <1>1, <1>2, <1>3

\* Only the registry's own word settles whether a package exists.
LEMMA AnswersAreTrue ==
  ASSUME NEW t \in {"exists", "free"}, NEW answer \in Answers(t)
  PROVE  /\ answer.host \in {"registry", "other", "nobody"}
         /\ package_resolution(answer) \in {"exists", "missing", "unchecked"}
         /\ package_resolution(answer) = "exists" => t = "exists"
         /\ package_resolution(answer) = "missing" => t = "free"
<1>1. CASE t = "exists"
  BY <1>1 DEF Answers, package_resolution, fetched
<1>2. CASE t = "free"
  BY <1>2 DEF Answers, package_resolution, fetched
<1>3. QED
  BY <1>1, <1>2

\* The initial states.
LEMMA ProbeInitInv == ProbeInit => IInv
<1> SUFFICES ASSUME ProbeInit PROVE IInv
  OBVIOUS
<1>1. World
  BY ExtractionAssumption DEF ProbeInit, World, Truths
<1>2. InStep
  <2>1. Len(refs) \in Nat /\ Len(found) = 0 /\ Len(lookup) = 0
    BY <1>1 DEF ProbeInit, World
  <2>2. found \in Seq(Statuses) /\ lookup \in Seq(Lookups) /\ lookup = <<>> /\ ~waiting
    BY DEF ProbeInit
  <2>3. QED
    BY <2>1, <2>2 DEF InStep
<1>3. LookedUp = {}
  BY DEF ProbeInit, LookedUp
<1>4. Paid
  BY <1>3, FS_EmptySet, BudgetAssumption DEF ProbeInit, Paid
<1>5. Truthful /\ OnlyEvidenceConvicts /\ VerdictNeedsEvidence
  BY DEF ProbeInit, Truthful, OnlyEvidenceConvicts, VerdictNeedsEvidence
<1>6. QED
  BY <1>1, <1>2, <1>4, <1>5 DEF IInv

\* A reference is settled together with its lookup: exhausted, or asked of a
\* registry.
LEMMA SettledAtOnce ==
  ASSUME IInv, Probing, NEW kind \in Lookups, NEW resolution,
         lookup' = Append(lookup, kind), Settle(resolution),
         kind \notin {"running", "addresses", "noname", "nodata"},
         resolution \in {"exists", "missing", "unchecked"},
         resolution = "exists" => truth[Current] = "exists",
         resolution = "missing" => Current.kind # "domain" /\ truth[Current] = "free",
         UNCHANGED <<world, waiting, verdict>>
  PROVE  /\ World' /\ InStep' /\ Truthful' /\ OnlyEvidenceConvicts' /\ VerdictNeedsEvidence'
         /\ DOMAIN found' = DOMAIN found \cup {Len(found) + 1}
         /\ DOMAIN lookup' = DOMAIN found'
         /\ lookup'[Len(found) + 1] = kind
         /\ \A i \in DOMAIN found : lookup'[i] = lookup[i]
<1> DEFINE n == Len(found)
<1>1. /\ refs \in Seq(References) /\ found \in Seq(Statuses) /\ lookup \in Seq(Lookups)
      /\ n \in Nat /\ Len(lookup) = n /\ n < Len(refs) /\ ~waiting /\ verdict = "none"
      /\ options.experimental
  BY DEF IInv, World, InStep, Probing, Done
<1>2. /\ refs' = refs /\ truth' = truth /\ options' = options /\ waiting' = waiting
      /\ verdict' = verdict
  BY DEF world
<1>3. classify_reference(Current, resolution) \in Statuses
  BY DEF classify_reference, Statuses
<1>4. /\ found' \in Seq(Statuses) /\ Len(found') = n + 1
      /\ \A i \in 1..n : found'[i] = found[i]
      /\ found'[n + 1] = classify_reference(Current, resolution)
  BY <1>1, <1>3 DEF Settle
<1>5. /\ lookup' \in Seq(Lookups) /\ Len(lookup') = n + 1
      /\ \A i \in 1..n : lookup'[i] = lookup[i]
      /\ lookup'[n + 1] = kind
  BY <1>1
<1>6. World'
  BY <1>2 DEF IInv, World, Truths
<1>7. InStep'
  BY <1>1, <1>2, <1>4, <1>5 DEF IInv, InStep
<1>8. Truthful'
  BY <1>1, <1>2, <1>5 DEF IInv, Truthful
<1>9. OnlyEvidenceConvicts'
  <2> SUFFICES ASSUME NEW i \in 1..(n + 1)
               PROVE  /\ found'[i] = "VALID" => truth[refs[i]] = "exists"
                      /\ found'[i] = "BROKEN" => refs[i].kind = "domain" /\ truth[refs[i]] # "exists"
                      /\ found'[i] = "UNCLAIMED" => refs[i].kind # "domain" /\ truth[refs[i]] = "free"
    BY <1>2, <1>4 DEF OnlyEvidenceConvicts
  <2>1. CASE i \in 1..n
    <3>1. i \in DOMAIN found /\ found'[i] = found[i]
      BY <2>1, <1>1, <1>4
    <3>2. QED
      BY <3>1 DEF IInv, OnlyEvidenceConvicts
  <2>2. CASE i = n + 1
    BY <2>2, <1>4 DEF classify_reference, Current
  <2>3. QED
    BY <1>1, <2>1, <2>2
<1>10. VerdictNeedsEvidence'
  BY <1>1, <1>2 DEF VerdictNeedsEvidence
<1>11. QED
  BY <1>1, <1>4, <1>5, <1>6, <1>7, <1>8, <1>9, <1>10

\* A lookup started is a lookup paid for.
LEMMA PaidForOneMore ==
  ASSUME IInv, BudgetLeft, NEW n, n \notin LookedUp, LookedUp' = LookedUp \cup {n}, spent' = spent + 1
  PROVE  IsFiniteSet(LookedUp') /\ spent' = Cardinality(LookedUp') /\ spent' <= Budget
<1>1. Cardinality(LookedUp) \in Nat
  BY FS_CardinalityType DEF IInv, Paid
<1>2. Cardinality(LookedUp') = Cardinality(LookedUp) + 1 /\ IsFiniteSet(LookedUp')
  BY FS_AddElement DEF IInv, Paid
<1>3. QED
  BY <1>1, <1>2, BudgetAssumption DEF IInv, Paid, BudgetLeft
-----------------------------------------------------------------------------
\* A reference goes without a lookup.
LEMMA ExhaustKeeps ==
  ASSUME IInv, Exhaust
  PROVE  IInv'
<1>1. /\ World' /\ InStep' /\ Truthful' /\ OnlyEvidenceConvicts' /\ VerdictNeedsEvidence'
      /\ DOMAIN found' = DOMAIN found \cup {Len(found) + 1}
      /\ DOMAIN lookup' = DOMAIN found'
      /\ lookup'[Len(found) + 1] = "none"
      /\ \A i \in DOMAIN found : lookup'[i] = lookup[i]
  <2>1. /\ Probing /\ Settle("unchecked") /\ lookup' = Append(lookup, "none")
        /\ UNCHANGED <<world, waiting, verdict>>
    BY DEF Exhaust
  <2>2. "none" \in Lookups /\ "none" \notin {"running", "addresses", "noname", "nodata"}
    BY DEF Lookups
  <2>3. QED
    BY <2>1, <2>2, SettledAtOnce
<1>2. Len(lookup) = Len(found) /\ DOMAIN lookup = DOMAIN found
  BY DEF IInv, InStep, Exhaust, Probing
<1>3. LookedUp' = LookedUp
  BY <1>1, <1>2 DEF LookedUp
<1>4. spent' = spent /\ budget_exhausted' = TRUE
  BY DEF Exhaust
<1>5. Paid'
  BY <1>1, <1>3, <1>4 DEF IInv, Paid
<1>6. QED
  BY <1>1, <1>5 DEF IInv

\* A registry is asked and its answer classified.
LEMMA AskRegistryKeeps ==
  ASSUME IInv, AskRegistry
  PROVE  IInv'
<1>1. PICK answer \in Answers(truth[Current]) :
         /\ lookup' = Append(lookup, answer.host)
         /\ Settle(package_resolution(answer))
  BY DEF AskRegistry
<1>2. Current \in References
  <2>1. refs \in Seq(References) /\ Len(found) \in Nat /\ Len(found) < Len(refs)
    BY DEF IInv, World, InStep, AskRegistry, Probing, Done
  <2>2. QED
    BY <2>1 DEF Current
<1>3. truth[Current] \in {"exists", "free"}
  BY <1>2 DEF IInv, World, AskRegistry
<1>4. /\ answer.host \in {"registry", "other", "nobody"}
      /\ package_resolution(answer) \in {"exists", "missing", "unchecked"}
      /\ package_resolution(answer) = "exists" => truth[Current] = "exists"
      /\ package_resolution(answer) = "missing" => truth[Current] = "free"
  BY <1>3, AnswersAreTrue
<1>5. /\ World' /\ InStep' /\ Truthful' /\ OnlyEvidenceConvicts' /\ VerdictNeedsEvidence'
      /\ DOMAIN found' = DOMAIN found \cup {Len(found) + 1}
      /\ DOMAIN lookup' = DOMAIN found'
      /\ lookup'[Len(found) + 1] = answer.host
      /\ \A i \in DOMAIN found : lookup'[i] = lookup[i]
  <2>1. Probing /\ UNCHANGED <<world, waiting, verdict>> /\ Current.kind # "domain"
    BY DEF AskRegistry
  <2>2. answer.host \in Lookups /\ answer.host \notin {"running", "addresses", "noname", "nodata"}
    BY <1>4 DEF Lookups
  <2>3. QED
    BY <1>1, <1>4, <2>1, <2>2, SettledAtOnce
<1>6. DOMAIN lookup = DOMAIN found /\ Len(found) + 1 \notin DOMAIN found
  BY DEF IInv, InStep, AskRegistry, Probing
<1>7. LookedUp' = LookedUp \cup {Len(found) + 1} /\ Len(found) + 1 \notin LookedUp
  BY <1>4, <1>5, <1>6 DEF LookedUp
<1>8. /\ BudgetLeft /\ spent' = spent + 1 /\ budget_exhausted' = budget_exhausted
  BY DEF AskRegistry
<1>9. Paid'
  BY <1>4, <1>5, <1>7, <1>8, PaidForOneMore DEF IInv, Paid
<1>10. QED
  BY <1>5, <1>9 DEF IInv

\* A resolver thread is started.
LEMMA StartLookupKeeps ==
  ASSUME IInv, StartLookup
  PROVE  IInv'
<1> DEFINE n == Len(found)
<1>1. /\ refs \in Seq(References) /\ found \in Seq(Statuses) /\ lookup \in Seq(Lookups)
      /\ n \in Nat /\ Len(lookup) = n /\ n < Len(refs) /\ verdict = "none" /\ options.experimental
      /\ Current.kind = "domain"
  BY DEF IInv, World, InStep, StartLookup, Probing, Done
<1>2. /\ refs' = refs /\ truth' = truth /\ options' = options /\ found' = found
      /\ verdict' = verdict /\ waiting' = TRUE /\ budget_exhausted' = budget_exhausted
      /\ spent' = spent + 1 /\ lookup' = Append(lookup, "running") /\ BudgetLeft
  BY DEF StartLookup, world
<1>3. /\ lookup' \in Seq(Lookups) /\ Len(lookup') = n + 1
      /\ \A i \in 1..n : lookup'[i] = lookup[i]
      /\ lookup'[n + 1] = "running"
  BY <1>1, <1>2 DEF Lookups
<1>4. World' /\ OnlyEvidenceConvicts' /\ VerdictNeedsEvidence'
  BY <1>1, <1>2 DEF IInv, World, Truths, OnlyEvidenceConvicts, VerdictNeedsEvidence
<1>5. InStep'
  BY <1>1, <1>2, <1>3 DEF IInv, InStep, Current, Answer
<1>6. Truthful'
  BY <1>1, <1>2, <1>3 DEF IInv, Truthful, Current
<1>7. LookedUp' = LookedUp \cup {n + 1} /\ n + 1 \notin LookedUp
  <2>1. DOMAIN lookup = 1..n /\ DOMAIN lookup' = 1..(n + 1)
    BY <1>1, <1>3
  <2>2. QED
    BY <1>1, <1>3, <2>1 DEF LookedUp
<1>8. Paid'
  <2>1. IsFiniteSet(LookedUp') /\ spent' = Cardinality(LookedUp') /\ spent' <= Budget
    BY <1>2, <1>7, PaidForOneMore
  <2>2. DOMAIN found = 1..n /\ \A i \in DOMAIN found : lookup'[i] = lookup[i]
    BY <1>1, <1>3
  <2>3. QED
    BY <1>2, <2>1, <2>2 DEF IInv, Paid
<1>9. QED
  BY <1>4, <1>5, <1>6, <1>8 DEF IInv

\* A wait ends, with the answer or without.
LEMMA WaitEnds ==
  ASSUME IInv, TakeAnswer \/ TimeOut
  PROVE  IInv'
<1> DEFINE n == Len(found)
<1>1. /\ refs \in Seq(References) /\ found \in Seq(Statuses) /\ lookup \in Seq(Lookups)
      /\ n \in Nat /\ Len(lookup) = n + 1 /\ n < Len(refs) /\ waiting
      /\ Current.kind = "domain" /\ lookup[n + 1] # "none" /\ options.experimental
  BY DEF IInv, World, InStep, TakeAnswer, TimeOut, Answer
<1>2. /\ refs' = refs /\ truth' = truth /\ options' = options /\ lookup' = lookup
      /\ verdict' = verdict /\ ~waiting' /\ budget_exhausted' = budget_exhausted
      /\ spent' = spent
  BY DEF TakeAnswer, TimeOut, world
<1>3. PICK status \in Statuses :
        /\ found' = Append(found, status)
        /\ status = "VALID" => truth[Current] = "exists"
        /\ status = "BROKEN" => truth[Current] # "exists"
        /\ status # "UNCLAIMED"
  <2>1. CASE TimeOut
    BY <2>1 DEF TimeOut, Settle, classify_reference, Statuses
  <2>2. CASE TakeAnswer
    <3>1. /\ Answer = "addresses" => truth[Current] = "exists"
          /\ Answer \in {"noname", "nodata"} => truth[Current] # "exists"
      BY <1>1 DEF IInv, Truthful, Answer, Current
    <3>2. found' = Append(found, classify_reference(Current, domain_resolution(Answer)))
      BY <2>2 DEF TakeAnswer, Settle
    <3>3. QED
      BY <1>1, <3>1, <3>2 DEF classify_reference, domain_resolution, Statuses
  <2>3. QED
    BY <2>1, <2>2
<1>4. /\ found' \in Seq(Statuses) /\ Len(found') = n + 1
      /\ \A i \in 1..n : found'[i] = found[i]
      /\ found'[n + 1] = status
  BY <1>1, <1>3
<1>5. World'
  BY <1>2 DEF IInv, World
<1>6. InStep' /\ Truthful'
  <2>1. Len(refs) \in Nat /\ DOMAIN lookup = 1..Len(lookup)
    BY <1>1
  <2>2. InStep'
    BY <1>1, <1>2, <1>4, <2>1 DEF InStep
  <2>3. Truthful'
    BY <1>2 DEF IInv, Truthful
  <2>4. QED
    BY <2>2, <2>3
<1>7. Paid'
  <2>1. LookedUp' = LookedUp
    BY <1>2 DEF LookedUp
  <2>2. (\E i \in DOMAIN found' : lookup'[i] = "none") <=> (\E i \in DOMAIN found : lookup[i] = "none")
    BY <1>1, <1>2, <1>4
  <2>3. QED
    BY <1>2, <2>1, <2>2 DEF IInv, Paid
<1>8. OnlyEvidenceConvicts'
  BY <1>1, <1>2, <1>3, <1>4 DEF IInv, OnlyEvidenceConvicts, Current
<1>9. VerdictNeedsEvidence'
  <2>1. verdict = "none"
    BY <1>1 DEF IInv, InStep
  <2>2. QED
    BY <1>2, <2>1 DEF VerdictNeedsEvidence
<1>10. QED
  BY <1>5, <1>6, <1>7, <1>8, <1>9 DEF IInv

\* A resolver thread finishes, in time or late: nothing published changes.
LEMMA ResolveKeeps ==
  ASSUME IInv, NEW i \in DOMAIN lookup, Resolve(i)
  PROVE  IInv'
<1>1. /\ refs \in Seq(References) /\ found \in Seq(Statuses) /\ lookup \in Seq(Lookups)
      /\ i \in DOMAIN refs /\ i \in 1..Len(lookup) /\ Len(found) <= Len(lookup)
      /\ refs[i] \in References /\ lookup[i] = "running" /\ refs[i].kind = "domain"
  BY DEF IInv, World, InStep, Truthful, Resolve
<1>2. PICK answer \in Resolutions(truth[refs[i]]) : lookup' = [lookup EXCEPT ![i] = answer]
  BY DEF Resolve
<1>3. truth[refs[i]] \in {"exists", "free", "addressless"}
  BY <1>1 DEF IInv, World
<1>4. /\ answer \in {"again", "failed", "addresses", "noname", "nodata"}
      /\ answer = "addresses" => truth[refs[i]] = "exists"
      /\ answer \in {"noname", "nodata"} => truth[refs[i]] # "exists"
  BY <1>3, ResolutionsAreTrue
<1>5. /\ refs' = refs /\ truth' = truth /\ options' = options /\ found' = found
      /\ verdict' = verdict /\ waiting' = waiting /\ budget_exhausted' = budget_exhausted
      /\ spent' = spent
  BY DEF Resolve, world
<1>6. /\ lookup' \in Seq(Lookups) /\ Len(lookup') = Len(lookup) /\ lookup'[i] = answer
      /\ \A j \in 1..Len(lookup) : j # i => lookup'[j] = lookup[j]
      /\ DOMAIN lookup' = DOMAIN lookup
  BY <1>1, <1>2, <1>4 DEF Lookups
<1>7. World' /\ OnlyEvidenceConvicts' /\ VerdictNeedsEvidence'
  BY <1>5 DEF IInv, World, OnlyEvidenceConvicts, VerdictNeedsEvidence
<1>8. InStep'
  <2>1. ASSUME waiting PROVE Answer' # "none"
    <3>1. Len(found) + 1 = Len(lookup) /\ Len(lookup) \in Nat /\ lookup[Len(lookup)] # "none"
      BY <1>1, <2>1 DEF IInv, InStep, Answer
    <3>2. Answer' = lookup'[Len(lookup)]
      BY <1>5, <3>1 DEF Answer
    <3>3. QED
      BY <1>1, <1>4, <1>6, <3>1, <3>2
  <2>2. Current' = Current
    BY <1>5 DEF Current
  <2>3. options.experimental
    BY <1>1 DEF IInv, InStep
  <2>4. QED
    BY <1>5, <1>6, <2>1, <2>2, <2>3 DEF IInv, InStep
<1>9. Truthful'
  BY <1>1, <1>4, <1>5, <1>6 DEF IInv, Truthful
<1>10. LookedUp' = LookedUp
  BY <1>1, <1>4, <1>6 DEF LookedUp
<1>11. (\E j \in DOMAIN found' : lookup'[j] = "none") <=> (\E j \in DOMAIN found : lookup[j] = "none")
  BY <1>1, <1>4, <1>5, <1>6
<1>12. Paid'
  BY <1>5, <1>10, <1>11 DEF IInv, Paid
<1>13. QED
  BY <1>7, <1>8, <1>9, <1>12 DEF IInv

\* The verdict rests on what was found.
LEMMA JudgeKeeps ==
  ASSUME IInv, Judge
  PROVE  IInv'
<1>1. /\ refs' = refs /\ truth' = truth /\ options' = options /\ lookup' = lookup
      /\ found' = found /\ waiting' = waiting /\ budget_exhausted' = budget_exhausted
      /\ spent' = spent /\ verdict' = MachineReferenceIntegrity /\ ~waiting
  BY DEF Judge, world
<1>2. World' /\ InStep' /\ Truthful' /\ OnlyEvidenceConvicts'
  BY <1>1 DEF IInv, World, InStep, Truthful, OnlyEvidenceConvicts, Current, Answer
<1>3. Paid'
  BY <1>1 DEF IInv, Paid, LookedUp
<1>4. /\ DOMAIN found \subseteq DOMAIN refs /\ refs \in Seq(References) /\ found \in Seq(Statuses)
      /\ \A i \in DOMAIN found : found[i] \in Statuses
  BY DEF IInv, World, InStep
<1>5. options.experimental /\ refs = <<>> => spent = 0
  <2> SUFFICES ASSUME options.experimental, refs = <<>> PROVE spent = 0
    OBVIOUS
  <2>1. Len(lookup) = 0 /\ lookup \in Seq(Lookups)
    BY <1>1 DEF IInv, InStep
  <2>2. LookedUp = {}
    BY <2>1 DEF LookedUp
  <2>3. QED
    BY <2>2, FS_EmptySet DEF IInv, Paid
<1>6. ~options.experimental => spent = 0
  <2> SUFFICES ASSUME ~options.experimental PROVE spent = 0
    OBVIOUS
  <2>1. LookedUp = {}
    BY DEF IInv, InStep, LookedUp
  <2>2. QED
    BY <2>1, FS_EmptySet DEF IInv, Paid
<1>7. VerdictNeedsEvidence'
  <2> DEFINE named == {refs[i] : i \in DOMAIN refs}
  <2>1. verdict' = "FAIL" => \E r \in named : r.kind = "domain" /\ truth[r] # "exists"
    BY <1>1, <1>4 DEF MachineReferenceIntegrity, Reported, IInv, OnlyEvidenceConvicts
  <2>2. verdict' = "WARN" =>
           options.remote_exec \/ \E r \in named : r.kind # "domain" /\ truth[r] = "free"
    BY <1>1, <1>4 DEF MachineReferenceIntegrity, Reported, IInv, OnlyEvidenceConvicts
  <2>3. verdict' = "PASS" => ~options.remote_exec /\ \E r \in named : truth[r] = "exists"
    BY <1>1, <1>4 DEF MachineReferenceIntegrity, Reported, IInv, OnlyEvidenceConvicts
  <2>4. verdict' = "ERROR" => named # {} /\ \A i \in DOMAIN found : found[i] = "UNCHECKED"
    <3> SUFFICES ASSUME verdict' = "ERROR"
                 PROVE  named # {} /\ \A i \in DOMAIN found : found[i] = "UNCHECKED"
      OBVIOUS
    <3>1. /\ refs # <<>> /\ ~Reported("BROKEN") /\ ~Reported("UNCLAIMED") /\ ~Reported("VALID")
      BY <1>1 DEF MachineReferenceIntegrity
    <3>2. 1 \in DOMAIN refs
      BY <1>4, <3>1
    <3>3. QED
      BY <1>4, <3>1, <3>2 DEF Reported, Statuses
  <2>5. verdict' = "N/A" => spent = 0
    BY <1>1, <1>5, <1>6 DEF MachineReferenceIntegrity
  <2>6. QED
    BY <1>1, <2>1, <2>2, <2>3, <2>4, <2>5 DEF VerdictNeedsEvidence
<1>8. QED
  BY <1>2, <1>3, <1>7 DEF IInv
-----------------------------------------------------------------------------
\* The conjunction of these is an invariant of the probe.
THEOREM ProbeInvariance == ProbeSpec => []IInv
<1>1. IInv /\ [ProbeNext]_probeVars => IInv'
  <2> SUFFICES ASSUME IInv, [ProbeNext]_probeVars PROVE IInv'
    OBVIOUS
  <2>1. CASE UNCHANGED probeVars
    BY <2>1 DEF probeVars, world, IInv, World, InStep, Truthful, Paid, OnlyEvidenceConvicts,
                VerdictNeedsEvidence, LookedUp, Current, Answer
  <2>2. CASE ProbeStep
    BY <2>2, ExhaustKeeps, StartLookupKeeps, WaitEnds, AskRegistryKeeps, JudgeKeeps DEF ProbeStep
  <2>3. CASE \E i \in DOMAIN lookup : Resolve(i)
    BY <2>3, ResolveKeeps
  <2>4. QED
    BY <2>1, <2>2, <2>3 DEF ProbeNext
<1>2. QED
  BY <1>1, ProbeInitInv, PTL DEF ProbeSpec

\* Within the scan the probe takes its own steps only, whatever pages are
\* sampled beside it: the scan implements the probe.
THEOREM ScanRunsTheProbe == SamplingSpec => ProbeSpec
<1>1. SamplingInit => ProbeInit
  BY DEF SamplingInit
<1>2. [SamplingNext]_samplingVars => [ProbeNext]_probeVars
  BY DEF SamplingNext, ScanStep, Sampled, ProbeNext, samplingVars
<1>3. QED
  BY <1>1, <1>2, PTL DEF SamplingSpec, ProbeSpec

\* No timeout, outage, throttled or redirected registry ever convicts or
\* clears a reference, for any documents and any world.
THEOREM EvidenceConvicts == SamplingSpec => []OnlyEvidenceConvicts
<1>1. IInv => OnlyEvidenceConvicts
  BY DEF IInv
<1>2. QED
  BY <1>1, ProbeInvariance, ScanRunsTheProbe, PTL

\* The budget bounds the lookups, abandoned ones included, for any budget.
THEOREM LookupsBudgeted == SamplingSpec => []BudgetIsKept
<1>1. IInv => BudgetIsKept
  <2> SUFFICES ASSUME IInv PROVE BudgetIsKept
    OBVIOUS
  <2>1. ~options.experimental => LookedUp = {}
    BY DEF IInv, InStep, LookedUp
  <2>2. ~options.experimental => spent = 0
    BY <2>1, FS_EmptySet DEF IInv, Paid
  <2>3. DOMAIN found \subseteq DOMAIN lookup
    BY DEF IInv, InStep
  <2>4. (\E i \in DOMAIN found : lookup[i] = "none") <=> (\E i \in DOMAIN found : i \notin LookedUp)
    BY <2>3 DEF LookedUp
  <2>5. QED
    BY <2>2, <2>4 DEF IInv, Paid, BudgetIsKept
<1>2. QED
  BY <1>1, ProbeInvariance, ScanRunsTheProbe, PTL

\* The check's verdict rests on a settled reference, whatever went missing.
THEOREM VerdictFounded == SamplingSpec => []VerdictNeedsEvidence
<1>1. IInv => VerdictNeedsEvidence
  BY DEF IInv
<1>2. QED
  BY <1>1, ProbeInvariance, ScanRunsTheProbe, PTL

\* Within the scan the sitemap is read by its own steps only.
THEOREM ScanReadsTheSitemap == SamplingSpec => SitemapSpec
<1>1. SamplingInit => SitemapInit
  BY DEF SamplingInit
<1>2. [SamplingNext]_samplingVars => [SitemapNext]_sitemapVars
  BY DEF SamplingNext, ScanStep, Sampled, samplingVars
<1>3. QED
  BY <1>1, <1>2, PTL DEF SamplingSpec, SitemapSpec

\* The sitemap record rests on what was answered, for any server, one that
\* changes its answers included, any declarations and any cap.
THEOREM SitemapFounded == SamplingSpec => []SitemapRecordFounded
<1>1. SitemapInv => SitemapRecordFounded
  BY DEF SitemapInv
<1>2. QED
  BY <1>1, SitemapInvariance, ScanReadsTheSitemap, PTL
-----------------------------------------------------------------------------
(* The page sample within the scan: it is made once the sitemap was read.  *)

Record == [url : Url, parsed : BOOLEAN, error : BOOLEAN, retry_after : BOOLEAN]

SampleTyped ==
    /\ site \in Sites /\ selection \in Seq(Pick) /\ pages \in Seq(Record)
    /\ sampling \in {"select", "fetch", "done", "failed"}

\* The records are those of the first picks, one each, in order.
Recorded ==
    /\ Len(pages) <= Len(selection)
    /\ \A i \in 1..Len(pages) : pages[i].url = selection[i].url
    /\ sampling = "select" => selection = <<>> /\ pages = <<>>
    /\ sampling = "done" => Len(pages) = Len(selection)

\* Nothing the selection read changes any more once it has been made.
SitemapWasRead == sampling # "select" => reading \in {"done", "failed"}

Selected == FilledTo(selection, Len(Window)) /\ DOMAIN Window = 1..Len(Window)

SampleInv ==
    /\ SampleTyped /\ Recorded /\ SitemapWasRead
    /\ sampling # "select" => Selected

LEMMA SampleTypedSite == SampleTyped => SiteTyped
  BY SampleAssumption DEF SampleTyped, SiteTyped

\* Select makes a selection that stands.
LEMMA SelectKeeps == SitemapInv /\ SampleInv /\ Select /\ UNCHANGED <<sitemapVars, probeVars>> => SampleInv'
<1> SUFFICES ASSUME SitemapInv, SampleInv, Select, UNCHANGED sitemapVars PROVE SampleInv'
  OBVIOUS
<1>1. /\ selection' = select_pages /\ site' = site /\ pages' = pages /\ pages = <<>>
      /\ sampling' \in {"fetch", "failed"} /\ reading \in {"done", "failed"}
      /\ reading' = reading /\ record' = record
  BY DEF Select, SampleInv, Recorded, sitemapVars
<1>2. SiteTyped
  BY SampleTypedSite DEF SampleInv
<1>3. SitemapEntries \in Seq(Url)
  <2>1. <<>> \in Seq(Url)
    OBVIOUS
  <2>2. record.entries \in Seq(Url)
    BY DEF SitemapInv, Shape, Evidence
  <2>3. QED
    BY <2>1, <2>2 DEF SitemapEntries
<1>4. FilledTo(select_pages, Len(Window)) /\ DOMAIN Window = 1..Len(Window)
  BY <1>2, <1>3, SelectionStands
<1>5. Selected'
  BY <1>1, <1>4 DEF Selected, FilledTo, Standing, Fine, Picked, Limit, Window, SitemapEntries
<1>6. selection' \in Seq(Pick) /\ Len(selection') \in Nat
  <2>1. <<>> \in Seq(Pick)
    OBVIOUS
  <2>2. QED
    BY <1>1, <1>4, <2>1 DEF FilledTo, Standing, Fine
<1>7. SampleTyped' /\ Recorded' /\ SitemapWasRead'
  BY <1>1, <1>6 DEF SampleInv, SampleTyped, Recorded, SitemapWasRead
<1>8. QED
  BY <1>5, <1>7 DEF SampleInv

\* Fetch adds the record of the next pick.
LEMMA FetchKeeps == SampleInv /\ Fetch /\ UNCHANGED <<sitemapVars, probeVars>> => SampleInv'
<1> SUFFICES ASSUME SampleInv, Fetch, UNCHANGED sitemapVars PROVE SampleInv'
  OBVIOUS
<1> DEFINE next == Len(pages) + 1
           pick == selection[next]
<1>1. /\ sampling = "fetch" /\ Len(pages) < Len(selection) /\ site' = site
      /\ selection' = selection /\ sampling' = sampling /\ reading' = reading /\ record' = record
  BY DEF Fetch, sitemapVars
<1>2. PICK outcome \in Outcomes : pages' = Append(pages, PageRecord(pick.url, outcome))
  BY DEF Fetch
<1>3. next \in 1..Len(selection) /\ Len(pages) \in Nat /\ pick.url \in Url
  <2>1. selection \in Seq(Pick) /\ pages \in Seq(Record)
    BY DEF SampleInv, SampleTyped
  <2>2. Len(selection) \in Nat /\ Len(pages) \in Nat
    BY <2>1
  <2>3. next \in 1..Len(selection)
    BY <1>1, <2>2
  <2>4. pick \in Pick
    BY <2>1, <2>3
  <2>5. QED
    BY <2>2, <2>3, <2>4 DEF Pick
<1>4. PageRecord(pick.url, outcome) \in Record /\ PageRecord(pick.url, outcome).url = pick.url
  BY <1>3 DEF PageRecord, Record
<1> HIDE DEF pick
<1>5. pages \in Seq(Record)
  BY DEF SampleInv, SampleTyped
<1>6. /\ pages' \in Seq(Record) /\ Len(pages') = next /\ pages'[next].url = pick.url
      /\ \A i \in 1..Len(pages) : pages'[i] = pages[i]
  BY <1>2, <1>3, <1>4, <1>5
<1>7. Recorded'
  <2>1. \A i \in 1..next : pages'[i].url = selection[i].url
    <3> SUFFICES ASSUME NEW i \in 1..next PROVE pages'[i].url = selection[i].url
      OBVIOUS
    <3>1. CASE i = next
      BY <1>6, <3>1 DEF pick
    <3>2. CASE i # next
      <4>1. i \in 1..Len(pages)
        BY <1>3, <3>2
      <4>2. QED
        BY <1>6, <4>1 DEF SampleInv, Recorded
    <3>3. QED
      BY <3>1, <3>2
  <2>2. QED
    BY <1>1, <1>3, <1>6, <2>1 DEF SampleInv, Recorded
<1>8. SampleTyped' /\ SitemapWasRead'
  BY <1>1, <1>6 DEF SampleInv, SampleTyped, SitemapWasRead
<1>9. Selected'
  BY <1>1 DEF SampleInv, Selected, FilledTo, Standing, Fine, Picked, Limit, Window, SitemapEntries
<1>10. QED
  BY <1>7, <1>8, <1>9 DEF SampleInv

\* The steps that leave the sample alone: the sitemap's own only as long as
\* nothing has been selected.
LEMMA SampleUntouched ==
  SampleInv /\ UNCHANGED sampleVars /\ (UNCHANGED sitemapVars \/ SitemapNext) => SampleInv'
<1> SUFFICES ASSUME SampleInv, UNCHANGED sampleVars, UNCHANGED sitemapVars \/ SitemapNext PROVE SampleInv'
  OBVIOUS
<1>1. /\ site' = site /\ selection' = selection /\ pages' = pages /\ sampling' = sampling
  BY DEF sampleVars
<1>2. SampleTyped' /\ Recorded'
  BY <1>1 DEF SampleInv, SampleTyped, Recorded
<1>3. CASE SitemapNext
  <2>1. reading \notin {"done", "failed"}
    BY <1>3 DEF SitemapNext, Locate, Probe, Read, ReadChild
  <2>2. sampling = "select"
    BY <2>1 DEF SampleInv, SampleTyped, SitemapWasRead
  <2>3. QED
    BY <1>1, <1>2, <2>2 DEF SampleInv, SitemapWasRead
<1>4. CASE UNCHANGED sitemapVars
  <2>1. reading' = reading /\ record' = record
    BY <1>4 DEF sitemapVars
  <2>2. sampling # "select" => Selected'
    BY <1>1, <2>1
    DEF SampleInv, Selected, FilledTo, Standing, Fine, Picked, Limit, Window, SitemapEntries
  <2>3. QED
    BY <1>1, <1>2, <2>1, <2>2 DEF SampleInv, SitemapWasRead
<1>5. QED
  BY <1>3, <1>4

\* The sample's invariant, within the scan.
THEOREM SampleInvariance == SamplingSpec => []SampleInv
<1>1. SamplingInit => SampleInv
  <2> SUFFICES ASSUME SampleInit PROVE SampleInv
    BY DEF SamplingInit
  <2>1. <<>> \in Seq(Pick) /\ <<>> \in Seq(Record)
    OBVIOUS
  <2>2. QED
    BY <2>1 DEF SampleInit, SampleInv, SampleTyped, Recorded, SitemapWasRead
<1>2. SitemapInv /\ SampleInv /\ [SamplingNext]_samplingVars => SampleInv'
  <2> SUFFICES ASSUME SitemapInv, SampleInv, [SamplingNext]_samplingVars PROVE SampleInv'
    OBVIOUS
  <2>1. CASE UNCHANGED sampleVars /\ (UNCHANGED sitemapVars \/ SitemapNext)
    BY <2>1, SampleUntouched
  <2>2. CASE SampleNext /\ UNCHANGED <<sitemapVars, probeVars>>
    <3>1. CASE FinishPages
      <4>1. /\ sampling = "fetch" /\ Len(pages) = Len(selection) /\ sampling' = "done" /\ site' = site
            /\ selection' = selection /\ pages' = pages /\ reading' = reading /\ record' = record
        BY <2>2, <3>1 DEF FinishPages, sitemapVars
      <4>2. SampleTyped' /\ Recorded' /\ SitemapWasRead'
        BY <4>1 DEF SampleInv, SampleTyped, Recorded, SitemapWasRead
      <4>3. Selected'
        BY <4>1
        DEF SampleInv, Selected, FilledTo, Standing, Fine, Picked, Limit, Window, SitemapEntries
      <4>4. QED
        BY <4>2, <4>3 DEF SampleInv
    <3>2. QED
      BY <2>2, <3>1, SelectKeeps, FetchKeeps DEF SampleNext
  <2>3. QED
    BY <2>1, <2>2 DEF SamplingNext, ScanStep, Sampled, samplingVars
<1>3. QED
  BY <1>1, <1>2, SitemapInvariance, ScanReadsTheSitemap, PTL DEF SamplingSpec

\* The sample is sound for any site, any sitemap and any spelling of its
\* entries, any window and any limits: it starts with the entry page, names no
\* page twice, stays on the site, has at most max_pages pages beyond the
\* entry page, reads its window below both caps and has one record per pick.
THEOREM SampleSound == SamplingSpec => []SampleIsSound
<1>1. SampleInv => SampleIsSound
  <2> SUFFICES ASSUME SampleInv, selection # <<>> PROVE SampleIsSound
    BY DEF SampleIsSound
  <2>1. Fine(selection) /\ FilledTo(selection, Len(Window)) /\ DOMAIN Window = 1..Len(Window)
    BY DEF SampleInv, SampleTyped, Recorded, Selected, FilledTo, Standing
  <2>2. PicksAreDistinct /\ PicksStayOnSite
    BY <2>1 DEF Fine, PicksAreDistinct, PicksStayOnSite
  <2>3. WindowIsUsed
    BY <2>1 DEF FilledTo, WindowIsUsed, WindowIsRead, Picked
  <2>4. RecordsFollowPicks
    BY DEF SampleInv, SampleTyped, Recorded, RecordsFollowPicks
  <2>5. Len(selection) - 1 <= site.max_pages
    <3>1. /\ Len(selection) \in Nat /\ Len(selection) <= Limit
          /\ Limit \in Nat /\ Limit <= site.max_pages /\ site.max_pages \in Nat
      BY <2>1, SampleAssumption DEF SampleInv, SampleTyped, SiteTyped, FilledTo, Fine, Limit
    <3>2. QED
      BY <3>1
  <2>6. QED
    BY <2>1, <2>2, <2>3, <2>4, <2>5 DEF Fine, SampleIsSound
<1>2. QED
  BY <1>1, SampleInvariance, PTL
=============================================================================
