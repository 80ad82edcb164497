--------------------------- MODULE NetFetchProofs ---------------------------
(***************************************************************************)
(* Proofs about NetFetch, for any manifests, URLs, answers, connections,   *)
(* methods and limits: what a redirect keeps of a request, which addresses *)
(* the check lets pass, where requests go and what they carry.             *)
(***************************************************************************)
EXTENDS NetFetch, WellFoundedInduction, TLAPS

-----------------------------------------------------------------------------
(* Bodies and redirects.                                                   *)

AllMethods == Methods \union {"GET"}

\* The requests of a fetch, whatever origins and credentials they have.
Sent(origins, secrets) ==
    [origin : origins, method : AllMethods, body : BOOLEAN, auth : secrets, status : Nat \union Statuses]

\* The request at hand is a request, and what was sent is a sequence of them.
Shaped ==
    /\ req.method \in AllMethods /\ req.body \in BOOLEAN
    /\ \E origins, secrets : sent \in Seq(Sent(origins, secrets))

Stops(r) == r.status = 303 \/ (r.status \in {301, 302} /\ r.method # "GET")

\* The request at hand is what the last answer made of the last request; an
\* unanswered request is the one at hand.
Onward ==
    /\ pc = "idle" => sent = << >>
    /\ pc \in {"hop", "resolving"} => \A i \in DOMAIN sent :
         /\ Stops(sent[i]) => ~req.body /\ req.method = "GET"
         /\ i = Len(sent) /\ sent[i].status \in {307, 308} =>
              req.body = sent[i].body /\ req.method = sent[i].method
    /\ pc = "sent" =>
         /\ sent # << >>
         /\ sent[Len(sent)].method = req.method /\ sent[Len(sent)].body = req.body

FetchInv == Shaped /\ Onward /\ BodyFollowsStatus

LEMMA SequencesWiden ==
    ASSUME NEW S, NEW T, S \subseteq T, NEW q \in Seq(S)
    PROVE  q \in Seq(T)
OBVIOUS

LEMMA FreshFetch ==
    ASSUME sent' = << >>, req'.method \in AllMethods, req'.body \in BOOLEAN, pc' # "sent"
    PROVE  FetchInv'
<1>1. sent' \in Seq(Sent({}, {}))
  OBVIOUS
<1>2. DOMAIN sent' = {}
  OBVIOUS
<1> QED
  BY <1>1, <1>2 DEF FetchInv, Shaped, Onward, BodyFollowsStatus

LEMMA EndsFresh ==
    ASSUME Ended
    PROVE  FetchInv'
BY FreshFetch DEF Ended, NoRequest, AllMethods

LEMMA SendKeeps ==
    ASSUME FetchInv, pc \in {"hop", "resolving"}, NEW a, Send(a), UNCHANGED req
    PROVE  FetchInv'
<1> DEFINE o == OfUrl(req.url)
           s == ForOrigin(o)
           r == [origin |-> o, method |-> req.method, body |-> req.body, auth |-> s, status |-> 0]
<1>1. sent' = Append(sent, r) /\ pc' = "sent"
  BY DEF Send
<1> HIDE DEF o, s
<1>2. PICK origins, secrets : sent \in Seq(Sent(origins, secrets))
  BY DEF FetchInv, Shaped
<1>3. r \in Sent(origins \union {o}, secrets \union {s})
  BY DEF FetchInv, Shaped, Sent
<1>4. sent \in Seq(Sent(origins \union {o}, secrets \union {s}))
  <2>1. Sent(origins, secrets) \subseteq Sent(origins \union {o}, secrets \union {s})
    BY DEF Sent
  <2> QED
    BY <1>2, <2>1, SequencesWiden
<1>5. /\ Len(sent) \in Nat /\ Len(sent') = Len(sent) + 1
      /\ DOMAIN sent = 1..Len(sent) /\ DOMAIN sent' = 1..(Len(sent) + 1)
      /\ \A i \in DOMAIN sent : sent'[i] = sent[i]
      /\ sent'[Len(sent) + 1] = r
  BY <1>1, <1>3, <1>4
<1>6. sent' \in Seq(Sent(origins \union {o}, secrets \union {s}))
  BY <1>1, <1>3, <1>4
<1>7. Shaped'
  BY <1>6 DEF FetchInv, Shaped, Sent
<1>8. Onward'
  BY <1>1, <1>5 DEF Onward
<1>9. r.method = req.method /\ r.body = req.body
  OBVIOUS
<1>10. ASSUME NEW i \in DOMAIN sent', NEW j \in DOMAIN sent', i < j
       PROVE  /\ Stops(sent'[i]) => ~sent'[j].body /\ sent'[j].method = "GET"
              /\ sent'[i].status \in {307, 308} /\ j = i + 1 =>
                   sent'[j].body = sent'[i].body /\ sent'[j].method = sent'[i].method
  <2> HIDE DEF r
  <2>1. i \in DOMAIN sent /\ sent'[i] = sent[i]
    BY <1>5, <1>10
  <2>2. CASE j \in DOMAIN sent
    BY <1>5, <1>10, <2>1, <2>2 DEF FetchInv, BodyFollowsStatus, Stops
  <2>3. CASE j = Len(sent) + 1
    BY <1>5, <1>9, <1>10, <2>1, <2>3 DEF FetchInv, Onward
  <2> QED
    BY <1>5, <2>2, <2>3
<1>11. BodyFollowsStatus'
  BY <1>10 DEF BodyFollowsStatus, Stops
<1> QED
  BY <1>7, <1>8, <1>11 DEF FetchInv

LEMMA ConnectKeeps ==
    ASSUME FetchInv, pc \in {"hop", "resolving"}, NEW resolved, Connect(resolved)
    PROVE  FetchInv'
BY EndsFresh, SendKeeps DEF Connect

\* An answer is noted with the last request, and nothing else of it changes.
LEMMA AnswerNoted ==
    ASSUME FetchInv, pc = "sent", NEW status \in Nat \union Statuses, sent' = Answered(status)
    PROVE  /\ \E origins, secrets : sent' \in Seq(Sent(origins, secrets))
           /\ DOMAIN sent' = DOMAIN sent /\ Len(sent') = Len(sent) /\ Len(sent) \in DOMAIN sent
           /\ DOMAIN sent \subseteq Nat
           /\ \A i \in DOMAIN sent : i # Len(sent) => sent'[i] = sent[i]
           /\ sent'[Len(sent)].status = status
           /\ sent'[Len(sent)].method = req.method /\ sent'[Len(sent)].body = req.body
<1>1. PICK origins, secrets : sent \in Seq(Sent(origins, secrets))
  BY DEF FetchInv, Shaped
<1>2. /\ Len(sent) \in Nat /\ DOMAIN sent = 1..Len(sent) /\ Len(sent) \in DOMAIN sent
      /\ sent[Len(sent)] \in Sent(origins, secrets)
  BY <1>1 DEF FetchInv, Onward
<1> DEFINE new == [sent[Len(sent)] EXCEPT !.status = status]
<1>3. /\ new \in Sent(origins, secrets) /\ new.status = status
      /\ new.method = sent[Len(sent)].method /\ new.body = sent[Len(sent)].body
  BY <1>2 DEF Sent
<1>4. sent' = [sent EXCEPT ![Len(sent)] = new]
  BY DEF Answered
<1> HIDE DEF new
<1>5. sent' \in Seq(Sent(origins, secrets)) /\ Len(sent') = Len(sent) /\ DOMAIN sent' = DOMAIN sent
  BY <1>1, <1>2, <1>3, <1>4
<1>6. sent'[Len(sent)] = new /\ \A i \in DOMAIN sent : i # Len(sent) => sent'[i] = sent[i]
  BY <1>1, <1>2, <1>4
<1> QED
  BY <1>2, <1>3, <1>5, <1>6 DEF FetchInv, Onward

\* Of two requests the earlier one has its answer already.
LEMMA AnswerKeeps ==
    ASSUME FetchInv, pc = "sent", NEW status \in Nat \union Statuses, sent' = Answered(status)
    PROVE  BodyFollowsStatus'
<1>1. ASSUME NEW i \in DOMAIN sent', NEW j \in DOMAIN sent', i < j
      PROVE  /\ sent'[i] = sent[i] /\ i \in DOMAIN sent /\ j \in DOMAIN sent
             /\ sent'[j].method = sent[j].method /\ sent'[j].body = sent[j].body
  <2>1. PICK origins, secrets : sent \in Seq(Sent(origins, secrets))
    BY DEF FetchInv, Shaped
  <2>2. i # Len(sent)
    BY <1>1, <2>1, AnswerNoted
  <2> QED
    BY <1>1, <2>2, AnswerNoted DEF FetchInv, Onward
<1> QED
  BY <1>1 DEF FetchInv, BodyFollowsStatus

LEMMA RedirectKeeps ==
    ASSUME FetchInv, NEW status \in Statuses, NEW to \in Locations, Redirect(status, to)
    PROVE  FetchInv'
<1>1. CASE Ended
  BY <1>1, EndsFresh
<1>2. CASE /\ pc' = "hop" /\ sent' = Answered(status)
           /\ req' = [url |-> ResolveRedirect(to),
                      method |-> IF BecomesGet(status) THEN "GET" ELSE req.method,
                      body |-> req.body /\ ~BecomesGet(status)]
  <2>1. pc = "sent"
    BY DEF Redirect
  <2>2. /\ req'.method = IF BecomesGet(status) THEN "GET" ELSE req.method
        /\ req'.body = (req.body /\ ~BecomesGet(status))
    BY <1>2
  <2>3. req.method \in AllMethods /\ req.body \in BOOLEAN
    BY DEF FetchInv, Shaped
  <2>4. Shaped'
    BY <1>2, <2>1, <2>2, <2>3, AnswerNoted DEF Shaped, AllMethods
  <2>5. ASSUME NEW i \in DOMAIN sent'
        PROVE  /\ Stops(sent'[i]) => ~req'.body /\ req'.method = "GET"
               /\ i = Len(sent') /\ sent'[i].status \in {307, 308} =>
                    req'.body = sent'[i].body /\ req'.method = sent'[i].method
    <3>1. CASE i = Len(sent)
      <4>1. sent'[i].status = status /\ sent'[i].method = req.method /\ sent'[i].body = req.body
        BY <1>2, <2>1, <3>1, AnswerNoted
      <4>2. Stops(sent'[i]) <=> BecomesGet(status)
        BY <4>1 DEF Stops, BecomesGet
      <4>3. status \in {307, 308} => ~BecomesGet(status)
        BY DEF BecomesGet
      <4>4. Stops(sent'[i]) => ~req'.body /\ req'.method = "GET"
        BY <2>2, <4>2
      <4>5. ~BecomesGet(status) => req'.body = req.body /\ req'.method = req.method
        BY <2>2, <2>3
      <4>6. sent'[i].status \in {307, 308} => ~BecomesGet(status)
        BY <4>1, <4>3
      <4> QED
        BY <4>1, <4>4, <4>5, <4>6
    <3>2. CASE i # Len(sent)
      <4>1. i \in DOMAIN sent /\ sent'[i] = sent[i] /\ i < Len(sent) /\ Len(sent) \in DOMAIN sent
        <5>1. PICK origins, secrets : sent \in Seq(Sent(origins, secrets))
          BY DEF FetchInv, Shaped
        <5>2. DOMAIN sent' = DOMAIN sent /\ \A k \in DOMAIN sent : k # Len(sent) => sent'[k] = sent[k]
          BY <1>2, <2>1, AnswerNoted
        <5> QED
          BY <2>1, <2>5, <3>2, <5>1, <5>2 DEF FetchInv, Onward
      <4>2. Stops(sent[i]) => ~req.body /\ req.method = "GET"
        BY <2>1, <4>1 DEF FetchInv, BodyFollowsStatus, Stops, Onward
      <4>3. Len(sent') = Len(sent)
        BY <1>2, <2>1, AnswerNoted
      <4> QED
        BY <2>2, <2>3, <3>2, <4>1, <4>2, <4>3
    <3> QED
      BY <3>1, <3>2
  <2>6. Onward'
    BY <1>2, <2>5 DEF Onward
  <2> QED
    BY <1>2, <2>1, <2>4, <2>6, AnswerKeeps DEF FetchInv
<1> QED
  BY <1>1, <1>2 DEF Redirect

LEMMA FetchKept ==
    ASSUME FetchInv, [Next]_vars
    PROVE  FetchInv'
<1>1. ASSUME UNCHANGED <<req, sent>>,
             \/ pc' = pc
             \/ pc \in {"hop", "resolving"} /\ pc' \in {"hop", "resolving"}
      PROVE  FetchInv'
  BY <1>1 DEF FetchInv, Shaped, Onward, BodyFollowsStatus
<1>2. ASSUME NEW c \in DOMAIN Records, Enter(c) \/ Forget(c) PROVE FetchInv'
  BY <1>1, <1>2 DEF Enter, Forget, fetch
<1>3. ASSUME NEW u \in Urls, NEW m \in Methods, NEW b \in BOOLEAN, Fetch(u, m, b) PROVE FetchInv'
  <2>1. sent' = << >> /\ req'.method = m /\ req'.body = b /\ pc' = "hop"
    BY <1>3 DEF Fetch
  <2> QED
    BY <2>1, FreshFetch DEF AllMethods
<1>4. CASE Hop
  <2>1. CASE \E resolved : Connect(resolved)
    BY <1>4, <2>1, ConnectKeeps DEF Hop
  <2>2. CASE Ended
    BY <2>2, EndsFresh
  <2>3. CASE pc' = "resolving" /\ UNCHANGED <<req, sent>>
    BY <1>1, <1>4, <2>3 DEF Hop
  <2> QED
    BY <1>4, <2>1, <2>2, <2>3 DEF Hop
<1>5. ASSUME NEW answer \in Answers, Resolve(answer) PROVE FetchInv'
  BY <1>5, ConnectKeeps DEF Resolve
<1>6. ASSUME NEW s \in Statuses, NEW to \in Locations, Redirect(s, to) PROVE FetchInv'
  BY <1>6, RedirectKeeps
<1>7. CASE Respond
  <2>1. pc = "sent" /\ pc' = "reading" /\ req' = req /\ sent' = Answered(200)
    BY <1>7 DEF Respond
  <2>2. Shaped'
    BY <2>1, AnswerNoted DEF FetchInv, Shaped
  <2> QED
    BY <2>1, <2>2, AnswerKeeps DEF FetchInv, Onward
<1>8. ASSUME NEW n \in 1..2, Chunk(n) PROVE FetchInv'
  BY <1>1, <1>8, EndsFresh DEF Chunk
<1>9. CASE Finish \/ Fail
  BY <1>9, EndsFresh DEF Finish, Fail
<1>10. CASE UNCHANGED vars
  BY <1>1, <1>10 DEF vars
<1> QED
  BY <1>2, <1>3, <1>4, <1>5, <1>6, <1>7, <1>8, <1>9, <1>10 DEF Next

-----------------------------------------------------------------------------
(* Addresses.                                                              *)

LEMMA Powers ==
    /\ TwoTo[1] = 1 /\ TwoTo[2] = 2 /\ TwoTo[3] = 4 /\ TwoTo[4] = 8 /\ TwoTo[5] = 16
    /\ TwoTo[6] = 32 /\ TwoTo[7] = 64 /\ TwoTo[8] = 128 /\ TwoTo[9] = 256
    /\ TwoTo[10] = 512 /\ TwoTo[11] = 1024 /\ TwoTo[12] = 2048 /\ TwoTo[13] = 4096
    /\ TwoTo[14] = 8192 /\ TwoTo[15] = 16384 /\ TwoTo[16] = 32768 /\ TwoTo[17] = 65536
BY DEF TwoTo

\* The leading bits of two digits of a width agree.
Agree(x, y, bits, width) ==
    x \div TwoTo[1 + width - bits] = y \div TwoTo[1 + width - bits]

\* How many bits of digit i a prefix of length len takes.
Bits(len, width, i) ==
    IF len >= width * i THEN width
    ELSE IF len > width * (i - 1) THEN len - width * (i - 1)
    ELSE 0

LEMMA PrefixByDigit ==
    ASSUME NEW a, NEW n, NEW len, NEW width
    PROVE  SamePrefix(a, n, len, width)
           <=> \A i \in DOMAIN a : Agree(a[i], n[i], Bits(len, width, i), width)
BY Zenon DEF SamePrefix, Agree, Bits

LEMMA NoDigit ==
    ASSUME NEW n \in Nat \ {0}, NEW x \in Nat, x < n
    PROVE  x \div n = 0
OBVIOUS

LEMMA WholeDigit ==
    ASSUME NEW x \in Nat, NEW y \in Nat, NEW width \in {8, 16}
    PROVE  Agree(x, y, width, width) <=> x = y
<1>1. TwoTo[1 + width - width] = 1
  BY Powers
<1>2. x \div 1 = x /\ y \div 1 = y
  OBVIOUS
<1> QED
  BY <1>1, <1>2 DEF Agree

\* The leading bits of a segment are those of its two octets.
LEMMA HighOctet ==
    ASSUME NEW x \in Nat, NEW bits \in 0..8
    PROVE  (x \div 256) \div TwoTo[9 - bits] = x \div TwoTo[17 - bits]
<1>1. CASE bits = 0
  <2>1. (x \div 256) \div 256 = x \div 65536
    OBVIOUS
  <2> QED
    BY <1>1, <2>1, Powers
<1>2. CASE bits = 1
  <2>1. (x \div 256) \div 128 = x \div 32768
    OBVIOUS
  <2> QED
    BY <1>2, <2>1, Powers
<1>3. CASE bits = 2
  <2>1. (x \div 256) \div 64 = x \div 16384
    OBVIOUS
  <2> QED
    BY <1>3, <2>1, Powers
<1>4. CASE bits = 3
  <2>1. (x \div 256) \div 32 = x \div 8192
    OBVIOUS
  <2> QED
    BY <1>4, <2>1, Powers
<1>5. CASE bits = 4
  <2>1. (x \div 256) \div 16 = x \div 4096
    OBVIOUS
  <2> QED
    BY <1>5, <2>1, Powers
<1>6. CASE bits = 5
  <2>1. (x \div 256) \div 8 = x \div 2048
    OBVIOUS
  <2> QED
    BY <1>6, <2>1, Powers
<1>7. CASE bits = 6
  <2>1. (x \div 256) \div 4 = x \div 1024
    OBVIOUS
  <2> QED
    BY <1>7, <2>1, Powers
<1>8. CASE bits = 7
  <2>1. (x \div 256) \div 2 = x \div 512
    OBVIOUS
  <2> QED
    BY <1>8, <2>1, Powers
<1>9. CASE bits = 8
  <2>1. (x \div 256) \div 1 = x \div 256
    OBVIOUS
  <2> QED
    BY <1>9, <2>1, Powers
<1> QED
  BY <1>1, <1>2, <1>3, <1>4, <1>5, <1>6, <1>7, <1>8, <1>9

LEMMA LowOctet ==
    ASSUME NEW x \in Nat, NEW bits \in 9..16
    PROVE  /\ (x \div TwoTo[17 - bits]) \div TwoTo[bits - 7] = x \div 256
           /\ (x % 256) \div TwoTo[17 - bits] = (x \div TwoTo[17 - bits]) % TwoTo[bits - 7]
<1>1. CASE bits = 9
  <2>1. (x \div 128) \div 2 = x \div 256
    OBVIOUS
  <2>2. (x % 256) \div 128 = (x \div 128) % 2
    OBVIOUS
  <2> QED
    BY <1>1, <2>1, <2>2, Powers
<1>2. CASE bits = 10
  <2>1. (x \div 64) \div 4 = x \div 256
    OBVIOUS
  <2>2. (x % 256) \div 64 = (x \div 64) % 4
    OBVIOUS
  <2> QED
    BY <1>2, <2>1, <2>2, Powers
<1>3. CASE bits = 11
  <2>1. (x \div 32) \div 8 = x \div 256
    OBVIOUS
  <2>2. (x % 256) \div 32 = (x \div 32) % 8
    OBVIOUS
  <2> QED
    BY <1>3, <2>1, <2>2, Powers
<1>4. CASE bits = 12
  <2>1. (x \div 16) \div 16 = x \div 256
    OBVIOUS
  <2>2. (x % 256) \div 16 = (x \div 16) % 16
    OBVIOUS
  <2> QED
    BY <1>4, <2>1, <2>2, Powers
<1>5. CASE bits = 13
  <2>1. (x \div 8) \div 32 = x \div 256
    OBVIOUS
  <2>2. (x % 256) \div 8 = (x \div 8) % 32
    OBVIOUS
  <2> QED
    BY <1>5, <2>1, <2>2, Powers
<1>6. CASE bits = 14
  <2>1. (x \div 4) \div 64 = x \div 256
    OBVIOUS
  <2>2. (x % 256) \div 4 = (x \div 4) % 64
    OBVIOUS
  <2> QED
    BY <1>6, <2>1, <2>2, Powers
<1>7. CASE bits = 15
  <2>1. (x \div 2) \div 128 = x \div 256
    OBVIOUS
  <2>2. (x % 256) \div 2 = (x \div 2) % 128
    OBVIOUS
  <2> QED
    BY <1>7, <2>1, <2>2, Powers
<1>8. CASE bits = 16
  <2>1. (x \div 1) \div 256 = x \div 256
    OBVIOUS
  <2>2. (x % 256) \div 1 = (x \div 1) % 256
    OBVIOUS
  <2> QED
    BY <1>8, <2>1, <2>2, Powers
<1> QED
  BY <1>1, <1>2, <1>3, <1>4, <1>5, <1>6, <1>7, <1>8

LEMMA Octets ==
    ASSUME NEW x \in Nat, NEW y \in Nat, NEW bits \in 0..16, Agree(x, y, bits, 16)
    PROVE  /\ Agree(x \div 256, y \div 256, Bits(bits, 8, 1), 8)
           /\ Agree(x % 256, y % 256, Bits(bits, 8, 2), 8)
<1>1. x \div TwoTo[17 - bits] = y \div TwoTo[17 - bits]
  BY DEF Agree
<1>2. CASE bits <= 8
  <2>1. Bits(bits, 8, 1) = bits /\ Bits(bits, 8, 2) = 0
    BY <1>2 DEF Bits
  <2>2. Agree(x \div 256, y \div 256, bits, 8)
    BY <1>1, <1>2, HighOctet DEF Agree
  <2>3. (x % 256) \div 256 = 0 /\ (y % 256) \div 256 = 0
    OBVIOUS
  <2>4. Agree(x % 256, y % 256, 0, 8)
    BY <2>3, Powers DEF Agree
  <2> QED
    BY <2>1, <2>2, <2>4
<1>3. CASE bits > 8
  <2>1. Bits(bits, 8, 1) = 8 /\ Bits(bits, 8, 2) = bits - 8
    BY <1>3 DEF Bits
  <2>2. x \div 256 = y \div 256
    BY <1>1, <1>3, LowOctet
  <2>3. (x % 256) \div TwoTo[17 - bits] = (y % 256) \div TwoTo[17 - bits]
    BY <1>1, <1>3, LowOctet
  <2> QED
    BY <2>1, <2>2, <2>3 DEF Agree
<1> QED
  BY <1>2, <1>3

LEMMA BitsOfHalves ==
    ASSUME NEW len \in 0..32
    PROVE  /\ Bits(len, 16, 1) \in 0..16 /\ Bits(len, 16, 2) \in 0..16
           /\ Bits(Bits(len, 16, 1), 8, 1) = Bits(len, 8, 1)
           /\ Bits(Bits(len, 16, 1), 8, 2) = Bits(len, 8, 2)
           /\ Bits(Bits(len, 16, 2), 8, 1) = Bits(len, 8, 3)
           /\ Bits(Bits(len, 16, 2), 8, 2) = Bits(len, 8, 4)
           /\ \A at \in {2, 7} : /\ Bits(16 * (at - 1) + len, 16, at) = Bits(len, 16, 1)
                               /\ Bits(16 * (at - 1) + len, 16, at + 1) = Bits(len, 16, 2)
                               /\ \A i \in 1..(at - 1) : Bits(16 * (at - 1) + len, 16, i) = 16
BY DEF Bits

LEMMA Word ==
    ASSUME NEW n \in V4, NEW i \in 1..3, NEW w, w = n[i] * 256 + n[i + 1]
    PROVE  w \in Nat /\ w \div 256 = n[i] /\ w % 256 = n[i + 1]
<1>0. n[i] \in 0..255 /\ n[i + 1] \in 0..255
  BY DEF V4
<1>1. PICK h \in 0..255, l \in 0..255 : h = n[i] /\ l = n[i + 1]
  BY <1>0
<1>2. w = h * 256 + l
  BY <1>1
<1>3. h * 256 + l \in Nat
  OBVIOUS
<1>4. (h * 256 + l) \div 256 = h
  OBVIOUS
<1>5. (h * 256 + l) % 256 = l
  OBVIOUS
<1> QED
  BY <1>1, <1>2, <1>3, <1>4, <1>5

LEMMA PairIsV4 ==
    ASSUME NEW hi \in Nat, NEW lo \in Nat, hi < 65536, lo < 65536
    PROVE  FromPair(hi, lo) \in V4
<1> DEFINE a == hi \div 256
           b == hi % 256
           c == lo \div 256
           d == lo % 256
<1>1. a \in 0..255 /\ b \in 0..255 /\ c \in 0..255 /\ d \in 0..255
  OBVIOUS
<1> HIDE DEF a, b, c, d
<1>2. <<a, b, c, d>> \in V4
  BY <1>1 DEF V4
<1> QED
  BY <1>2 DEF FromPair, a, b, c, d

LEMMA PairPrefix ==
    ASSUME NEW hi \in Nat, NEW lo \in Nat, NEW n \in V4, NEW len \in 0..32,
           NEW front \in Nat, front \div 256 = n[1], front % 256 = n[2],
           NEW back \in Nat, back \div 256 = n[3], back % 256 = n[4],
           Agree(hi, front, Bits(len, 16, 1), 16), Agree(lo, back, Bits(len, 16, 2), 16)
    PROVE  SamePrefix(FromPair(hi, lo), n, len, 8)
<1>4. Bits(len, 16, 1) \in 0..16 /\ Bits(len, 16, 2) \in 0..16
  BY BitsOfHalves
<1>5. /\ Agree(hi \div 256, n[1], Bits(len, 8, 1), 8)
      /\ Agree(hi % 256, n[2], Bits(len, 8, 2), 8)
  <2>1. Agree(hi, front, Bits(len, 16, 1), 16)
    OBVIOUS
  <2>2. /\ Agree(hi \div 256, front \div 256, Bits(Bits(len, 16, 1), 8, 1), 8)
        /\ Agree(hi % 256, front % 256, Bits(Bits(len, 16, 1), 8, 2), 8)
    BY <1>4, <2>1, Octets
  <2>3. /\ Bits(Bits(len, 16, 1), 8, 1) = Bits(len, 8, 1)
        /\ Bits(Bits(len, 16, 1), 8, 2) = Bits(len, 8, 2)
    BY BitsOfHalves
  <2> QED
    BY <2>2, <2>3
<1>6. /\ Agree(lo \div 256, n[3], Bits(len, 8, 3), 8)
      /\ Agree(lo % 256, n[4], Bits(len, 8, 4), 8)
  <2>1. Agree(lo, back, Bits(len, 16, 2), 16)
    OBVIOUS
  <2>2. /\ Agree(lo \div 256, back \div 256, Bits(Bits(len, 16, 2), 8, 1), 8)
        /\ Agree(lo % 256, back % 256, Bits(Bits(len, 16, 2), 8, 2), 8)
    BY <1>4, <2>1, Octets
  <2>3. /\ Bits(Bits(len, 16, 2), 8, 1) = Bits(len, 8, 3)
        /\ Bits(Bits(len, 16, 2), 8, 2) = Bits(len, 8, 4)
    BY BitsOfHalves
  <2> QED
    BY <2>2, <2>3
<1> DEFINE a == FromPair(hi, lo)
<1>7. DOMAIN a = 1..4
  BY DEF FromPair
<1>8. a[1] = hi \div 256 /\ a[2] = hi % 256 /\ a[3] = lo \div 256 /\ a[4] = lo % 256
  BY DEF FromPair
<1> HIDE DEF a
<1>9. \A i \in DOMAIN a : Agree(a[i], n[i], Bits(len, 8, i), 8)
  BY <1>5, <1>6, <1>7, <1>8
<1> QED
  BY <1>9, PrefixByDigit DEF a

LEMMA ReservedIsClassified ==
    ASSUME NEW a \in V4, NEW b \in ReservedV4, SamePrefix(a, b[1], b[2], 8)
    PROVE  ClassifyV4(a)
<1>2. a[1] \in Nat /\ a[1] < 256 /\ a[2] \in Nat /\ DOMAIN a = 1..4
  BY DEF V4
<1>3. CASE b = <<<<10, 0, 0, 0>>, 8>>
  <2>1. Agree(a[1], 10, 8, 8)
    BY <1>2, <1>3, PrefixByDigit DEF Bits
  <2> QED
    BY <1>2, <2>1, WholeDigit DEF ClassifyV4
<1>4. CASE b = <<<<127, 0, 0, 0>>, 8>>
  <2>1. Agree(a[1], 127, 8, 8)
    BY <1>2, <1>4, PrefixByDigit DEF Bits
  <2> QED
    BY <1>2, <2>1, WholeDigit DEF ClassifyV4
<1>5. CASE b = <<<<192, 168, 0, 0>>, 16>>
  <2>1. Agree(a[1], 192, 8, 8) /\ Agree(a[2], 168, 8, 8)
    BY <1>2, <1>5, PrefixByDigit DEF Bits
  <2> QED
    BY <1>2, <2>1, WholeDigit DEF ClassifyV4
<1>6. CASE b = <<<<224, 0, 0, 0>>, 3>>
  <2>1. Agree(a[1], 224, 3, 8)
    BY <1>2, <1>6, PrefixByDigit DEF Bits
  <2>2. a[1] \div 32 = 7
    BY <2>1, Powers DEF Agree
  <2>3. a[1] \in 224..239 \/ a[1] \div 16 = 15
    BY <1>2, <2>2
  <2>4. ASSUME a[1] \div 16 = 15 PROVE InNet(a, <<240, 0, 0, 0>>, 4)
    <3>1. Agree(a[1], 240, 4, 8)
      BY <2>4, Powers DEF Agree
    <3>2. ASSUME NEW i \in 2..4 PROVE Agree(a[i], <<240, 0, 0, 0>>[i], 0, 8)
      <4>1. a[i] \in Nat /\ a[i] < 256 /\ <<240, 0, 0, 0>>[i] = 0
        BY DEF V4
      <4>2. a[i] \div 256 = 0 /\ 0 \div 256 = 0
        BY <4>1, NoDigit
      <4> QED
        BY <4>1, <4>2, Powers DEF Agree
    <3>3. Bits(4, 8, 1) = 4 /\ \A i \in 2..4 : Bits(4, 8, i) = 0
      BY DEF Bits
    <3>4. \A i \in 1..4 : Agree(a[i], <<240, 0, 0, 0>>[i], Bits(4, 8, i), 8)
      BY <3>1, <3>2, <3>3
    <3> QED
      BY <1>2, <3>4, PrefixByDigit DEF InNet
  <2> QED
    BY <2>3, <2>4 DEF ClassifyV4
<1>7. CASE b \notin {<<<<10, 0, 0, 0>>, 8>>, <<<<127, 0, 0, 0>>, 8>>,
                     <<<<192, 168, 0, 0>>, 16>>, <<<<224, 0, 0, 0>>, 3>>}
  <2>1. CASE b = <<<<0, 0, 0, 0>>, 8>>
    BY <2>1 DEF ClassifyV4, InNet
  <2>2. CASE b = <<<<172, 16, 0, 0>>, 12>>
    BY <2>2 DEF ClassifyV4, InNet
  <2>3. CASE b = <<<<100, 64, 0, 0>>, 10>>
    BY <2>3 DEF ClassifyV4, InNet
  <2>4. CASE b = <<<<169, 254, 0, 0>>, 16>>
    BY <2>4 DEF ClassifyV4, InNet
  <2>5. CASE b = <<<<192, 0, 0, 0>>, 24>>
    BY <2>5 DEF ClassifyV4, InNet
  <2>6. CASE b = <<<<192, 88, 99, 0>>, 24>>
    BY <2>6 DEF ClassifyV4, InNet
  <2>7. CASE b = <<<<198, 18, 0, 0>>, 15>>
    BY <2>7 DEF ClassifyV4, InNet
  <2>8. CASE b \in {<<<<192, 0, 2, 0>>, 24>>, <<<<198, 51, 100, 0>>, 24>>,
                  <<<<203, 0, 113, 0>>, 24>>}
    BY <2>8 DEF ClassifyV4, InNet
  <2> QED
    BY <1>7, <2>1, <2>2, <2>3, <2>4, <2>5, <2>6, <2>7, <2>8, SMT DEF ReservedV4
<1> QED
  BY <1>3, <1>4, <1>5, <1>6, <1>7

LEMMA Segments ==
    ASSUME NEW s \in V6
    PROVE  DOMAIN s = 1..8 /\ \A i \in 1..8 : s[i] \in Nat /\ s[i] < 65536
BY DEF V6

LEMMA BlocksAreV4 ==
    ASSUME NEW b \in ReservedV4
    PROVE  b[1] \in V4 /\ b[2] \in 0..32
<1>1. CASE b \in { <<<<0, 0, 0, 0>>, 8>>, <<<<10, 0, 0, 0>>, 8>>, <<<<100, 64, 0, 0>>, 10>>,
                  <<<<127, 0, 0, 0>>, 8>>, <<<<169, 254, 0, 0>>, 16>> }
  <2>1. CASE b = <<<<0, 0, 0, 0>>, 8>>
    BY <2>1 DEF V4
  <2>2. CASE b = <<<<10, 0, 0, 0>>, 8>>
    BY <2>2 DEF V4
  <2>3. CASE b = <<<<100, 64, 0, 0>>, 10>>
    BY <2>3 DEF V4
  <2>4. CASE b = <<<<127, 0, 0, 0>>, 8>>
    BY <2>4 DEF V4
  <2>5. CASE b = <<<<169, 254, 0, 0>>, 16>>
    BY <2>5 DEF V4
  <2> QED
    BY <1>1, <2>1, <2>2, <2>3, <2>4, <2>5, Zenon
<1>2. CASE b \in { <<<<172, 16, 0, 0>>, 12>>, <<<<192, 0, 0, 0>>, 24>>, <<<<192, 0, 2, 0>>, 24>>,
                  <<<<192, 88, 99, 0>>, 24>>, <<<<192, 168, 0, 0>>, 16>> }
  <2>1. CASE b = <<<<172, 16, 0, 0>>, 12>>
    BY <2>1 DEF V4
  <2>2. CASE b = <<<<192, 0, 0, 0>>, 24>>
    BY <2>2 DEF V4
  <2>3. CASE b = <<<<192, 0, 2, 0>>, 24>>
    BY <2>3 DEF V4
  <2>4. CASE b = <<<<192, 88, 99, 0>>, 24>>
    BY <2>4 DEF V4
  <2>5. CASE b = <<<<192, 168, 0, 0>>, 16>>
    BY <2>5 DEF V4
  <2> QED
    BY <1>2, <2>1, <2>2, <2>3, <2>4, <2>5, Zenon
<1>3. CASE b \in { <<<<198, 18, 0, 0>>, 15>>, <<<<198, 51, 100, 0>>, 24>>, <<<<203, 0, 113, 0>>, 24>>,
                  <<<<224, 0, 0, 0>>, 3>> }
  <2>1. CASE b = <<<<198, 18, 0, 0>>, 15>>
    BY <2>1 DEF V4
  <2>2. CASE b = <<<<198, 51, 100, 0>>, 24>>
    BY <2>2 DEF V4
  <2>3. CASE b = <<<<203, 0, 113, 0>>, 24>>
    BY <2>3 DEF V4
  <2>4. CASE b = <<<<224, 0, 0, 0>>, 3>>
    BY <2>4 DEF V4
  <2> QED
    BY <1>3, <2>1, <2>2, <2>3, <2>4, Zenon
<1> QED
  BY <1>1, <1>2, <1>3 DEF ReservedV4

\* The two halves of a block, as segments.
LEMMA BlockWords ==
    ASSUME NEW b \in ReservedV4, NEW n, n = b[1],
           NEW front, front = n[1] * 256 + n[2], NEW back, back = n[3] * 256 + n[4]
    PROVE  /\ n \in V4 /\ b[2] \in 0..32
           /\ front \in Nat /\ front \div 256 = n[1] /\ front % 256 = n[2]
           /\ back \in Nat /\ back \div 256 = n[3] /\ back % 256 = n[4]
<1>1. n \in V4 /\ b[2] \in 0..32
  BY BlocksAreV4
<1>2. front \in Nat /\ front \div 256 = n[1] /\ front % 256 = n[2]
  <2>1. 1 \in 1..3 /\ front = n[1] * 256 + n[1 + 1]
    OBVIOUS
  <2>2. front \in Nat /\ front \div 256 = n[1] /\ front % 256 = n[1 + 1]
    BY <1>1, <2>1, Word
  <2> QED
    BY <2>2
<1>3. back \in Nat /\ back \div 256 = n[3] /\ back % 256 = n[4]
  <2>1. 3 \in 1..3 /\ back = n[3] * 256 + n[3 + 1]
    OBVIOUS
  <2>2. back \in Nat /\ back \div 256 = n[3] /\ back % 256 = n[3 + 1]
    BY <1>1, <2>1, Word
  <2> QED
    BY <2>2
<1> QED
  BY <1>1, <1>2, <1>3

\* An address that agrees with a carried block has the carrier before an IPv4
\* address of the block.
LEMMA CarriedPrefix ==
    ASSUME NEW s \in V6, NEW head, NEW at \in {2, 7}, NEW b \in ReservedV4,
           SamePrefix(s, Carried(<<head, at>>, b)[1], Carried(<<head, at>>, b)[2], 16)
    PROVE  /\ \A i \in 1..(at - 1) : head[i] \in Nat => s[i] = head[i]
           /\ ClassifyV4(FromPair(s[at], s[at + 1]))
<1> DEFINE n == b[1]
           len == b[2]
           front == n[1] * 256 + n[2]
           back == n[3] * 256 + n[4]
           total == 16 * (at - 1) + len
           c == [i \in 1..8 |-> CASE i < at -> head[i]
                                  [] i = at -> front
                                  [] i = at + 1 -> back
                                  [] OTHER -> 0]
<1>1. n = b[1] /\ front = n[1] * 256 + n[2] /\ back = n[3] * 256 + n[4] /\ b[2] = len
  OBVIOUS
<1>2. SamePrefix(s, c, total, 16)
  BY DEF Carried
<1> HIDE DEF n, len, front, back
<1>3. /\ n \in V4 /\ len \in 0..32
      /\ front \in Nat /\ front \div 256 = n[1] /\ front % 256 = n[2]
      /\ back \in Nat /\ back \div 256 = n[3] /\ back % 256 = n[4]
  BY <1>1, BlockWords
<1>4. c[at] = front /\ c[at + 1] = back /\ \A i \in 1..(at - 1) : c[i] = head[i]
  OBVIOUS
<1> HIDE DEF c
<1>5. \A i \in 1..8 : Agree(s[i], c[i], Bits(total, 16, i), 16)
  BY <1>2, PrefixByDigit, Segments
<1>6. /\ Bits(total, 16, at) = Bits(len, 16, 1) /\ Bits(total, 16, at + 1) = Bits(len, 16, 2)
      /\ \A i \in 1..(at - 1) : Bits(total, 16, i) = 16
  BY <1>3, BitsOfHalves
<1> HIDE DEF total
<1>7. ASSUME NEW i \in 1..(at - 1), head[i] \in Nat PROVE s[i] = head[i]
  <2>1. i \in 1..8 /\ c[i] = head[i] /\ Bits(total, 16, i) = 16
    BY <1>4, <1>6
  <2>2. Agree(s[i], head[i], 16, 16)
    BY <1>5, <2>1
  <2>3. s[i] \in Nat
    BY <2>1, Segments
  <2> QED
    BY <1>7, <2>2, <2>3, WholeDigit
<1>8. ClassifyV4(FromPair(s[at], s[at + 1]))
  <2>1. at \in 1..8 /\ at + 1 \in 1..8
    OBVIOUS
  <2>2. /\ Agree(s[at], front, Bits(len, 16, 1), 16)
        /\ Agree(s[at + 1], back, Bits(len, 16, 2), 16)
    BY <1>4, <1>5, <1>6, <2>1
  <2>3. /\ s[at] \in Nat /\ s[at] < 65536
        /\ s[at + 1] \in Nat /\ s[at + 1] < 65536
    BY <2>1, Segments
  <2>4. SamePrefix(FromPair(s[at], s[at + 1]), n, len, 8)
    <3> DEFINE hi == s[at]
               lo == s[at + 1]
    <3>1. /\ hi \in Nat /\ Agree(hi, front, Bits(len, 16, 1), 16)
          /\ lo \in Nat /\ Agree(lo, back, Bits(len, 16, 2), 16)
      BY <2>2, <2>3
    <3> HIDE DEF hi, lo
    <3>2. SamePrefix(FromPair(hi, lo), n, len, 8)
      BY <1>3, <3>1, PairPrefix
    <3> QED
      BY <3>2 DEF hi, lo
  <2>5. FromPair(s[at], s[at + 1]) \in V4
    BY <2>3, PairIsV4
  <2> QED
    BY <1>1, <2>4, <2>5, ReservedIsClassified
<1> QED
  BY <1>7, <1>8

LEMMA NotEmbedded ==
    ASSUME NEW s, s[1] \notin {\h64, \h2002}, Zero(s, 1..5) => Zero(s, 6..7) /\ s[8] <= 1
    PROVE  EmbeddedV4(s) = NoAddress
<1>1. ~(Zero(s, 1..5) /\ s[6] = \hFFFF)
  BY DEF Zero
<1>2. ~(Zero(s, 1..6) /\ ~(s[7] = 0 /\ s[8] <= 1))
  BY DEF Zero
<1> QED
  BY <1>1, <1>2 DEF EmbeddedV4

LEMMA CarriedIsClassified ==
    ASSUME NEW s \in V6, NEW c \in Carriers, NEW b \in ReservedV4,
           SamePrefix(s, Carried(c, b)[1], Carried(c, b)[2], 16)
    PROVE  ClassifyV6(s)
<1>0. \A hi, lo : FromPair(hi, lo) # NoAddress
  BY DEF FromPair, NoAddress
<1>1. CASE c = <<<<0, 0, 0, 0, 0, \hFFFF>>, 7>>
  <2> DEFINE head == <<0, 0, 0, 0, 0, \hFFFF>>
  <2>1. /\ \A i \in 1..6 : head[i] \in Nat => s[i] = head[i]
        /\ ClassifyV4(FromPair(s[7], s[8]))
    <3>1. SamePrefix(s, Carried(<<head, 7>>, b)[1], Carried(<<head, 7>>, b)[2], 16)
      BY <1>1
    <3> HIDE DEF head
    <3>2. /\ \A i \in 1..(7 - 1) : head[i] \in Nat => s[i] = head[i]
          /\ ClassifyV4(FromPair(s[7], s[7 + 1]))
      BY <3>1, CarriedPrefix
    <3> QED
      BY <3>2
  <2>2. Zero(s, 1..5) /\ s[6] = \hFFFF
    BY <2>1 DEF Zero
  <2>3. EmbeddedV4(s) = FromPair(s[7], s[8])
    BY <2>2 DEF EmbeddedV4, Zero
  <2> QED
    BY <1>0, <2>1, <2>3 DEF ClassifyV6
<1>2. CASE c = <<<<0, 0, 0, 0, 0, 0>>, 7>>
  <2> DEFINE head == <<0, 0, 0, 0, 0, 0>>
  <2>1. /\ \A i \in 1..6 : head[i] \in Nat => s[i] = head[i]
        /\ ClassifyV4(FromPair(s[7], s[8]))
    <3>1. SamePrefix(s, Carried(<<head, 7>>, b)[1], Carried(<<head, 7>>, b)[2], 16)
      BY <1>2
    <3> HIDE DEF head
    <3>2. /\ \A i \in 1..(7 - 1) : head[i] \in Nat => s[i] = head[i]
          /\ ClassifyV4(FromPair(s[7], s[7 + 1]))
      BY <3>1, CarriedPrefix
    <3> QED
      BY <3>2
  <2>2. Zero(s, 1..6)
    BY <2>1 DEF Zero
  <2>3. CASE s[7] = 0 /\ s[8] <= 1
    <3>1. EmbeddedV4(s) = NoAddress
      BY <2>2, <2>3, NotEmbedded DEF Zero
    <3>2. Zero(s, 1..7)
      BY <2>2, <2>3 DEF Zero
    <3> QED
      BY <2>3, <3>1, <3>2 DEF ClassifyV6
  <2>4. CASE ~(s[7] = 0 /\ s[8] <= 1)
    <3>1. EmbeddedV4(s) = FromPair(s[7], s[8])
      BY <2>2, <2>4 DEF EmbeddedV4, Zero
    <3> QED
      BY <1>0, <2>1, <3>1 DEF ClassifyV6
  <2> QED
    BY <2>3, <2>4
<1>3. CASE c = <<<<\h64, \hFF9B, 0, 0, 0, 0>>, 7>>
  <2> DEFINE head == <<\h64, \hFF9B, 0, 0, 0, 0>>
  <2>1. /\ \A i \in 1..6 : head[i] \in Nat => s[i] = head[i]
        /\ ClassifyV4(FromPair(s[7], s[8]))
    <3>1. SamePrefix(s, Carried(<<head, 7>>, b)[1], Carried(<<head, 7>>, b)[2], 16)
      BY <1>3
    <3> HIDE DEF head
    <3>2. /\ \A i \in 1..(7 - 1) : head[i] \in Nat => s[i] = head[i]
          /\ ClassifyV4(FromPair(s[7], s[7 + 1]))
      BY <3>1, CarriedPrefix
    <3> QED
      BY <3>2
  <2>2. s[1] = \h64 /\ s[2] = \hFF9B
    BY <2>1
  <2>3. EmbeddedV4(s) = FromPair(s[7], s[8])
    BY <2>2 DEF EmbeddedV4, Zero
  <2> QED
    BY <1>0, <2>1, <2>3 DEF ClassifyV6
<1>4. CASE c = <<<<\h2002>>, 2>>
  <2> DEFINE head == <<\h2002>>
  <2>1. /\ \A i \in 1..1 : head[i] \in Nat => s[i] = head[i]
        /\ ClassifyV4(FromPair(s[2], s[3]))
    <3>1. SamePrefix(s, Carried(<<head, 2>>, b)[1], Carried(<<head, 2>>, b)[2], 16)
      BY <1>4
    <3> HIDE DEF head
    <3>2. /\ \A i \in 1..(2 - 1) : head[i] \in Nat => s[i] = head[i]
          /\ ClassifyV4(FromPair(s[2], s[2 + 1]))
      BY <3>1, CarriedPrefix
    <3> QED
      BY <3>2
  <2>2. s[1] = \h2002
    BY <2>1
  <2>3. EmbeddedV4(s) = FromPair(s[2], s[3])
    BY <2>2 DEF EmbeddedV4, Zero
  <2> QED
    BY <1>0, <2>1, <2>3 DEF ClassifyV6
<1> QED
  BY <1>1, <1>2, <1>3, <1>4 DEF Carriers

LEMMA BlockIsClassified ==
    ASSUME NEW s \in V6, NEW b \in ReservedV6, SamePrefix(s, b[1], b[2], 16)
    PROVE  ClassifyV6(s)
<1>1. DOMAIN s = 1..8 /\ \A i \in 1..8 : s[i] \in Nat /\ s[i] < 65536
  BY Segments
<1>2. \A i \in 1..8 : Agree(s[i], b[1][i], Bits(b[2], 16, i), 16)
  BY <1>1, PrefixByDigit
<1>3. CASE b = <<<<0, 0, 0, 0, 0, 0, 0, 0>>, 127>>
  <2>1. ASSUME NEW i \in 1..7 PROVE s[i] = 0
    <3>1. Agree(s[i], 0, 16, 16)
      BY <1>2, <1>3 DEF Bits
    <3> QED
      BY <1>1, <3>1, WholeDigit
  <2>2. s[8] <= 1
    <3>1. Agree(s[8], 0, 15, 16)
      BY <1>2, <1>3 DEF Bits
    <3>2. s[8] \div 2 = 0
      BY <3>1, Powers DEF Agree
    <3> QED
      BY <1>1, <3>2
  <2>3. EmbeddedV4(s) = NoAddress
    BY <2>1, <2>2, NotEmbedded DEF Zero
  <2> QED
    BY <2>1, <2>2, <2>3 DEF ClassifyV6, Zero
<1>4. CASE b = <<<<\h100, 0, 0, 0, 0, 0, 0, 0>>, 64>>
  <2>1. s[1] = \h100
    <3>1. Agree(s[1], \h100, 16, 16)
      BY <1>2, <1>4 DEF Bits
    <3> QED
      BY <1>1, <3>1, WholeDigit
  <2>2. ASSUME NEW i \in 2..4 PROVE s[i] = 0
    <3>1. Agree(s[i], 0, 16, 16)
      BY <1>2, <1>4 DEF Bits
    <3> QED
      BY <1>1, <3>1, WholeDigit
  <2>3. EmbeddedV4(s) = NoAddress
    BY <2>1, NotEmbedded DEF Zero
  <2> QED
    BY <2>1, <2>2, <2>3 DEF ClassifyV6, Zero
<1>5. CASE b = <<<<\h2001, 0, 0, 0, 0, 0, 0, 0>>, 23>>
  <2>1. s[1] = \h2001
    <3>1. Agree(s[1], \h2001, 16, 16)
      BY <1>2, <1>5 DEF Bits
    <3> QED
      BY <1>1, <3>1, WholeDigit
  <2>2. s[2] \div 512 = 0
    <3>1. Agree(s[2], 0, 7, 16)
      BY <1>2, <1>5 DEF Bits
    <3> QED
      BY <3>1, Powers DEF Agree
  <2>3. s[2] \in 0..\h1FF
    BY <1>1, <2>2
  <2>4. EmbeddedV4(s) = NoAddress
    BY <2>1, NotEmbedded DEF Zero
  <2> QED
    BY <2>1, <2>3, <2>4 DEF ClassifyV6
<1>6. CASE b = <<<<\h2001, \hDB8, 0, 0, 0, 0, 0, 0>>, 32>>
  <2>1. s[1] = \h2001
    <3>1. Agree(s[1], \h2001, 16, 16)
      BY <1>2, <1>6 DEF Bits
    <3> QED
      BY <1>1, <3>1, WholeDigit
  <2>2. s[2] = \hDB8
    <3>1. Agree(s[2], \hDB8, 16, 16)
      BY <1>2, <1>6 DEF Bits
    <3> QED
      BY <1>1, <3>1, WholeDigit
  <2>3. EmbeddedV4(s) = NoAddress
    BY <2>1, NotEmbedded DEF Zero
  <2> QED
    BY <2>1, <2>2, <2>3 DEF ClassifyV6
<1>7. CASE b = <<<<\hFC00, 0, 0, 0, 0, 0, 0, 0>>, 7>>
  <2>1. s[1] \div 512 = 126
    <3>1. Agree(s[1], \hFC00, 7, 16)
      BY <1>2, <1>7 DEF Bits
    <3> QED
      BY <3>1, Powers DEF Agree
  <2>2. s[1] \in \hFC00..\hFDFF
    BY <1>1, <2>1
  <2>3. EmbeddedV4(s) = NoAddress
    BY <2>2, NotEmbedded DEF Zero
  <2> QED
    BY <2>2, <2>3 DEF ClassifyV6
<1>8. CASE b = <<<<\hFE80, 0, 0, 0, 0, 0, 0, 0>>, 10>>
  <2>1. s[1] \div 64 = 1018
    <3>1. Agree(s[1], \hFE80, 10, 16)
      BY <1>2, <1>8 DEF Bits
    <3> QED
      BY <3>1, Powers DEF Agree
  <2>2. s[1] \in \hFE80..\hFEBF
    BY <1>1, <2>1
  <2>3. EmbeddedV4(s) = NoAddress
    BY <2>2, NotEmbedded DEF Zero
  <2> QED
    BY <2>2, <2>3 DEF ClassifyV6
<1>9. CASE b = <<<<\hFF00, 0, 0, 0, 0, 0, 0, 0>>, 8>>
  <2>1. s[1] \div 256 = 255
    <3>1. Agree(s[1], \hFF00, 8, 16)
      BY <1>2, <1>9 DEF Bits
    <3> QED
      BY <3>1, Powers DEF Agree
  <2>2. s[1] \in \hFF00..\hFFFF
    BY <1>1, <2>1
  <2>3. EmbeddedV4(s) = NoAddress
    BY <2>2, NotEmbedded DEF Zero
  <2> QED
    BY <2>2, <2>3 DEF ClassifyV6
<1> QED
  BY <1>3, <1>4, <1>5, <1>6, <1>7, <1>8, <1>9 DEF ReservedV6

\* No special-purpose address passes the check, in whatever form it comes.
LEMMA ReservedNotUsable ==
    ASSUME NEW a \in V4 \cup V6, Reserved(a)
    PROVE  Classify(a)
<1>1. CASE a \in V4
  <2>1. Len(a) = 4
    BY <1>1 DEF V4
  <2> QED
    BY <1>1, <2>1, ReservedIsClassified DEF Reserved, Classify
<1>2. CASE a \in V6
  <2>1. Len(a) # 4
    BY <1>2 DEF V6
  <2> QED
    BY <1>2, <2>1, BlockIsClassified, CarriedIsClassified DEF Reserved, Classify
<1> QED
  BY <1>1, <1>2

-----------------------------------------------------------------------------
(* Where requests go and what they carry.                                  *)

\* Every request, and every lookup, is for a declared origin; what is pinned
\* has passed the check.
Granted ==
    /\ asked \subseteq DeclaredOrigins
    /\ \A i \in DOMAIN sent : sent[i].origin \in DeclaredOrigins
    /\ pc = "resolving" => OfUrl(req.url) \in DeclaredOrigins
    /\ pinned # NoAddress => ~Reserved(pinned)

\* What the fetch gathered is what the connections held when it began, for the
\* origins they cover, and so is what it has sent.
Home ==
    /\ DOMAIN creds \subseteq DOMAIN Records
    /\ \A c \in DOMAIN creds :
         creds[c].secret = held[c] /\ \A o \in creds[c].origins : Covers(c, o)
    /\ \A i \in DOMAIN sent : sent[i].auth # NoSecret =>
         \E c \in DOMAIN Records : held[c] = sent[i].auth /\ Covers(c, sent[i].origin)

GrantInv == Granted /\ Home

LEMMA Least ==
    ASSUME NEW T, T \subseteq Nat, T # {}
    PROVE  \E n \in T : \A m \in T : n <= m
<1> DEFINE R == OpToRel(<, Nat)
<1>1. IsWellFoundedOn(R, Nat)
  BY NatLessThanWellFounded
<1>2. \A x, y \in Nat : x < y => <<x, y>> \in R
  BY DEF OpToRel
<1> HIDE DEF R
<1>3. PICK n \in T : \A m \in T : ~(<<m, n>> \in R)
  BY <1>1, WFMin
<1>4. ASSUME NEW m \in T PROVE n <= m
  <2>1. n \in Nat /\ m \in Nat
    OBVIOUS
  <2>2. ~(m < n)
    BY <1>2, <1>3, <2>1
  <2> QED
    BY <2>1, <2>2
<1> QED
  BY <1>4

\* A credential is only ever attached for an origin its connection covers.
LEMMA AttachedIsCovered ==
    ASSUME Home, NEW o, ForOrigin(o) # NoSecret
    PROVE  \E c \in DOMAIN Records : held[c] = ForOrigin(o) /\ Covers(c, o)
<1> DEFINE entries == {c \in DOMAIN creds : o \in creds[c].origins}
           first == CHOOSE c \in entries : \A d \in entries : c <= d
<1>1. entries # {} /\ ForOrigin(o) = creds[first].secret
  BY DEF ForOrigin, First
<1>2. entries \subseteq Nat
  BY NetFetchAssumption DEF Home
<1>3. \E c \in entries : \A d \in entries : c <= d
  BY <1>1, <1>2, Least
<1>4. first \in entries
  BY <1>3
<1> QED
  BY <1>1, <1>4 DEF Home

LEMMA EndsGranted ==
    ASSUME Ended, UNCHANGED manifest
    PROVE  GrantInv'
<1>1. DOMAIN creds' = {} /\ DOMAIN sent' = {}
  BY DEF Ended
<1> QED
  BY <1>1 DEF Ended, GrantInv, Granted, Home, NoAddress

LEMMA ConnectGranted ==
    ASSUME GrantInv, FetchInv, NEW resolved, Connect(resolved), UNCHANGED manifest,
           \A i \in DOMAIN resolved : resolved[i] \in V4 \cup V6,
           OfUrl(req.url) \in DeclaredOrigins
    PROVE  GrantInv'
<1>1. CASE Ended
  BY <1>1, EndsGranted
<1>2. CASE \E i \in Usable(resolved) : Send(resolved[i]) /\ UNCHANGED << req, hop, creds, held, asked, got >>
  <2>1. PICK i \in Usable(resolved) : Send(resolved[i]) /\ UNCHANGED << creds, held, asked >>
    BY <1>2
  <2> DEFINE o == OfUrl(req.url)
             s == ForOrigin(o)
             r == [origin |-> o, method |-> req.method, body |-> req.body, auth |-> s, status |-> 0]
  <2>2. sent' = Append(sent, r) /\ pc' = "sent" /\ pinned' = resolved[i]
    BY <2>1 DEF Send
  <2>3. PICK origins, secrets : sent \in Seq(Sent(origins, secrets))
    BY DEF FetchInv, Shaped
  <2>4. r.origin = o /\ r.auth = s
    OBVIOUS
  <2>5. o \in DeclaredOrigins /\ DeclaredOrigins' = DeclaredOrigins
    BY DEF DeclaredOrigins
  <2>6. s # NoSecret => \E c \in DOMAIN Records : held[c] = s /\ Covers(c, o)
    BY AttachedIsCovered DEF GrantInv
  <2> HIDE DEF o, s, r
  <2>7. ASSUME NEW j \in DOMAIN sent'
        PROVE  sent'[j] = r \/ (j \in DOMAIN sent /\ sent'[j] = sent[j])
    BY <2>2, <2>3
  <2>8. resolved[i] \in V4 \cup V6 /\ ~Classify(resolved[i])
    BY DEF Usable
  <2>9. ~Reserved(resolved[i])
    BY <2>8, ReservedNotUsable
  <2>10. Granted'
    BY <2>1, <2>2, <2>4, <2>5, <2>7, <2>9 DEF GrantInv, Granted
  <2>11. Home'
    BY <2>1, <2>4, <2>6, <2>7 DEF GrantInv, Home
  <2> QED
    BY <2>10, <2>11 DEF GrantInv
<1> QED
  BY <1>1, <1>2 DEF Connect

LEMMA HopGranted ==
    ASSUME GrantInv, FetchInv, Hop
    PROVE  GrantInv'
<1> DEFINE o == OfUrl(req.url)
<1>1. UNCHANGED manifest
  BY DEF Hop
<1>2. CASE Ended
  BY <1>1, <1>2, EndsGranted
<1>3. CASE /\ o \in DeclaredOrigins
           /\ o.host \in DOMAIN Literals /\ Connect(<<Literals[o.host]>>)
  <2>1. \A i \in DOMAIN <<Literals[o.host]>> : <<Literals[o.host]>>[i] \in V4 \cup V6
    BY <1>3, NetFetchAssumption
  <2> QED
    BY <1>1, <1>3, <2>1, ConnectGranted
<1>4. CASE /\ o \in DeclaredOrigins /\ pc' = "resolving" /\ asked' = asked \cup {o}
           /\ UNCHANGED << req, creds, pinned, held, sent >>
  BY <1>1, <1>4 DEF GrantInv, Granted, Home, DeclaredOrigins
<1> QED
  BY <1>2, <1>3, <1>4 DEF Hop

LEMMA AnswerGranted ==
    ASSUME GrantInv, FetchInv, pc = "sent", NEW status, sent' = Answered(status),
           pc' # "resolving", pinned' = pinned \/ pinned' = NoAddress,
           UNCHANGED << manifest, asked, creds, held >>
    PROVE  GrantInv'
<1>1. PICK origins, secrets : sent \in Seq(Sent(origins, secrets))
  BY DEF FetchInv, Shaped
<1>2. ASSUME NEW i \in DOMAIN sent'
      PROVE  i \in DOMAIN sent /\ sent'[i].origin = sent[i].origin /\ sent'[i].auth = sent[i].auth
  <2>1. sent[i] \in Sent(origins, secrets)
    BY <1>1, <1>2 DEF Answered
  <2> QED
    BY <1>1, <1>2, <2>1 DEF Answered, Sent
<1>3. Granted'
  BY <1>2 DEF GrantInv, Granted, DeclaredOrigins
<1>4. Home'
  BY <1>2 DEF GrantInv, Home
<1> QED
  BY <1>3, <1>4 DEF GrantInv

LEMMA GrantKept ==
    ASSUME GrantInv, FetchInv, [Next]_vars
    PROVE  GrantInv'
<1>1. ASSUME UNCHANGED << manifest, asked, sent, creds, held, pinned, req >>,
             pc' # "resolving" \/ pc' = pc
      PROVE  GrantInv'
  BY <1>1 DEF GrantInv, Granted, Home, DeclaredOrigins
<1>2. ASSUME NEW c \in DOMAIN Records, Enter(c) \/ Forget(c) PROVE GrantInv'
  BY <1>1, <1>2 DEF Enter, Forget, fetch
<1>3. ASSUME NEW u \in Urls, NEW m \in Methods, NEW b \in BOOLEAN, Fetch(u, m, b) PROVE GrantInv'
  <2>1. /\ sent' = << >> /\ asked' = {} /\ pc' = "hop" /\ UNCHANGED << manifest, pinned >>
        /\ creds' = Gathered /\ held' = keychain
    BY <1>3 DEF Fetch
  <2>2. Granted'
    BY <2>1 DEF GrantInv, Granted
  <2>3. DOMAIN creds' = DOMAIN Records
    BY <2>1 DEF Gathered
  <2>4. ASSUME NEW c \in DOMAIN creds'
        PROVE  creds'[c].secret = held'[c] /\ \A o \in creds'[c].origins : Covers(c, o)
    BY <2>1, <2>3, <2>4 DEF Gathered
  <2> QED
    BY <2>1, <2>2, <2>3, <2>4 DEF GrantInv, Home
<1>4. CASE Hop
  BY <1>4, HopGranted
<1>5. ASSUME NEW answer \in Answers, Resolve(answer) PROVE GrantInv'
  <2>1. \A i \in DOMAIN answer : answer[i] \in V4 \cup V6
    BY NetFetchAssumption DEF Range
  <2>2. Connect(answer) /\ UNCHANGED manifest /\ OfUrl(req.url) \in DeclaredOrigins
    BY <1>5 DEF Resolve, GrantInv, Granted
  <2> QED
    BY <2>1, <2>2, ConnectGranted
<1>6. ASSUME NEW s \in Statuses, NEW to \in Locations, Redirect(s, to) PROVE GrantInv'
  <2>1. CASE Ended
    BY <1>6, <2>1, EndsGranted DEF Redirect
  <2>2. CASE ~Ended
    BY <1>6, <2>2, AnswerGranted DEF Redirect
  <2> QED
    BY <2>1, <2>2
<1>7. CASE Respond
  BY <1>7, AnswerGranted DEF Respond
<1>8. ASSUME NEW n \in 1..2, Chunk(n) PROVE GrantInv'
  BY <1>1, <1>8, EndsGranted DEF Chunk
<1>9. CASE Finish \/ Fail
  BY <1>9, EndsGranted DEF Finish, Fail
<1>10. CASE UNCHANGED vars
  BY <1>1, <1>10 DEF vars
<1> QED
  BY <1>2, <1>3, <1>4, <1>5, <1>6, <1>7, <1>8, <1>9, <1>10 DEF Next

LEMMA FetchStarts == Init => FetchInv /\ GrantInv
<1> SUFFICES ASSUME Init PROVE FetchInv /\ GrantInv
  OBVIOUS
<1>1. sent = << >> /\ pc = "idle" /\ req = NoRequest /\ creds = << >> /\ asked = {} /\ pinned = NoAddress
  BY DEF Init
<1>2. sent \in Seq(Sent({}, {})) /\ DOMAIN sent = {} /\ DOMAIN creds = {}
  BY <1>1
<1>3. FetchInv
  BY <1>1, <1>2 DEF FetchInv, Shaped, Onward, BodyFollowsStatus, NoRequest, AllMethods
<1>4. GrantInv
  BY <1>1, <1>2 DEF GrantInv, Granted, Home
<1> QED
  BY <1>3, <1>4

\* BodyFollowsStatus: no chain of redirects, however long, sends a body again
\* that an answer on the way has dropped.
THEOREM BodiesFollowStatus == Spec => []BodyFollowsStatus
<1>1. FetchInv /\ [Next]_vars => FetchInv'
  BY FetchKept
<1>2. FetchInv => BodyFollowsStatus
  BY DEF FetchInv
<1> QED
  BY FetchStarts, <1>1, <1>2, PTL DEF Spec

\* StaysWithinGrant: however names resolve and servers redirect, a request goes
\* to a declared origin and to no special-purpose address.
THEOREM NothingOutsideGrant == Spec => []StaysWithinGrant
<1>1. FetchInv /\ GrantInv /\ [Next]_vars => FetchInv' /\ GrantInv'
  BY FetchKept, GrantKept
<1>2. GrantInv => StaysWithinGrant
  BY DEF GrantInv, Granted, StaysWithinGrant, ToSet
<1> QED
  BY FetchStarts, <1>1, <1>2, PTL DEF Spec

\* CredentialStaysHome: no chain of redirects, and no change of the keychain
\* under way, sends a credential to an origin its connection does not cover.
THEOREM CredentialsStayHome == Spec => []CredentialStaysHome
<1>1. FetchInv /\ GrantInv /\ [Next]_vars => FetchInv' /\ GrantInv'
  BY FetchKept, GrantKept
<1>2. GrantInv => CredentialStaysHome
  BY DEF GrantInv, Home, CredentialStaysHome, ToSet
<1> QED
  BY FetchStarts, <1>1, <1>2, PTL DEF Spec
=============================================================================
