--------------------------- MODULE PeerLinkProofs ---------------------------
(***************************************************************************)
(* PeerLink implements Delivery, for any number of slots, tries and        *)
(* counters and any window: a message is handed over at most once, and the *)
(* copy of a message leaves the table unaccounted for only if the peer has *)
(* had the message.                                                        *)
(***************************************************************************)
EXTENDS PeerLink, SequenceTheorems, TLAPS

\* The counters the receiver has acknowledged and the sender not yet seen.
Acked == ackPend \cup UNION {acks[k] : k \in DOMAIN acks}

\* Counters are used once: whatever is about has one that was given out.
GivenOut ==
  /\ \A m \in asked : m <= tx
  /\ \A f \in wire : f.ctr <= tx /\ (f.kind = "data" => f.orig \in asked)
  /\ \A d \in copies : d.ctr <= tx /\ d.orig \in asked
  /\ \A c \in Acked : c <= tx

\* A counter names one message, at the sender, on the way and in a DACK.
OneMessage ==
  /\ \A d, e \in copies : d.orig = e.orig => d = e
  /\ \A f \in wire, d \in copies : f.kind = "data" /\ f.ctr = d.ctr => f.orig = d.orig
  /\ \A d \in copies : d.ctr \in Acked => d.orig \in Handed \cup missed

\* The window remembers what was handed over, down to its lower end, and
\* refuses only below it.
WindowTells ==
  /\ seen \subseteq Handed
  /\ ~forgot => \A m \in Handed : m <= seenHi /\ (m \in seen \/ seenHi - m >= Window)
  /\ ~forgot => \A m \in missed : m <= seenHi /\ seenHi - m >= Window

LinkInv == TypeOK /\ GivenOut /\ OneMessage /\ WindowTells

\* A message handed over joins the inbox.
LEMMA HandedGrows ==
  ASSUME NEW m, inbox \in Seq(Ctr), inbox' = Append(inbox, m)
  PROVE  Handed' = Handed \cup {m}
<1>1. /\ DOMAIN inbox' = 1..(Len(inbox) + 1)
      /\ DOMAIN inbox = 1..Len(inbox)
      /\ Len(inbox) \in Nat
      /\ \A k \in 1..Len(inbox) : inbox'[k] = inbox[k]
      /\ inbox'[Len(inbox) + 1] = m
  OBVIOUS
<1>2. QED
  BY <1>1 DEF Handed

\* A peer that has not talked yet has nothing to remember.
LEMMA LinkInit == Init => LinkInv /\ D!DInit
<1> SUFFICES ASSUME Init
             PROVE  LinkInv /\ D!DInit
  OBVIOUS
<1> USE DEF Init
<1>1. TypeOK
  <2>1. 0 \in 0..MaxCtr
    BY PeerLinkAssumption
  <2>2. acks \in Seq(SUBSET Ctr) /\ inbox \in Seq(Ctr)
    OBVIOUS
  <2>3. QED
    BY <2>1, <2>2 DEF TypeOK
<1>2. Handed = {} /\ Acked = {}
  BY DEF Handed, Acked
<1>3. GivenOut /\ OneMessage /\ WindowTells
  BY <1>2 DEF GivenOut, OneMessage, WindowTells
<1>4. D!DInit
  BY DEF D!DInit, Origs
<1>5. QED
  BY <1>1, <1>3, <1>4 DEF LinkInv

\* Copies, datagrams in flight and DACKs go, and nothing comes.
LEMMA FewerCopies ==
  ASSUME LinkInv, copies' \subseteq copies, flow' \subseteq flow,
         acks' \in Seq(SUBSET Ctr), Acked' \subseteq Acked,
         stranded' \subseteq Ctr, dropped' \subseteq Ctr,
         UNCHANGED <<tx, asked, wire, receiver>>
  PROVE  LinkInv'
<1> USE DEF LinkInv, receiver
<1>1. Handed' = Handed
  BY DEF Handed
<1>2. TypeOK'
  BY DEF TypeOK
<1>3. GivenOut' /\ OneMessage' /\ WindowTells'
  BY <1>1 DEF GivenOut, OneMessage, WindowTells
<1>4. QED
  BY <1>2, <1>3

\* The messages of a set of copies
LEMMA OrigsType ==
  ASSUME TypeOK, NEW S \in SUBSET copies
  PROVE  Origs(S) \in SUBSET Ctr /\ Origs(S) \subseteq Origs(copies)
BY DEF TypeOK, Origs, Copy

\* Copies that go take their messages with them.
LEMMA OrigsLess ==
  ASSUME LinkInv, NEW S \in SUBSET copies
  PROVE  Origs(copies \ S) = Origs(copies) \ Origs(S)
BY DEF LinkInv, OneMessage, Origs

\* p2p_flow_on_send puts in flight what was in flight and the new counter.
LEMMA FlowType ==
  ASSUME NEW f \in SUBSET Ctr, NEW c \in Ctr
  PROVE  FlowWith(f, c) \in SUBSET Ctr
BY DEF FlowWith

\* DACKs hold counters.
LEMMA AckedType ==
  ASSUME TypeOK
  PROVE  Acked \in SUBSET Ctr
<1> SUFFICES ASSUME NEW c \in Acked
             PROVE  c \in Ctr
  OBVIOUS
<1>1. c \in ackPend \/ \E k \in DOMAIN acks : c \in acks[k]
  BY Zenon DEF Acked
<1>2. \A k \in DOMAIN acks : acks[k] \in SUBSET Ctr
  BY DEF TypeOK
<1>3. QED
  BY <1>1, <1>2 DEF TypeOK

\* The next counter is new.
LEMMA NextCounter ==
  ASSUME LinkInv, tx < MaxCtr
  PROVE  /\ tx + 1 \in Ctr /\ tx + 1 \in 0..MaxCtr
         /\ tx + 1 \notin asked /\ tx + 1 \notin Acked
         /\ \A f \in wire : f.ctr # tx + 1
         /\ \A d \in copies : d.ctr # tx + 1 /\ d.orig # tx + 1
<1>1. tx \in Nat /\ MaxCtr \in Nat
  BY PeerLinkAssumption DEF LinkInv, TypeOK
<1>2. asked \subseteq Nat /\ Acked \subseteq Nat
  BY AckedType DEF LinkInv, TypeOK, Ctr
<1>3. (\A f \in wire : f.ctr \in Nat) /\ (\A d \in copies : d.ctr \in Nat /\ d.orig \in Nat)
  BY DEF LinkInv, TypeOK, Ctr, Frame, Copy
<1>4. QED
  BY <1>1, <1>2, <1>3 DEF LinkInv, GivenOut, Ctr

\* p2p_send_text: the message is new, and so is its counter.
LEMMA SendStep ==
  ASSUME LinkInv, Send
  PROVE  LinkInv' /\ D!Submit
<1> DEFINE c == tx + 1
           new == [orig |-> c, ctr |-> c, tries |-> 0]
           frame == [ctr |-> c, kind |-> "data", orig |-> c]
<1>1. tx < MaxCtr
  BY PeerLinkAssumption DEF Send, LinkInv, TypeOK
<1>2. /\ c \in Ctr /\ c \in 0..MaxCtr /\ c \notin asked /\ c \notin Acked /\ c > tx
      /\ \A f \in wire : f.ctr # c
      /\ \A d \in copies : d.ctr # c /\ d.orig # c
  BY <1>1, NextCounter DEF LinkInv, TypeOK
<1>3. /\ new \in Copy /\ new.orig = c /\ new.ctr = c
      /\ frame \in Frame /\ frame.ctr = c /\ frame.kind = "data" /\ frame.orig = c
  BY <1>2, PeerLinkAssumption DEF Copy, Frame
<1>4. /\ tx' = c /\ flow' = FlowWith(flow, c) /\ copies' = (copies \ Evicted) \cup {new}
      /\ wire' = wire \cup {frame} /\ asked' = asked \cup {c}
      /\ dropped' = dropped \cup Origs(Evicted) /\ stranded' = stranded \ Origs(Evicted)
      /\ acks' = acks /\ UNCHANGED receiver
  BY DEF Send
<1>5. Evicted \in SUBSET copies
  BY DEF Evicted
<1> HIDE DEF new, frame, c
<1>6. TypeOK'
  BY <1>2, <1>3, <1>4, <1>5, OrigsType, FlowType DEF LinkInv, TypeOK, receiver
<1>7. Handed' = Handed /\ Acked' = Acked
  BY <1>4 DEF Handed, Acked, receiver
<1>8. \A x \in Ctr : x <= tx => x <= c
  BY <1>2 DEF LinkInv, TypeOK, Ctr
<1>9. Acked \subseteq Ctr
  BY AckedType DEF LinkInv
<1>10. GivenOut'
  <2>1. c <= c
    BY <1>2 DEF Ctr
  <2>2. (\A f \in wire : f.ctr \in Ctr) /\ (\A d \in copies : d.ctr \in Ctr)
    BY DEF LinkInv, TypeOK, Frame, Copy
  <2>3. QED
    BY <1>3, <1>4, <1>7, <1>8, <1>9, <2>1, <2>2 DEF LinkInv, TypeOK, GivenOut
<1>11. OneMessage'
  BY <1>2, <1>3, <1>4, <1>5, <1>7 DEF LinkInv, OneMessage, receiver
<1>12. WindowTells'
  BY <1>4, <1>7 DEF LinkInv, WindowTells, receiver
<1>13. D!Submit
  <2>1. Origs(copies') = (Origs(copies) \ Origs(Evicted)) \cup {c}
    BY <1>3, <1>4, <1>5, OrigsLess DEF Origs
  <2>2. Origs(Evicted) \in SUBSET Origs(copies)
    BY <1>5, OrigsType DEF LinkInv
  <2>3. QED
    BY <1>2, <1>4, <2>1, <2>2 DEF D!Submit, receiver
<1>14. QED
  BY <1>6, <1>10, <1>11, <1>12, <1>13 DEF LinkInv

\* A counter given to a frame without a message, or to none (NoEmit).
LEMMA SpareCounter ==
  ASSUME LinkInv, tx < MaxCtr, tx' = tx + 1,
         flow' \in SUBSET Ctr, stranded' \in SUBSET Ctr,
         \/ wire' = wire
         \/ wire' = wire \cup {[ctr |-> tx + 1, kind |-> "control", orig |-> 0]},
         UNCHANGED <<copies, asked, dropped, receiver, acks>>
  PROVE  LinkInv'
<1> DEFINE frame == [ctr |-> tx + 1, kind |-> "control", orig |-> 0]
<1>1. /\ tx + 1 \in Ctr /\ tx + 1 \in 0..MaxCtr
      /\ \A d \in copies : d.ctr # tx + 1
  BY NextCounter
<1>2. frame \in Frame /\ frame.kind # "data" /\ frame.ctr = tx + 1
  BY <1>1, PeerLinkAssumption DEF Frame
<1>3. wire' \subseteq wire \cup {frame}
  OBVIOUS
<1> HIDE DEF frame
<1>4. TypeOK'
  BY <1>1, <1>2, <1>3 DEF LinkInv, TypeOK, receiver
<1>5. Handed' = Handed /\ Acked' = Acked
  BY DEF Handed, Acked, receiver
<1>6. GivenOut'
  <2>1. \A x \in Ctr : x <= tx => x <= tx'
    BY DEF LinkInv, TypeOK, Ctr
  <2>2. (\A f \in wire : f.ctr \in Ctr) /\ (\A d \in copies : d.ctr \in Ctr) /\ Acked \subseteq Ctr
    BY AckedType DEF LinkInv, TypeOK, Frame, Copy
  <2>3. frame.ctr <= tx'
    BY <1>1, <1>2 DEF Ctr
  <2>4. QED
    BY <1>2, <1>3, <1>5, <2>1, <2>2, <2>3 DEF LinkInv, TypeOK, GivenOut
<1>7. OneMessage' /\ WindowTells'
  BY <1>2, <1>3, <1>5 DEF LinkInv, OneMessage, WindowTells, receiver
<1>8. QED
  BY <1>4, <1>6, <1>7 DEF LinkInv

\* p2p_rtx_resent: the copy is found under the new counter, by which no DACK
\* can have named it yet.
LEMMA ResendStep ==
  ASSUME LinkInv, NEW o \in Ctr, Resend(o)
  PROVE  LinkInv' /\ UNCHANGED D!dvars
<1> DEFINE c == tx + 1
<1>1. PICK d \in Due(o) : /\ copies' = (copies \ {d}) \cup {Resent(d)}
                          /\ wire' = wire \cup {[ctr |-> tx + 1, kind |-> "data", orig |-> d.orig]}
  BY DEF Resend
<1> DEFINE new == Resent(d)
           frame == [ctr |-> c, kind |-> "data", orig |-> d.orig]
<1>2. /\ c \in Ctr /\ c \in 0..MaxCtr /\ c \notin Acked
      /\ \A f \in wire : f.ctr # c
      /\ \A e \in copies : e.ctr # c
  BY NextCounter DEF Resend
<1>3. /\ d \in copies /\ d \in Copy /\ d.tries \in 0..Tries /\ d.tries < Tries
      /\ d.orig \in Ctr /\ d.orig \in asked
  BY <1>1 DEF Due, LinkInv, TypeOK, Copy, GivenOut
<1>4. new \in Copy /\ new.orig = d.orig /\ new.ctr = c
  <2>1. d.tries + 1 \in 0..Tries
    BY <1>3, PeerLinkAssumption
  <2>2. QED
    BY <1>2, <1>3, <2>1 DEF Resent, Copy
<1>5. frame \in Frame /\ frame.ctr = c /\ frame.orig = d.orig
  <2>1. d.orig \in 0..MaxCtr
    BY <1>3, PeerLinkAssumption DEF Ctr
  <2>2. QED
    BY <1>2, <2>1 DEF Frame
<1>6. /\ tx' = c /\ flow' = FlowWith(flow \ {o}, c) /\ copies' = (copies \ {d}) \cup {new}
      /\ wire' = wire \cup {frame}
      /\ UNCHANGED <<asked, dropped, stranded, receiver, acks>>
  BY <1>1 DEF Resend
<1>7. \A x \in Ctr : x <= tx => x <= c
  BY DEF LinkInv, TypeOK, Ctr
<1>8. c <= c
  BY <1>2 DEF Ctr
<1> HIDE DEF new, frame, c
<1>9. TypeOK'
  BY <1>2, <1>4, <1>5, <1>6, FlowType DEF LinkInv, TypeOK, receiver
<1>10. Handed' = Handed /\ Acked' = Acked
  BY <1>6 DEF Handed, Acked, receiver
<1>11. GivenOut'
  <2>1. (\A f \in wire : f.ctr \in Ctr) /\ (\A e \in copies : e.ctr \in Ctr) /\ Acked \subseteq Ctr
    BY AckedType DEF LinkInv, TypeOK, Frame, Copy
  <2>2. QED
    BY <1>3, <1>4, <1>5, <1>6, <1>7, <1>8, <1>10, <2>1 DEF LinkInv, TypeOK, GivenOut
<1>12. OneMessage'
  BY <1>2, <1>3, <1>4, <1>5, <1>6, <1>10 DEF LinkInv, OneMessage, receiver
<1>13. WindowTells'
  BY <1>6, <1>10 DEF LinkInv, WindowTells, receiver
<1>14. Origs(copies)' = Origs(copies)
  BY <1>3, <1>4, <1>6 DEF Origs, LinkInv, OneMessage
<1>15. QED
  BY <1>6, <1>9, <1>11, <1>12, <1>13, <1>14 DEF LinkInv, D!dvars, receiver

\* p2p_rtx_lost with the tries used up, and p2p-flow reset at the sender
LEMMA DropStep ==
  ASSUME LinkInv, NEW S \in SUBSET copies, copies' = copies \ S,
         flow' \subseteq flow, dropped' = dropped \cup Origs(S),
         stranded' \subseteq stranded, UNCHANGED <<tx, asked, receiver, wire, acks>>
  PROVE  LinkInv' /\ D!GiveUp
<1>1. Origs(S) \in SUBSET Ctr /\ Origs(S) \subseteq Origs(copies)
  BY OrigsType DEF LinkInv
<1>2. Acked' = Acked
  BY DEF Acked, receiver
<1>3. LinkInv'
  BY <1>1, <1>2, FewerCopies DEF LinkInv, TypeOK
<1>4. Origs(copies)' = Origs(copies) \ Origs(S)
  <2>1. Origs(copies)' = Origs(copies \ S)
    BY DEF Origs
  <2>2. QED
    BY <2>1, OrigsLess
<1>5. D!GiveUp
  BY <1>1, <1>4 DEF D!GiveUp, receiver
<1>6. QED
  BY <1>3, <1>5

\* A DACK releases copies of messages the peer has had.
LEMMA DackStep ==
  ASSUME LinkInv, ReceiveDack
  PROVE  LinkInv' /\ D!Confirm
<1>1. PICK k \in DOMAIN acks : /\ flow' = flow \ acks[k]
                               /\ copies' = {d \in copies : d.ctr \notin acks[k]}
                               /\ acks' = SubSeq(acks, k + 1, Len(acks))
  BY DEF ReceiveDack
<1>2. UNCHANGED <<tx, wire, asked, dropped, receiver>> /\ stranded' \subseteq stranded
  BY DEF ReceiveDack
<1>3. acks \in Seq(SUBSET Ctr) /\ k \in 1..Len(acks)
  BY DEF LinkInv, TypeOK
<1>4. /\ acks' \in Seq(SUBSET Ctr)
      /\ \A i \in DOMAIN acks' : \E j \in DOMAIN acks : acks'[i] = acks[j]
  <2>1. k + 1 \in 1..(Len(acks) + 1) /\ Len(acks) \in Nat /\ k \in Nat /\ k <= Len(acks)
    BY <1>3
  <2>2. /\ acks' \in Seq(SUBSET Ctr) /\ Len(acks') = Len(acks) - k
        /\ \A i \in 1..(Len(acks) - k) : acks'[i] = acks[k + i]
    <3>1. \A j \in (k + 1)..Len(acks) : acks[j] \in SUBSET Ctr
      BY <1>3
    <3>2. QED
      BY <1>1, <1>3, <2>1, <3>1, SubSeqProperties
  <2>3. \A i \in 1..(Len(acks) - k) : k + i \in 1..Len(acks)
    BY <2>1
  <2>4. QED
    BY <1>3, <2>2, <2>3
<1>5. Acked' \subseteq Acked
  <2> SUFFICES ASSUME NEW x \in Acked'
               PROVE  x \in Acked
    OBVIOUS
  <2>1. x \in ackPend' \/ \E i \in DOMAIN acks' : x \in acks'[i]
    BY Zenon DEF Acked
  <2>2. x \in ackPend \/ \E j \in DOMAIN acks : x \in acks[j]
    BY <1>2, <1>4, <2>1 DEF receiver
  <2>3. QED
    BY <2>2, Zenon DEF Acked
<1>6. LinkInv'
  <2>1. stranded' \in SUBSET Ctr /\ dropped' \in SUBSET Ctr
    BY <1>2 DEF LinkInv, TypeOK
  <2>2. QED
    BY <1>1, <1>2, <1>4, <1>5, <2>1, FewerCopies
<1>7. D!Confirm
  <2> DEFINE S == {d \in copies : d.ctr \in acks[k]}
  <2>1. S \in SUBSET copies /\ copies' = copies \ S
    BY <1>1
  <2>2. Origs(copies)' = Origs(copies) \ Origs(S)
    <3>1. Origs(copies)' = Origs(copies \ S)
      BY <2>1 DEF Origs
    <3>2. QED
      BY <2>1, <3>1, OrigsLess
  <2>3. \A x \in acks[k] : x \in Acked
    BY Zenon DEF Acked
  <2>4. Origs(S) \in SUBSET (Origs(copies) \cap (Handed \cup missed))
    BY <2>3 DEF Origs, LinkInv, OneMessage
  <2>5. D!Handed = Handed
    BY DEF D!Handed, Handed
  <2> HIDE DEF S
  <2>6. QED
    BY <1>2, <2>2, <2>4, <2>5 DEF D!Confirm, receiver
<1>8. QED
  BY <1>6, <1>7

\* p2p_rtx_accept: what is handed over was neither handed over nor refused
\* before, what is refused was not handed over, and the window goes on telling.
LEMMA AcceptStep ==
  ASSUME LinkInv, NEW m \in Ctr, Accept(m), forgot' = forgot
  PROVE  /\ seenHi' \in 0..MaxCtr /\ seen' \subseteq Ctr
         /\ inbox' \in Seq(Ctr) /\ missed' \subseteq Ctr
         /\ WindowTells'
         /\ Handed \subseteq Handed' /\ missed \subseteq missed'
         /\ m \in Handed' \cup missed'
         /\ \/ /\ inbox' = Append(inbox, m) /\ missed' = missed
               /\ forgot \/ m \notin Handed \cup missed
            \/ inbox' = inbox /\ missed' = missed \cup {m} /\ m \notin Handed
            \/ inbox' = inbox /\ missed' = missed
<1> USE DEF LinkInv
<1>1. /\ MaxCtr \in Nat /\ Window \in Nat /\ Window > 0 /\ m \in Nat /\ m > 0 /\ m <= MaxCtr
      /\ seenHi \in Nat /\ seenHi <= MaxCtr
  BY PeerLinkAssumption DEF TypeOK, Ctr
<1>2. /\ inbox \in Seq(Ctr) /\ seen \subseteq Ctr /\ missed \subseteq Ctr
      /\ (\A x \in seen : x \in Nat) /\ (\A x \in missed : x \in Nat)
      /\ (\A x \in Handed : x \in Ctr /\ x \in Nat)
  <2>1. inbox \in Seq(Ctr) /\ seen \subseteq Ctr /\ missed \subseteq Ctr
    BY DEF TypeOK
  <2>2. \A k \in DOMAIN inbox : inbox[k] \in Ctr
    BY <2>1
  <2>3. \A x \in Ctr : x \in Nat
    BY DEF Ctr
  <2>4. \A x \in Handed : x \in Ctr
    BY <2>2, Zenon DEF Handed
  <2>5. QED
    BY <2>1, <2>3, <2>4
<1>3. CASE Fresh(m)
  <2>1. /\ seenHi' = m /\ seen' = Inside(m, seen \cup {m})
        /\ inbox' = Append(inbox, m) /\ missed' = missed
    BY <1>3 DEF Accept
  <2>2. Handed' = Handed \cup {m}
    BY <1>2, <2>1, HandedGrows
  <2>3. inbox' \in Seq(Ctr) /\ seen' \subseteq Ctr /\ m \in 0..MaxCtr
    <3>1. inbox' \in Seq(Ctr) /\ m \in 0..MaxCtr
      BY <1>1, <1>2, <2>1
    <3>2. seen' \subseteq Ctr
      BY <1>2, <2>1, Zenon DEF Inside
    <3>3. QED
      BY <3>1, <3>2
  <2>5. forgot \/ m \notin Handed \cup missed
    BY <1>1, <1>3 DEF Fresh, WindowTells
  <2>6. seen' \subseteq Handed'
    BY <2>1, <2>2 DEF Inside, WindowTells
  <2>7. ASSUME ~forgot, NEW x \in Handed'
        PROVE  x <= m /\ (x \in seen' \/ m - x >= Window)
    <3>1. CASE x = m
      BY <1>1, <2>1, <3>1 DEF Inside
    <3>2. CASE x \in Handed
      BY <1>1, <1>2, <1>3, <2>1, <2>7, <3>2 DEF Inside, WindowTells, Fresh
    <3>3. QED
      BY <2>2, <2>7, <3>1, <3>2
  <2>8. ASSUME ~forgot, NEW x \in missed
        PROVE  x <= m /\ m - x >= Window
    BY <1>1, <1>2, <1>3, <2>8 DEF WindowTells, Fresh
  <2>9. WindowTells'
    BY <2>1, <2>6, <2>7, <2>8 DEF WindowTells
  <2>10. QED
    BY <1>2, <2>1, <2>2, <2>3, <2>5, <2>9
<1>4. CASE ~Fresh(m) /\ TooOld(m)
  <2>1. /\ missed' = missed \cup ({m} \ Handed)
        /\ seenHi' = seenHi /\ seen' = seen /\ inbox' = inbox
    BY <1>4 DEF Accept
  <2>2. Handed' = Handed
    BY <2>1 DEF Handed
  <2>3. WindowTells'
    BY <1>4, <2>1, <2>2 DEF WindowTells, TooOld
  <2>4. QED
    BY <1>2, <2>1, <2>2, <2>3 DEF TypeOK
<1>5. CASE ~Fresh(m) /\ ~TooOld(m) /\ Known(m)
  <2>1. missed' = missed /\ seenHi' = seenHi /\ seen' = seen /\ inbox' = inbox
    BY <1>5 DEF Accept
  <2>2. Handed' = Handed
    BY <2>1 DEF Handed
  <2>3. WindowTells'
    BY <2>1, <2>2 DEF WindowTells
  <2>4. m \in Handed
    BY <1>5 DEF Known, WindowTells
  <2>5. QED
    BY <1>2, <2>1, <2>2, <2>3, <2>4 DEF TypeOK
<1>6. CASE ~Fresh(m) /\ ~TooOld(m) /\ ~Known(m)
  <2>1. /\ missed' = missed /\ seenHi' = seenHi /\ seen' = seen \cup {m}
        /\ inbox' = Append(inbox, m)
    BY <1>6 DEF Accept
  <2>2. Handed' = Handed \cup {m}
    BY <1>2, <2>1, HandedGrows
  <2>3. m <= seenHi /\ ~(seenHi - m >= Window) /\ m \notin seen
    BY <1>1, <1>6 DEF Fresh, TooOld, Known
  <2>4. forgot \/ m \notin Handed \cup missed
    BY <2>3 DEF WindowTells
  <2>5. WindowTells'
    BY <2>1, <2>2, <2>3 DEF WindowTells
  <2>6. inbox' \in Seq(Ctr)
    BY <1>2, <2>1
  <2>7. QED
    BY <1>2, <2>1, <2>2, <2>4, <2>5, <2>6 DEF TypeOK
<1>7. QED
  BY <1>3, <1>4, <1>5, <1>6

\* flush_dack adds one DACK, perhaps at the expense of the oldest.
LEMMA FlushedDacks ==
  ASSUME TypeOK, NEW S \in SUBSET Ctr
  PROVE  /\ Flushed(S) \in Seq(SUBSET Ctr)
         /\ \A i \in DOMAIN Flushed(S) :
              Flushed(S)[i] = S \/ \E j \in DOMAIN acks : Flushed(S)[i] = acks[j]
<1>1. acks \in Seq(SUBSET Ctr) /\ Len(acks) \in Nat /\ MaxAcks \in Nat /\ MaxAcks > 0
  BY PeerLinkAssumption DEF TypeOK
<1>2. CASE Len(acks) < MaxAcks
  BY <1>1, <1>2 DEF Flushed
<1>3. CASE ~(Len(acks) < MaxAcks)
  <2>1. acks # <<>> /\ Len(acks) > 0
    BY <1>1, <1>3
  <2>2. /\ Tail(acks) \in Seq(SUBSET Ctr) /\ Len(Tail(acks)) = Len(acks) - 1
        /\ \A i \in 1..(Len(acks) - 1) : Tail(acks)[i] = acks[i + 1]
    BY <1>1, <2>1
  <2>3. \A i \in 1..(Len(acks) - 1) : i + 1 \in 1..Len(acks)
    BY <1>1
  <2> DEFINE t == Tail(acks)
  <2> HIDE DEF t
  <2>4. /\ Append(t, S) \in Seq(SUBSET Ctr)
        /\ \A i \in DOMAIN Append(t, S) : Append(t, S)[i] = S \/ (i \in 1..(Len(acks) - 1) /\ Append(t, S)[i] = t[i])
    BY <1>1, <2>2 DEF t
  <2>5. Flushed(S) = Append(t, S)
    BY <1>3 DEF Flushed, t
  <2>6. QED
    BY <1>1, <2>2, <2>3, <2>4, <2>5 DEF t
<1>4. QED
  BY <1>2, <1>3

\* After the receiver took c, put it in a DACK or among those to come.
LEMMA AckedGrows ==
  ASSUME LinkInv, NEW S \in SUBSET Ctr,
         \/ ackPend' = {} /\ acks' = Flushed(S)
         \/ ackPend' = S /\ acks' = acks
  PROVE  acks' \in Seq(SUBSET Ctr) /\ ackPend' \subseteq Ctr /\ Acked' \subseteq Acked \cup S
<1>1. TypeOK /\ acks \in Seq(SUBSET Ctr)
  BY DEF LinkInv, TypeOK
<1>2. acks' \in Seq(SUBSET Ctr) /\ ackPend' \subseteq Ctr
  BY <1>1, FlushedDacks
<1>3. \A i \in DOMAIN acks' : acks'[i] = S \/ \E j \in DOMAIN acks : acks'[i] = acks[j]
  <2>1. CASE acks' = Flushed(S)
    BY <1>1, <2>1, FlushedDacks
  <2>2. CASE acks' = acks
    BY <2>2
  <2>3. QED
    BY <2>1, <2>2
<1>4. ASSUME NEW x \in Acked'
      PROVE  x \in Acked \cup S
  <2>1. x \in ackPend' \/ \E i \in DOMAIN acks' : x \in acks'[i]
    BY <1>4, Zenon DEF Acked
  <2>2. x \in S \/ \E j \in DOMAIN acks : x \in acks[j]
    BY <1>3, <2>1
  <2>3. QED
    BY <2>2, Zenon DEF Acked
<1>5. QED
  BY <1>2, <1>4

\* A sealed datagram: a control frame changes nothing of the messages, a data
\* frame is acknowledged, and then handed over, refused or dropped.
LEMMA ReceiveStep ==
  ASSUME LinkInv, Receive
  PROVE  LinkInv' /\ (D!Hand \/ D!Miss \/ UNCHANGED D!dvars)
<1>1. PICK f \in wire :
        /\ f.ctr > rx /\ rx' = f.ctr
        /\ wire' = {g \in wire : g.ctr > f.ctr}
        /\ IF f.kind = "control" THEN UNCHANGED <<seenHi, seen, inbox, missed, ackPend, acks>>
           ELSE /\ Accept(f.orig)
                /\ LET S == ackPend \cup {f.ctr}
                   IN  IF Cardinality(S) >= Batch
                       THEN ackPend' = {} /\ acks' = Flushed(S)
                       ELSE ackPend' = S /\ UNCHANGED acks
  BY DEF Receive
<1>2. UNCHANGED <<tx, flow, copies, asked, dropped, stranded, forgot>>
  BY DEF Receive, sender
<1>3. /\ f.ctr \in Ctr /\ f.ctr \in 0..MaxCtr /\ f.kind \in {"data", "control"}
      /\ wire' \subseteq wire
  BY <1>1, PeerLinkAssumption DEF LinkInv, TypeOK, Frame, Ctr
<1>4. Origs(copies)' = Origs(copies)
  BY <1>2 DEF Origs
<1>5. CASE f.kind = "control"
  <2>1. UNCHANGED <<seenHi, seen, inbox, missed, ackPend, acks>>
    BY <1>1, <1>5
  <2>2. Handed' = Handed /\ Acked' = Acked
    BY <2>1 DEF Handed, Acked
  <2>3. TypeOK'
    BY <1>1, <1>2, <1>3, <2>1 DEF LinkInv, TypeOK
  <2>4. GivenOut' /\ OneMessage' /\ WindowTells'
    BY <1>2, <1>3, <2>1, <2>2 DEF LinkInv, GivenOut, OneMessage, WindowTells
  <2>5. QED
    BY <1>2, <1>4, <2>1, <2>3, <2>4 DEF LinkInv, D!dvars
<1>6. CASE f.kind = "data"
  <2>1. f.orig \in asked /\ f.orig \in Ctr /\ f.ctr <= tx
    BY <1>6 DEF LinkInv, GivenOut, TypeOK
  <2> DEFINE S == ackPend \cup {f.ctr}
  <2>2. /\ Accept(f.orig)
        /\ \/ ackPend' = {} /\ acks' = Flushed(S)
           \/ ackPend' = S /\ acks' = acks
    BY <1>1, <1>6
  <2>3. /\ acks' \in Seq(SUBSET Ctr) /\ ackPend' \subseteq Ctr
        /\ Acked' \subseteq Acked \cup {f.ctr}
    <3>1. S \in SUBSET Ctr
      BY <1>3 DEF LinkInv, TypeOK
    <3>2. S \subseteq Acked \cup {f.ctr}
      BY DEF Acked
    <3> HIDE DEF S
    <3>3. QED
      BY <2>2, <3>1, <3>2, AckedGrows
  <2>4. /\ seenHi' \in 0..MaxCtr /\ seen' \subseteq Ctr
        /\ inbox' \in Seq(Ctr) /\ missed' \subseteq Ctr
        /\ WindowTells'
        /\ Handed \subseteq Handed' /\ missed \subseteq missed'
        /\ f.orig \in Handed' \cup missed'
        /\ \/ /\ inbox' = Append(inbox, f.orig) /\ missed' = missed
              /\ forgot \/ f.orig \notin Handed \cup missed
           \/ inbox' = inbox /\ missed' = missed \cup {f.orig} /\ f.orig \notin Handed
           \/ inbox' = inbox /\ missed' = missed
    BY <1>2, <2>1, <2>2, AcceptStep
  <2> HIDE DEF S
  <2>5. TypeOK'
    BY <1>1, <1>2, <1>3, <2>3, <2>4 DEF LinkInv, TypeOK
  <2>6. GivenOut'
    BY <1>2, <1>3, <2>1, <2>3 DEF LinkInv, GivenOut
  <2>7. OneMessage'
    <3>1. \A d \in copies : d.ctr \in Acked' => d.orig \in Handed' \cup missed'
      BY <1>6, <2>3, <2>4 DEF LinkInv, OneMessage
    <3>2. QED
      BY <1>2, <1>3, <3>1 DEF LinkInv, OneMessage
  <2>8. D!Handed = Handed
    BY DEF D!Handed, Handed
  <2>9. D!Hand \/ D!Miss \/ UNCHANGED D!dvars
    BY <1>2, <1>4, <2>1, <2>4, <2>8 DEF D!Hand, D!Miss, D!dvars
  <2>10. QED
    BY <2>4, <2>5, <2>6, <2>7, <2>9 DEF LinkInv
<1>7. QED
  BY <1>3, <1>5, <1>6

\* p2p_tick sends the acknowledgements that wait.
LEMMA FlushStep ==
  ASSUME LinkInv, FlushDack
  PROVE  LinkInv' /\ UNCHANGED D!dvars
<1>1. /\ ackPend' = {} /\ acks' = Flushed(ackPend)
      /\ UNCHANGED <<tx, flow, copies, asked, dropped, stranded, rx, seenHi, seen, inbox, missed, forgot, wire>>
  BY DEF FlushDack, sender
<1>2. /\ acks' \in Seq(SUBSET Ctr) /\ ackPend' \subseteq Ctr
      /\ Acked' \subseteq Acked
  <2>1. ackPend \in SUBSET Ctr /\ ackPend \subseteq Acked
    BY DEF LinkInv, TypeOK, Acked
  <2>2. QED
    BY <1>1, <2>1, AckedGrows
<1>3. Handed' = Handed /\ Origs(copies)' = Origs(copies)
  BY <1>1 DEF Handed, Origs
<1>4. TypeOK'
  BY <1>1, <1>2 DEF LinkInv, TypeOK
<1>5. GivenOut' /\ OneMessage' /\ WindowTells'
  BY <1>1, <1>2, <1>3 DEF LinkInv, GivenOut, OneMessage, WindowTells
<1>6. QED
  BY <1>1, <1>3, <1>4, <1>5 DEF LinkInv, D!dvars

\* p2p-flow reset at the receiver: the window is empty and promises nothing.
LEMMA ResetStep ==
  ASSUME LinkInv, ResetReceiver
  PROVE  LinkInv' /\ D!Forget
<1>1. /\ seenHi' = 0 /\ seen' = {} /\ ackPend' = {} /\ forgot' = TRUE
      /\ UNCHANGED <<tx, flow, copies, asked, dropped, stranded, rx, inbox, missed, wire, acks>>
  BY DEF ResetReceiver, sender
<1>2. Handed' = Handed /\ Origs(copies)' = Origs(copies) /\ Acked' \subseteq Acked
  BY <1>1 DEF Handed, Origs, Acked
<1>3. TypeOK'
  BY <1>1, PeerLinkAssumption DEF LinkInv, TypeOK
<1>4. GivenOut' /\ OneMessage' /\ WindowTells'
  BY <1>1, <1>2 DEF LinkInv, GivenOut, OneMessage, WindowTells
<1>5. QED
  BY <1>1, <1>2, <1>3, <1>4 DEF LinkInv, D!Forget

\* Every step of the link keeps the invariant, and is a step of Delivery or
\* none at all.
LEMMA LinkNext ==
  ASSUME LinkInv, [Next]_vars
  PROVE  LinkInv' /\ [D!DNext]_(D!dvars)
<1>1. CASE Send
  BY <1>1, SendStep DEF D!DNext
<1>2. CASE SendControl
  <2>1. /\ tx < MaxCtr /\ tx' = tx + 1
        /\ wire' = wire \cup {[ctr |-> tx + 1, kind |-> "control", orig |-> 0]}
        /\ UNCHANGED <<flow, copies, asked, dropped, stranded, receiver, acks>>
    BY <1>2, PeerLinkAssumption DEF SendControl, LinkInv, TypeOK
  <2>2. flow' \in SUBSET Ctr /\ stranded' \in SUBSET Ctr
    BY <2>1 DEF LinkInv, TypeOK
  <2>3. LinkInv'
    BY <2>1, <2>2, SpareCounter
  <2>4. UNCHANGED D!dvars
    BY <2>1 DEF D!dvars, Origs, receiver
  <2>5. QED
    BY <2>3, <2>4
<1>3. ASSUME NEW c \in Ctr, GiveUp(c)
      PROVE  LinkInv' /\ [D!DNext]_(D!dvars)
  <2> DEFINE over == {d \in copies : d.ctr = c}
  <2>1. /\ over \in SUBSET copies /\ copies' = copies \ over
        /\ flow' \subseteq flow /\ dropped' = dropped \cup Origs(over)
        /\ stranded' \subseteq stranded /\ UNCHANGED <<tx, asked, receiver, wire, acks>>
    BY <1>3 DEF GiveUp
  <2> HIDE DEF over
  <2>2. QED
    BY <2>1, DropStep DEF D!DNext
<1>4. ASSUME NEW c \in Ctr, Resend(c)
      PROVE  LinkInv' /\ [D!DNext]_(D!dvars)
  BY <1>4, ResendStep
<1>5. ASSUME NEW c \in Ctr, NoRoute(c)
      PROVE  LinkInv' /\ [D!DNext]_(D!dvars)
  <2>1. /\ flow' \subseteq flow
        /\ UNCHANGED <<tx, copies, asked, dropped, receiver, wire, acks>>
    BY <1>5 DEF NoRoute
  <2>2. stranded' \in SUBSET Ctr /\ dropped' \in SUBSET Ctr /\ acks' \in Seq(SUBSET Ctr)
    BY <1>5, <2>1 DEF NoRoute, Due, LinkInv, TypeOK, Copy
  <2>3. Acked' = Acked
    BY <2>1 DEF Acked, receiver
  <2>4. LinkInv'
    BY <2>1, <2>2, <2>3, FewerCopies
  <2>5. UNCHANGED D!dvars
    BY <2>1 DEF D!dvars, Origs, receiver
  <2>6. QED
    BY <2>4, <2>5
<1>6. ASSUME NEW c \in Ctr, NoEmit(c)
      PROVE  LinkInv' /\ [D!DNext]_(D!dvars)
  <2>1. /\ tx < MaxCtr /\ tx' = tx + 1 /\ flow' = FlowWith(flow \ {c}, tx + 1)
        /\ UNCHANGED <<copies, asked, dropped, receiver, wire, acks>>
    BY <1>6 DEF NoEmit
  <2>2. stranded' \in SUBSET Ctr
    BY <1>6 DEF NoEmit, Due, LinkInv, TypeOK, Copy
  <2>3. flow' \in SUBSET Ctr
    <3>1. tx + 1 \in Ctr /\ flow \ {c} \in SUBSET Ctr
      BY <2>1, NextCounter DEF LinkInv, TypeOK
    <3>2. QED
      BY <2>1, <3>1, FlowType
  <2>4. LinkInv'
    BY <2>1, <2>2, <2>3, SpareCounter
  <2>5. UNCHANGED D!dvars
    BY <2>1 DEF D!dvars, Origs, receiver
  <2>6. QED
    BY <2>4, <2>5
<1>7. CASE ReceiveDack
  BY <1>7, DackStep DEF D!DNext
<1>8. CASE Receive
  BY <1>8, ReceiveStep DEF D!DNext
<1>9. CASE FlushDack
  BY <1>9, FlushStep
<1>10. CASE ResetSender
  <2>1. /\ copies' = copies \ copies /\ flow' \subseteq flow
        /\ dropped' = dropped \cup Origs(copies) /\ stranded' \subseteq stranded
        /\ UNCHANGED <<tx, asked, receiver, wire, acks>>
    BY <1>10 DEF ResetSender
  <2>2. QED
    BY <2>1, DropStep DEF D!DNext
<1>11. CASE ResetReceiver
  BY <1>11, ResetStep DEF D!DNext
<1>12. CASE UNCHANGED vars
  <2>1. /\ UNCHANGED <<tx, flow, copies, asked, dropped, stranded, wire, acks>>
        /\ UNCHANGED receiver
    BY <1>12 DEF vars, sender
  <2>2. Acked' = Acked
    BY <2>1 DEF Acked, receiver
  <2>3. LinkInv'
    BY <2>1, <2>2, FewerCopies DEF LinkInv, TypeOK
  <2>4. UNCHANGED D!dvars
    BY <2>1 DEF D!dvars, Origs, receiver
  <2>5. QED
    BY <2>3, <2>4
<1>13. QED
  BY <1>1, <1>2, <1>3, <1>4, <1>5, <1>6, <1>7, <1>8, <1>9, <1>10, <1>11, <1>12 DEF Next

\* Whatever is lost, repeated, reordered, sent again or reset, the sender and
\* the receiver of p2p_rtx.c and p2p_flow.c together implement Delivery.
THEOREM LinkDelivers == Spec => DeliversOnce
<1>1. Init => LinkInv /\ D!DInit
  BY LinkInit
<1>2. LinkInv /\ [Next]_vars => LinkInv' /\ [D!DNext]_(D!dvars)
  BY LinkNext
<1>3. QED
  BY <1>1, <1>2, PTL DEF Spec, DeliversOnce, D!DSpec

\* The window tells what was handed over in every state the link reaches.
THEOREM WindowAlwaysTells == Spec => []WindowTells
<1>1. Init => LinkInv
  BY LinkInit
<1>2. LinkInv /\ [Next]_vars => LinkInv'
  BY LinkNext
<1>3. LinkInv => WindowTells
  BY DEF LinkInv
<1>4. QED
  BY <1>1, <1>2, <1>3, PTL DEF Spec
=============================================================================
