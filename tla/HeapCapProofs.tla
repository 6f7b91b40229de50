----------------------------- MODULE HeapCapProofs -----------------------------
(***************************************************************************)
(* The error reserve of the heap, for every window smaller than the cap.   *)
(* (With a window as large as the cap the reserve is committed at the      *)
(* start and the theorems are false.)                                      *)
(***************************************************************************)
EXTENDS HeapCap, TLAPS

\* What a growth wants is whole pages and more than was asked for.
LEMMA WantedIsPages ==
    ASSUME NEW e \in Nat, e % Page = 0, NEW lv \in Nat, NEW n \in Nat
    PROVE  /\ Wanted(e, lv, n) \in Nat
           /\ Wanted(e, lv, n) % Page = 0
           /\ Wanted(e, lv, n) > n
<1> DEFINE p == Pages(n)
           w == IF 2 * lv > e THEN Larger(p, e) ELSE p
<1>1. p \in Nat /\ p % Page = 0 /\ p > n
    BY DEF Pages, Page
<1>2. Larger(p, e) \in Nat /\ Larger(p, e) % Page = 0 /\ Larger(p, e) >= p
    BY <1>1 DEF Larger, Page
<1>3. w \in Nat /\ w % Page = 0 /\ w >= p
    BY <1>1, <1>2
<1>4. Window \in Nat /\ Window % Page = 0
    BY HeapAssumption
<1>5. Wanted(e, lv, n) = Larger(Window, w)
    BY DEF Wanted
<1>6. Larger(Window, w) \in Nat /\ Larger(Window, w) % Page = 0 /\ Larger(Window, w) >= w
    BY <1>3, <1>4 DEF Larger, Page
<1> QED
    BY <1>1, <1>3, <1>5, <1>6

\* A growth never takes the reserve, and stops short of it only when it has
\* committed more than was asked for.
LEMMA GrowKeepsTheReserve ==
    ASSUME NEW e \in Nat, e % Page = 0, e <= Cap, NEW lv \in Nat, NEW n \in Nat
    PROVE  /\ Grown(e, lv, n) \in Nat
           /\ Grown(e, lv, n) % Page = 0
           /\ e <= Grown(e, lv, n) /\ Grown(e, lv, n) <= Cap
           /\ e <= Cap - Reserve => Grown(e, lv, n) <= Cap - Reserve
           /\ e > Cap - Reserve => e = Cap /\ Grown(e, lv, n) = e
           /\ Grown(e, lv, n) < Cap - Reserve => Grown(e, lv, n) > e + n
<1> DEFINE w == Wanted(e, lv, n)
           l == Cap - e - Reserve
<1>1. w \in Nat /\ w % Page = 0 /\ w > n
    BY WantedIsPages
<1>2. Cap \in Nat /\ Cap % Page = 0
    BY HeapAssumption
<1> HIDE DEF w
<1>3. CASE Cap - e > Reserve
    <2>1. l \in Nat /\ l % Page = 0 /\ l > 0
        BY <1>2, <1>3 DEF Reserve, Page
    <2>2. Grown(e, lv, n) = e + Smaller(w, l)
        BY <1>3 DEF Grown, w
    <2>3. CASE w < l
        <3>1. Grown(e, lv, n) = e + w
            BY <2>2, <2>3 DEF Smaller
        <3> QED
            BY <3>1, <2>1, <2>3, <1>1, <1>2, <1>3 DEF Reserve, Page
    <2>4. CASE ~(w < l)
        <3>1. Grown(e, lv, n) = e + l
            BY <2>2, <2>4 DEF Smaller
        <3> QED
            BY <3>1, <2>1, <1>2, <1>3 DEF Reserve, Page
    <2> QED
        BY <2>3, <2>4
<1>4. CASE ~(Cap - e > Reserve)
    <2>1. Grown(e, lv, n) = e
        BY <1>4 DEF Grown
    <2> QED
        BY <2>1, <1>2, <1>4 DEF Reserve, Page
<1> QED
    BY <1>3, <1>4

LEMMA InitInv ==
    ASSUME Window < Cap
    PROVE  Init => HeapInv
<1> SUFFICES ASSUME Init PROVE HeapInv
    OBVIOUS
<1>1. Window \in Nat /\ Window % Page = 0 /\ Cap \in Nat /\ Cap % Page = 0
    BY HeapAssumption
<1>2. Window <= Cap - Reserve
    BY <1>1 DEF Reserve, Page
<1>3. /\ end \in Nat /\ end % Page = 0 /\ end <= Cap
      /\ top \in Nat /\ top <= end /\ live \in Nat /\ due \in 0..3 /\ last \in Nat
    BY <1>1, <1>2, HeapAssumption DEF Init, Page
<1>4. /\ pending \in BOOLEAN /\ raising \in BOOLEAN /\ road \in BOOLEAN
      /\ fate \in {"run", "error", "refused"}
      /\ trapped \in BOOLEAN /\ chance \in BOOLEAN
    BY DEF Init
<1>5. TypeOK
    BY <1>3, <1>4 DEF TypeOK
<1> QED
    BY <1>2, <1>5 DEF Init, HeapInv, ReserveClosed, RoadIsTaken, ServedMeansOpen,
        RaisingIsDue, RearmedWhenFree, CapIsCatchable, HandlerHasRoom

\* A growth for a request of the running program.
LEMMA GrowForRequest ==
    ASSUME TypeOK, NEW n \in Nat
    PROVE  /\ GrownFor(n) \in Nat
           /\ GrownFor(n) % Page = 0
           /\ end <= GrownFor(n) /\ GrownFor(n) <= Cap
           /\ end <= Cap - Reserve => GrownFor(n) <= Cap - Reserve
           /\ end > Cap - Reserve => end = Cap /\ GrownFor(n) = end
           /\ GrownFor(n) < Cap - Reserve => GrownFor(n) > end + n
<1>1. end \in Nat /\ end % Page = 0 /\ end <= Cap /\ live \in Nat
    BY DEF TypeOK
<1> QED
    BY <1>1, GrowKeepsTheReserve DEF GrownFor

\* A request that finds no room ends the run as the invariant says, whether
\* it is the program's or the error term's.
LEMMA FailInv ==
    ASSUME HeapInv, fate = "run", NEW n \in Nat, Fail(n)
    PROVE  HeapInv'
<1>1. TypeOK
    BY DEF HeapInv
<1>2. Cap \in Nat /\ Cap % Page = 0
    BY HeapAssumption
<1> DEFINE g == GrownFor(n)
<1>3. /\ g \in Nat /\ g % Page = 0 /\ end <= g /\ g <= Cap
      /\ end <= Cap - Reserve => g <= Cap - Reserve
      /\ end > Cap - Reserve => end = Cap /\ g = end
      /\ g < Cap - Reserve => g > end + n
    BY <1>1, GrowForRequest
<1>4. /\ top + n > g
      /\ ~(g + Reserve = Cap /\ road /\ top + n <= Cap)
      /\ end' = IF g + Reserve = Cap THEN Cap ELSE g
    BY DEF Fail, NoRoom
<1> HIDE DEF g
<1>5. /\ fate' = IF due \in {1, 3} THEN "refused" ELSE "error"
      /\ last' = n /\ pending' = TRUE
      /\ top' = top /\ live' = live /\ due' = due /\ raising' = raising
      /\ road' = road /\ trapped' = trapped /\ chance' = chance
    BY DEF Fail
<1>6. /\ end \in Nat /\ top \in Nat /\ top <= end /\ due \in 0..3
      /\ road \in BOOLEAN /\ trapped \in BOOLEAN /\ chance \in BOOLEAN /\ raising \in BOOLEAN
    BY <1>1 DEF TypeOK
<1>7. end' \in Nat /\ end' % Page = 0 /\ end <= end' /\ end' <= Cap
    BY <1>2, <1>3, <1>4, <1>6 DEF Reserve, Page
<1>8. TypeOK'
    BY <1>1, <1>5, <1>6, <1>7 DEF TypeOK
<1>9. g = Cap - Reserve \/ g = Cap
    <2>1. ~(g < Cap - Reserve)
        BY <1>2, <1>3, <1>4, <1>6 DEF Reserve, Page
    <2> QED
        BY <2>1, <1>2, <1>3 DEF Reserve, Page
<1>10. end' = Cap
    BY <1>2, <1>4, <1>9 DEF Reserve, Page
<1>11. CapIsCatchable'
    <2> SUFFICES ASSUME fate' = "error", road'
                 PROVE  last' > Reserve \/ (due' = 2 /\ ~chance')
        BY DEF CapIsCatchable
    <2>1. due \in {0, 2} /\ ~trapped
        BY <1>5, <1>6 DEF HeapInv, RoadIsTaken
    <2>2. CASE end <= Cap - Reserve
        <3>1. g + Reserve = Cap
            BY <2>2, <1>2, <1>3, <1>9 DEF Reserve, Page
        <3>2. top + n > Cap
            BY <3>1, <1>2, <1>4, <1>5, <1>6
        <3> QED
            BY <3>2, <2>2, <1>2, <1>5, <1>6 DEF Reserve, Page
    <2>3. CASE ~(end <= Cap - Reserve)
        <3>1. due = 2
            BY <2>1, <2>3, <1>2 DEF HeapInv, ReserveClosed
        <3>2. ~chance
            BY <3>1, <2>3, <1>2 DEF HeapInv, RearmedWhenFree
        <3> QED
            BY <3>1, <3>2, <1>5
    <2> QED
        BY <2>2, <2>3
<1>12. HandlerHasRoom'
    <2> SUFFICES ASSUME fate' = "error", ~road', ~trapped'
                 PROVE  top' + Reserve <= Cap
        BY <1>10 DEF HandlerHasRoom
    <2>1. due = 0
        BY <1>5 DEF HeapInv, RoadIsTaken
    <2>2. end <= Cap - Reserve
        BY <2>1, <1>5 DEF HeapInv, ReserveClosed
    <2> QED
        BY <2>2, <1>2, <1>5, <1>6 DEF Reserve, Page
<1>13. ReserveClosed' /\ RearmedWhenFree'
    BY <1>5 DEF ReserveClosed, RearmedWhenFree
<1>14. RoadIsTaken' /\ ServedMeansOpen' /\ RaisingIsDue'
    BY <1>5, <1>10 DEF HeapInv, RoadIsTaken, ServedMeansOpen, RaisingIsDue
<1> QED
    BY <1>8, <1>11, <1>12, <1>13, <1>14 DEF HeapInv

\* A request that is served leaves the top within what is committed, and the
\* reserve closed unless it was served from it.
LEMMA ServedFits ==
    ASSUME HeapInv, NEW n \in Nat, Carve(n),
           Fits(n) \/ FitsGrown(n) \/ FitsReserve(n)
    PROVE  /\ end' \in Nat /\ end' % Page = 0 /\ end' <= Cap
           /\ end <= end'
           /\ top' \in Nat /\ top' <= end' /\ top <= top'
           /\ Fits(n) \/ FitsGrown(n) => (end <= Cap - Reserve => end' <= Cap - Reserve)
           /\ FitsReserve(n) => end' = Cap
<1>1. TypeOK
    BY DEF HeapInv
<1>2. Cap \in Nat /\ Cap % Page = 0
    BY HeapAssumption
<1> DEFINE g == GrownFor(n)
<1>3. /\ g \in Nat /\ g % Page = 0 /\ end <= g /\ g <= Cap
      /\ end <= Cap - Reserve => g <= Cap - Reserve
    BY <1>1, GrowForRequest
<1>4. end \in Nat /\ end % Page = 0 /\ end <= Cap /\ top \in Nat /\ top' = top + n
    BY <1>1 DEF TypeOK, Carve
<1>5. Fits(n) => end' = end /\ top + n <= end
    BY DEF Fits
<1>6. FitsGrown(n) => end' = g /\ top + n <= g
    BY DEF FitsGrown
<1>7. FitsReserve(n) => end' = Cap /\ top + n <= Cap
    BY DEF FitsReserve
<1> HIDE DEF g
<1>8. CASE Fits(n)
    BY <1>8, <1>2, <1>4, <1>5, <1>7
<1>9. CASE FitsGrown(n)
    BY <1>9, <1>2, <1>3, <1>4, <1>6, <1>7 DEF Reserve, Page
<1>10. CASE FitsReserve(n) /\ ~Fits(n) /\ ~FitsGrown(n)
    BY <1>10, <1>2, <1>4, <1>7
<1> QED
    BY <1>8, <1>9, <1>10

LEMMA AllocInv ==
    ASSUME HeapInv, NEW n \in Sizes, Alloc(n)
    PROVE  HeapInv'
<1>1. n \in Nat
    BY HeapAssumption
<1>2. fate = "run" /\ ~raising
    BY DEF Alloc, Running
<1>3. CASE Fail(n)
    BY <1>1, <1>2, <1>3, FailInv
<1>4. CASE ~Fail(n)
    <2>1. /\ Carve(n)
          /\ raising' = raising /\ chance' = chance
          /\ \/ Fits(n) /\ due' = due /\ pending' = pending
             \/ FitsGrown(n) /\ pending' = TRUE /\ due' = due
             \/ FitsReserve(n) /\ pending' = TRUE /\ due' = 1
        BY <1>4 DEF Alloc
    <2>2. /\ end' \in Nat /\ end' % Page = 0 /\ end' <= Cap
          /\ end <= end'
          /\ top' \in Nat /\ top' <= end'
          /\ Fits(n) \/ FitsGrown(n) => (end <= Cap - Reserve => end' <= Cap - Reserve)
          /\ FitsReserve(n) => end' = Cap
        BY <1>1, <2>1, ServedFits
    <2>3. /\ live' = live /\ road' = road /\ fate' = fate /\ trapped' = trapped /\ last' = n
        BY <2>1 DEF Carve
    <2>4. TypeOK
        BY DEF HeapInv
    <2>5. due' \in 0..3 /\ pending' \in BOOLEAN
        <3>1. due \in 0..3 /\ (due' = due \/ due' = 1)
            BY <2>1, <2>4 DEF TypeOK
        <3>2. pending' \in BOOLEAN
            BY <2>1, <2>4, Zenon DEF TypeOK
        <3> QED
            BY <3>1, <3>2
    <2>6. TypeOK'
        BY <1>1, <2>1, <2>2, <2>3, <2>4, <2>5 DEF TypeOK
    <2>7. CASE (Fits(n) \/ FitsGrown(n)) /\ due' = due
        <3>1. ReserveClosed' /\ RearmedWhenFree'
            BY <2>1, <2>2, <2>3, <2>7 DEF HeapInv, ReserveClosed, RearmedWhenFree
        <3>2. ServedMeansOpen'
            BY <2>2, <2>4, <2>7, HeapAssumption DEF HeapInv, ServedMeansOpen, TypeOK
        <3>3. RoadIsTaken'
            BY <2>3, <2>7 DEF HeapInv, RoadIsTaken
        <3> QED
            BY <1>2, <2>1, <2>3, <2>6, <3>1, <3>2, <3>3
            DEF HeapInv, RaisingIsDue, CapIsCatchable, HandlerHasRoom
    <2>8. CASE FitsReserve(n) /\ due' = 1
        <3>1. road
            BY <2>8 DEF FitsReserve
        <3>2. RoadIsTaken'
            BY <2>3, <3>1 DEF HeapInv, RoadIsTaken
        <3> QED
            BY <1>2, <2>1, <2>2, <2>3, <2>6, <2>8, <3>2
            DEF HeapInv, ReserveClosed, ServedMeansOpen, RaisingIsDue, RearmedWhenFree,
                CapIsCatchable, HandlerHasRoom
    <2> QED
        BY <2>1, <2>7, <2>8
<1> QED
    BY <1>3, <1>4

LEMMA RaiseInv ==
    ASSUME HeapInv, Raise
    PROVE  HeapInv'
<1>1. Ball \in Nat
    BY HeapAssumption
<1>2. fate = "run" /\ raising
    BY DEF Raise
<1>3. CASE Fail(Ball)
    BY <1>1, <1>2, <1>3, FailInv
<1>4. CASE ~Fail(Ball)
    <2>1. /\ Carve(Ball)
          /\ Fits(Ball) \/ FitsGrown(Ball) \/ FitsReserve(Ball)
          /\ due' = 2 /\ pending' = TRUE /\ raising' = FALSE /\ chance' = FALSE
        BY <1>4 DEF Raise
    <2>2. /\ end' \in Nat /\ end' % Page = 0 /\ end' <= Cap
          /\ top' \in Nat /\ top' <= end'
        BY <1>1, <2>1, ServedFits
    <2>3. /\ live' = live /\ road' = road /\ fate' = fate /\ trapped' = trapped /\ last' = Ball
        BY <2>1 DEF Carve
    <2>4. TypeOK'
        <3>1. due' \in 0..3 /\ last' \in Nat
            BY <1>1, <2>1, <2>3
        <3>2. pending' \in BOOLEAN /\ raising' \in BOOLEAN /\ chance' \in BOOLEAN
            BY <2>1
        <3> QED
            BY <2>2, <2>3, <3>1, <3>2 DEF HeapInv, TypeOK
    <2>5. RoadIsTaken'
        BY <1>2, <2>3 DEF HeapInv, RaisingIsDue, RoadIsTaken
    <2> QED
        BY <1>2, <2>1, <2>3, <2>4, <2>5
        DEF HeapInv, ReserveClosed, ServedMeansOpen, RaisingIsDue, RearmedWhenFree,
            CapIsCatchable, HandlerHasRoom
<1> QED
    BY <1>3, <1>4

LEMMA PollInv ==
    ASSUME HeapInv, NEW kept \in Nat, kept <= top, NEW resumable \in BOOLEAN,
           Poll(kept, resumable)
    PROVE  HeapInv'
<1> DEFINE e == EndRearmed(kept)
           g == Grown(e, kept, 0)
<1>1. Cap \in Nat /\ Cap % Page = 0
    BY HeapAssumption
<1>2. /\ end \in Nat /\ end % Page = 0 /\ end <= Cap /\ top \in Nat /\ top <= end
      /\ due \in 0..3
    BY DEF HeapInv, TypeOK
<1>3. e = IF Rearms(kept) THEN Cap - Reserve ELSE end
    BY DEF EndRearmed
<1>4. Rearms(kept) <=> (due \in {1, 2} /\ end = Cap /\ PageFree(kept))
    BY DEF Rearms
<1>5. PageFree(kept) <=> kept + Reserve <= Cap
    BY DEF PageFree
<1>6. /\ fate = "run" /\ ~raising
      /\ top' = kept /\ live' = kept /\ pending' = FALSE
      /\ end' = IF NearlyFull(e, kept) THEN g ELSE e
      /\ due' = IF Rearms(kept) THEN 0 ELSE due
      /\ raising' = (resumable /\ due' \in {1, 3})
      /\ chance' = (chance \/ PageFree(kept))
      /\ road' = road /\ fate' = fate /\ last' = last /\ trapped' = trapped
    BY DEF Poll, Running
<1> HIDE DEF e
<1>7. e \in Nat /\ e % Page = 0 /\ e <= Cap /\ kept <= e
    BY <1>1, <1>2, <1>3, <1>4, <1>5 DEF Reserve, Page
<1>8. /\ g \in Nat /\ g % Page = 0 /\ e <= g /\ g <= Cap
      /\ e <= Cap - Reserve => g <= Cap - Reserve
      /\ e > Cap - Reserve => e = Cap /\ g = e
    BY <1>7, GrowKeepsTheReserve
<1> HIDE DEF g
<1>9. /\ end' \in Nat /\ end' % Page = 0 /\ end' <= Cap /\ kept <= end' /\ e <= end'
      /\ e <= Cap - Reserve => end' <= Cap - Reserve
      /\ e > Cap - Reserve => end' = Cap
    BY <1>1, <1>6, <1>7, <1>8 DEF Reserve, Page
<1>10. due' \in 0..3
    BY <1>2, <1>6
<1>11. raising' \in BOOLEAN /\ chance' \in BOOLEAN
    BY <1>6 DEF HeapInv, TypeOK, PageFree
<1>12. TypeOK'
    BY <1>6, <1>9, <1>10, <1>11 DEF HeapInv, TypeOK
<1>13. ReserveClosed'
    <2>1. CASE Rearms(kept)
        BY <2>1, <1>1, <1>3, <1>9 DEF ReserveClosed, Reserve, Page
    <2>2. CASE ~Rearms(kept)
        BY <2>2, <1>1, <1>3, <1>6, <1>9 DEF HeapInv, ReserveClosed
    <2> QED
        BY <2>1, <2>2
<1>14. RoadIsTaken'
    BY <1>6 DEF HeapInv, RoadIsTaken
<1>15. due' = 1 => due = 1 /\ end = Cap /\ ~PageFree(kept) /\ e = Cap
    BY <1>3, <1>4, <1>6 DEF HeapInv, ServedMeansOpen
<1>16. ServedMeansOpen'
    BY <1>1, <1>9, <1>15 DEF ServedMeansOpen, Reserve, Page
<1>17. RaisingIsDue'
    <2> SUFFICES ASSUME raising'
                 PROVE  due' \in {1, 3} /\ (due' = 1 => top' + Reserve > Cap)
        BY DEF RaisingIsDue
    <2>1. due' \in {1, 3}
        BY <1>6
    <2>2. due' = 1 => ~(kept + Reserve <= Cap)
        BY <1>5, <1>15
    <2> QED
        BY <2>1, <2>2, <1>1, <1>6 DEF Reserve, Page
<1>18. RearmedWhenFree'
    <2> SUFFICES ASSUME due' = 2, chance' PROVE end' <= Cap - Reserve
        BY DEF RearmedWhenFree
    <2>1. due = 2 /\ ~Rearms(kept) /\ e = end
        BY <1>3, <1>6
    <2>2. end <= Cap - Reserve
        <3>1. CASE chance
            BY <3>1, <2>1, <1>6 DEF HeapInv, RearmedWhenFree
        <3>2. CASE PageFree(kept)
            <4>1. end # Cap
                BY <3>2, <2>1, <1>4
            <4> QED
                BY <4>1, <1>1, <1>2 DEF Reserve, Page
        <3> QED
            BY <3>1, <3>2, <1>6
    <2> QED
        BY <2>1, <2>2, <1>9
<1> QED
    BY <1>6, <1>12, <1>13, <1>14, <1>16, <1>17, <1>18
    DEF HeapInv, CapIsCatchable, HandlerHasRoom

LEMMA StepInv ==
    HeapInv /\ [Next]_vars => HeapInv'
<1> SUFFICES ASSUME HeapInv, [Next]_vars PROVE HeapInv'
    OBVIOUS
<1>1. CASE \E n \in Sizes : Alloc(n)
    BY <1>1, AllocInv
<1>2. CASE AskRefused
    <2>1. /\ fate = "run" /\ ~raising /\ road /\ due' = 3 /\ pending' = TRUE
          /\ top' = top /\ end' = end /\ live' = live /\ raising' = raising
          /\ road' = road /\ fate' = fate /\ last' = last /\ trapped' = trapped
          /\ chance' = chance
        BY <1>2 DEF AskRefused, Running
    <2>2. due' \in 0..3
        BY <2>1
    <2>3. TypeOK'
        BY <2>1, <2>2, Zenon DEF HeapInv, TypeOK
    <2> QED
        BY <2>1, <2>3
        DEF HeapInv, ReserveClosed, RoadIsTaken, ServedMeansOpen, RaisingIsDue,
            RearmedWhenFree, CapIsCatchable, HandlerHasRoom
<1>3. CASE Request
    <2>1. /\ pending' = TRUE
          /\ UNCHANGED <<top, end, live, due, raising, road, fate, last, trapped, chance>>
        BY <1>3 DEF Request
    <2>2. TypeOK'
        BY <2>1, Zenon DEF HeapInv, TypeOK
    <2> QED
        BY <2>1, <2>2
        DEF HeapInv, ReserveClosed, RoadIsTaken, ServedMeansOpen, RaisingIsDue,
            RearmedWhenFree, CapIsCatchable, HandlerHasRoom
<1>4. ASSUME NEW kept \in {k \in Kept : k <= top} \cup {top}, NEW resumable \in BOOLEAN,
             Poll(kept, resumable)
      PROVE  HeapInv'
    <2>1. top \in Nat
        BY DEF HeapInv, TypeOK
    <2>2. kept \in Nat /\ kept <= top
        BY <2>1, HeapAssumption
    <2> QED
        BY <1>4, <2>2, PollInv
<1>5. CASE Raise
    BY <1>5, RaiseInv
<1>6. CASE Trap
    <2>1. /\ fate = "error" /\ ~road /\ fate' = "run" /\ trapped' = TRUE
          /\ top' = top /\ end' = end /\ live' = live /\ due' = due
          /\ pending' = pending /\ raising' = raising /\ road' = road /\ last' = last
          /\ chance' = chance
        BY <1>6 DEF Trap
    <2>2. TypeOK'
        BY <2>1, Zenon DEF HeapInv, TypeOK
    <2>3. due = 0
        BY <2>1 DEF HeapInv, RoadIsTaken
    <2> QED
        BY <2>1, <2>2, <2>3
        DEF HeapInv, ReserveClosed, RoadIsTaken, ServedMeansOpen, RaisingIsDue,
            RearmedWhenFree, CapIsCatchable, HandlerHasRoom
<1>7. CASE UNCHANGED vars
    BY <1>7
    DEF vars, HeapInv, TypeOK, ReserveClosed, RoadIsTaken, ServedMeansOpen, RaisingIsDue,
        RearmedWhenFree, CapIsCatchable, HandlerHasRoom
<1> QED
    BY <1>1, <1>2, <1>3, <1>4, <1>5, <1>6, <1>7 DEF Next

(***************************************************************************)
(* The invariant, for every window smaller than the cap, every size of     *)
(* request and whatever the collections leave.                             *)
(***************************************************************************)
THEOREM Invariance ==
    ASSUME Window < Cap
    PROVE  Spec => []HeapInv
<1>1. HeapInv /\ [Next]_vars => HeapInv'
    BY StepInv
<1>2. Init => HeapInv
    BY InitInv
<1> QED
    BY <1>1, <1>2, PTL DEF Spec

\* The state has its types (gc_heap.c).
THEOREM TypeCorrect ==
    ASSUME Window < Cap
    PROVE  Spec => []TypeOK
<1>1. HeapInv => TypeOK
    BY DEF HeapInv
<1> QED
    BY <1>1, Invariance, PTL

\* Exhaustion is catchable where there is a road, but for requests larger
\* than the reserve and for a second error before the page was free again
\* (c_rt_gcheap_alloc, gc_cap_rearm).
THEOREM ExhaustionIsCatchable ==
    ASSUME Window < Cap
    PROVE  Spec => []CapIsCatchable
<1>1. HeapInv => CapIsCatchable
    BY DEF HeapInv
<1> QED
    BY <1>1, Invariance, PTL

\* The handler of the first error 204 has the whole reserve
\* (c_rt_gcheap_alloc, rt_gcheap_grow).
THEOREM HandlerFindsTheReserve ==
    ASSUME Window < Cap
    PROVE  Spec => []HandlerHasRoom
<1>1. HeapInv => HandlerHasRoom
    BY DEF HeapInv
<1> QED
    BY <1>1, Invariance, PTL

\* No resource error is raised for a request that fitted after all
\* (gc_cap_rearm, rt_pl_cap_raise).
THEOREM RaisesAreDue ==
    ASSUME Window < Cap
    PROVE  Spec => NotRaisedInVain
<1>1. HeapInv /\ [Next]_vars => [(due = 1 /\ due' = 2) => top + Reserve > Cap]_vars
    <2> SUFFICES ASSUME HeapInv, Next, due = 1, due' = 2
                 PROVE  top + Reserve > Cap
        BY DEF vars
    <2>1. CASE Raise
        BY <2>1 DEF Raise, HeapInv, RaisingIsDue
    <2>2. ASSUME NEW n \in Sizes, Alloc(n) PROVE FALSE
        BY <2>2 DEF Alloc, Fail
    <2>3. ASSUME NEW kept, NEW resumable, Poll(kept, resumable) PROVE FALSE
        BY <2>3 DEF Poll
    <2>4. ~AskRefused /\ ~Request /\ ~Trap
        BY DEF AskRefused, Request, Trap
    <2> QED
        BY <2>1, <2>2, <2>3, <2>4 DEF Next
<1> QED
    BY <1>1, Invariance, PTL DEF Spec, NotRaisedInVain

================================================================================
