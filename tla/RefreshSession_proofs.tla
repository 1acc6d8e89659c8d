------------------------ MODULE RefreshSession_proofs ------------------------
(***************************************************************************)
(* The safety properties of RefreshSession for any number of sessions and  *)
(* requests, any ttl, grace period and bound.                              *)
(***************************************************************************)
EXTENDS RefreshSession, TLAPS

At(h, pc) == handler[h].pc = pc

\* A cookie belongs to a session that exists.
CookieOfSession ==
  \A s \in Sessions, g \in Generations : <<s, g>> \in cookies => status[s] # "none"

\* Whoever refreshes presented a cookie that some client received.
RefreshersHaveCookies ==
  \A h \in Handlers : At(h, "rotate") \/ At(h, "inspect") \/ At(h, "revoke") =>
    <<handler[h].sid, handler[h].gen>> \in cookies

\* A rotation misses because the session has ended or because another one won,
\* and neither is undone.
MissedForAReason ==
  \A h \in Handlers : At(h, "inspect") =>
    ~IsLive(handler[h].sid) \/ generation[handler[h].sid] > handler[h].gen

\* Sweeps are numbered as they begin, and no session was created after more.
SweepsAreNumbered ==
  /\ swept <= sweeps /\ closed <= swept
  /\ \A s \in Sessions : era[s] <= sweeps
  /\ \A h \in Handlers : At(h, "swept") => handler[h].sweep <= sweeps

\* An open reset or closing holds every live session that was created before
\* its UPDATE of refresh_sessions: what is not in rows is younger.
SweepsHoldTheirRows ==
  \A h \in Handlers : At(h, "swept") =>
    \A s \in Sessions :
      status[s] = "live" /\ era[s] < handler[h].sweep => s \in handler[h].rows

\* Whoever passed the check of the user before the account closed holds a
\* cookie that was issued before that.
ClosedMeansNoNewCookies ==
  ~active => \A h \in Handlers : At(h, "rotate") => handler[h].gen <= final[handler[h].sid]

IInv ==
  /\ TypeOK
  /\ OneRotationPerGeneration
  /\ ResetReachesEverySession
  /\ CookieOfSession
  /\ RefreshersHaveCookies
  /\ MissedForAReason
  /\ ReuseMeansSuperseded
  /\ SweepsAreNumbered
  /\ SweepsHoldTheirRows
  /\ ClosedMeansNoNewCookies
  /\ ClosedAccountStopsRotating

-----------------------------------------------------------------------------
\* The inductive invariant holds before the first login.
LEMMA InitEstablishes == Init => IInv
  <1> SUFFICES ASSUME Init PROVE IInv
    OBVIOUS
  <1> USE SessionAssumption DEF Init
  <1>1. TypeOK
    BY DEF TypeOK, Generations, Times, Sweeps, Requests
  <1>2. OneRotationPerGeneration /\ ResetReachesEverySession /\ CookieOfSession
    BY DEF OneRotationPerGeneration, ResetReachesEverySession, CookieOfSession, Generations
  <1>3. RefreshersHaveCookies /\ MissedForAReason /\ ReuseMeansSuperseded
    BY DEF RefreshersHaveCookies, MissedForAReason, ReuseMeansSuperseded, At, Idle
  <1>4. SweepsAreNumbered /\ SweepsHoldTheirRows
    BY DEF SweepsAreNumbered, SweepsHoldTheirRows, At, Idle
  <1>5. ClosedMeansNoNewCookies /\ ClosedAccountStopsRotating
    BY DEF ClosedMeansNoNewCookies, ClosedAccountStopsRotating
  <1> QED
    BY <1>1, <1>2, <1>3, <1>4, <1>5 DEF IInv

\* What a handler carries when it refreshes.
LEMMA Carried ==
  ASSUME TypeOK, NEW h \in Handlers,
         At(h, "rotate") \/ At(h, "inspect") \/ At(h, "revoke")
  PROVE  /\ handler[h] \in Refreshing
         /\ handler[h].sid \in Sessions /\ handler[h].gen \in Generations
         /\ handler[h].since \in Nat
  <1>1. handler[h] \in Requests
    BY DEF TypeOK
  <1>2. handler[h] \in Refreshing
    BY <1>1 DEF At, Idle, Requests, LoggingIn, Ending, Refreshing
  <1> QED
    BY <1>2, SessionAssumption DEF Refreshing, Times

\* What a handler carries while its reset or closing is about to commit.
LEMMA SweptCarries ==
  ASSUME TypeOK, NEW h \in Handlers, At(h, "swept")
  PROVE  /\ handler[h].kind \in Kinds
         /\ handler[h].rows \in SUBSET Sessions
         /\ handler[h].sweep \in Sweeps /\ handler[h].sweep \in Nat
  <1>1. handler[h] \in Requests
    BY DEF TypeOK
  <1>2. handler[h] \in [pc : {"swept"}, kind : Kinds, rows : SUBSET Sessions, sweep : Sweeps]
    BY <1>1 DEF At, Idle, Requests, LoggingIn, Ending, Refreshing
  <1> QED
    BY <1>2, SessionAssumption DEF Sweeps

\* A request that ends carries nothing.
LEMMA FinishedIsIdle ==
  ASSUME TypeOK, NEW h \in Handlers, Finish(h)
  PROVE  /\ handler' \in [Handlers -> Requests]
         /\ handler'[h] = Idle
         /\ \A i \in Handlers \ {h} : handler'[i] = handler[i]
         /\ \A i \in Handlers : \A pc \in {"rotate", "inspect", "revoke", "swept"} :
              At(i, pc)' => i # h /\ At(i, pc) /\ handler'[i] = handler[i]
  <1>1. Idle \in Requests /\ Idle.pc = "idle"
    BY DEF Requests, Idle
  <1> QED
    BY <1>1 DEF TypeOK, Finish, At

-----------------------------------------------------------------------------
(* Steps that only move a request along *)

\* What a request may carry when it arrives at a step.
Arrives(r) ==
  /\ r.pc \in {"rotate", "inspect", "revoke"} => <<r.sid, r.gen>> \in cookies
  /\ r.pc = "rotate" => active
  /\ r.pc = "inspect" => ~IsLive(r.sid) \/ generation[r.sid] > r.gen
  /\ r.pc = "revoke" =>
       /\ generation[r.sid] > r.gen
       /\ generation[r.sid] = r.gen + 1 => now > rotated[r.sid] + Grace
  /\ r.pc = "swept" =>
       /\ r.sweep <= sweeps'
       /\ \A s \in Sessions : status[s] = "live" /\ era[s] < r.sweep => s \in r.rows

\* Moving one request, and numbering a sweep, preserves the invariant.
LEMMA MovePreserves ==
  ASSUME IInv, NEW h \in Handlers, NEW r \in Requests, Arrives(r),
         handler' = [handler EXCEPT ![h] = r],
         UNCHANGED <<now, active, rowVars, cookies, wins, era, swept, closed, final>>,
         sweeps' \in Sweeps, sweeps' >= sweeps
  PROVE  IInv'
  <1> USE DEF IInv, rowVars
  <1>1. /\ handler' \in [Handlers -> Requests]
        /\ handler'[h] = r
        /\ \A i \in Handlers \ {h} : handler'[i] = handler[i]
    BY DEF TypeOK
  <1>2. TypeOK'
    BY <1>1 DEF TypeOK
  <1>3. OneRotationPerGeneration' /\ ResetReachesEverySession' /\ CookieOfSession'
        /\ ClosedAccountStopsRotating'
    BY DEF OneRotationPerGeneration, ResetReachesEverySession, CookieOfSession,
           ClosedAccountStopsRotating
  <1>4. RefreshersHaveCookies'
    BY <1>1 DEF RefreshersHaveCookies, At, Arrives
  <1>5. MissedForAReason' /\ ReuseMeansSuperseded'
    BY <1>1 DEF MissedForAReason, ReuseMeansSuperseded, At, Arrives, IsLive
  <1>6. SweepsAreNumbered'
    <2>1. sweeps \in Nat /\ sweeps' \in Nat /\ swept \in Nat
          /\ \A s \in Sessions : era[s] \in Nat
      BY SessionAssumption DEF TypeOK, Sweeps
    <2>2. swept' <= sweeps' /\ closed' <= swept' /\ \A s \in Sessions : era'[s] <= sweeps'
      BY <2>1 DEF SweepsAreNumbered
    <2>3. ASSUME NEW i \in Handlers, At(i, "swept")' PROVE handler'[i].sweep <= sweeps'
      <3>1. CASE i = h
        BY <1>1, <2>3, <3>1 DEF Arrives, At
      <3>2. CASE i # h
        <4>1. At(i, "swept") /\ handler'[i] = handler[i]
          BY <1>1, <2>3, <3>2 DEF At
        <4>2. handler[i].sweep \in Nat /\ handler[i].sweep <= sweeps
          BY <4>1, SweptCarries DEF SweepsAreNumbered
        <4> QED
          BY <2>1, <4>1, <4>2
      <3> QED
        BY <3>1, <3>2
    <2> QED
      BY <2>2, <2>3 DEF SweepsAreNumbered
  <1>7. SweepsHoldTheirRows'
    BY <1>1 DEF SweepsHoldTheirRows, At, Arrives
  <1>8. ClosedMeansNoNewCookies'
    BY <1>1 DEF ClosedMeansNoNewCookies, At, Arrives
  <1> QED
    BY <1>2, <1>3, <1>4, <1>5, <1>6, <1>7, <1>8

\* A rotation misses, and its session is looked at: the refresh carries the
\* same cookie along.
LEMMA MissPreserves ==
  ASSUME IInv, NEW h \in Handlers, RotateMisses(h) \/ (Inspects(h) /\ ~Finish(h))
  PROVE  IInv'
  <1> DEFINE s == handler[h].sid
             g == handler[h].gen
             To(pc) == [handler[h] EXCEPT !.pc = pc]
  <1>1. At(h, "rotate") \/ At(h, "inspect")
    BY DEF RotateMisses, Inspects, At
  <1>2. /\ handler[h] \in Refreshing /\ s \in Sessions /\ g \in Generations
        /\ <<s, g>> \in cookies
    BY <1>1, Carried DEF IInv, RefreshersHaveCookies
  <1>3. \A pc \in {"inspect", "revoke"} :
          /\ To(pc) \in Requests /\ To(pc).pc = pc
          /\ To(pc).sid = s /\ To(pc).gen = g
    BY <1>2 DEF Requests, Refreshing
  <1>4. /\ UNCHANGED <<now, active, rowVars, cookies, wins, era, swept, closed, final>>
        /\ sweeps' = sweeps /\ sweeps' \in Sweeps /\ sweeps' >= sweeps
    BY SessionAssumption DEF RotateMisses, Inspects, sweepVars, IInv, TypeOK, Sweeps
  <1>5. /\ now \in Nat /\ expires[s] \in Nat /\ rotated[s] + Grace \in Nat
        /\ generation[s] \in Nat /\ g \in Nat
    <2>1. /\ now \in Times /\ expires \in [Sessions -> Nat] /\ rotated \in [Sessions -> Nat]
          /\ generation \in [Sessions -> Generations]
      BY DEF IInv, TypeOK
    <2> HIDE DEF s, g
    <2> QED
      BY <1>2, <2>1, SessionAssumption DEF Times, Generations
  <1>6. CASE RotateMisses(h)
    <2>1. PICK at \in handler[h].since .. now : ~Rotatable(s, g, at)
      BY <1>6 DEF RotateMisses
    <2>2. at \in Nat /\ at <= now
      BY <1>1, <1>5, Carried DEF IInv
    <2>3. g <= generation[s]
      BY <1>2 DEF IInv, OneRotationPerGeneration
    <2>4. ~IsLive(s) \/ generation[s] > g
      BY <1>5, <2>1, <2>2, <2>3 DEF Rotatable, IsLive
    <2>5. Arrives(To("inspect"))
      BY <1>2, <1>3, <2>4 DEF Arrives
    <2>6. handler' = [handler EXCEPT ![h] = To("inspect")]
      BY <1>6 DEF RotateMisses
    <2> QED
      BY <1>3, <1>4, <2>5, <2>6, MovePreserves
  <1>7. CASE Inspects(h) /\ ~Finish(h)
    <2>1. /\ At(h, "inspect") /\ IsLive(s) /\ ~WasJustRotatedFrom(s, g)
          /\ handler' = [handler EXCEPT ![h] = To("revoke")]
      BY <1>7 DEF Inspects, At
    <2>2. generation[s] > g
      BY <2>1 DEF IInv, MissedForAReason
    <2>3. generation[s] = g + 1 => now > rotated[s] + Grace
      BY <1>5, <2>1 DEF WasJustRotatedFrom
    <2>4. Arrives(To("revoke"))
      BY <1>2, <1>3, <2>2, <2>3 DEF Arrives
    <2> QED
      BY <1>3, <1>4, <2>1, <2>4, MovePreserves
  <1> QED
    BY <1>6, <1>7

\* A request starts, goes on to its next statement, or ends.
LEMMA MovesPreserve ==
  ASSUME IInv, NEW h \in Handlers,
         \/ LoginReads(h) \/ RotateMisses(h) \/ Inspects(h) \/ Abandons(h)
         \/ \E s \in Sessions, g \in Generations : RefreshStarts(h, s, g)
         \/ ResetReads(h) \/ StagesUser(h) \/ SweepsSessions(h)
  PROVE  IInv'
  <1>1. /\ UNCHANGED <<now, active, rowVars, cookies, wins, era, swept, closed, final>>
        /\ sweeps' = sweeps \/ SweepsSessions(h)
    BY DEF LoginReads, RotateMisses, Inspects, Abandons, RefreshStarts, ResetReads,
           StagesUser, SweepsSessions, sweepVars
  <1>2. /\ sweeps \in Sweeps /\ sweeps \in Nat /\ now \in Times
        /\ sweeps' = sweeps => sweeps' \in Sweeps /\ sweeps' >= sweeps
    BY SessionAssumption DEF IInv, TypeOK, Sweeps
  <1>3. CASE LoginReads(h)
    <2> DEFINE r == [pc |-> "create", since |-> now]
    <2>1. r \in Requests /\ Arrives(r)
      BY <1>2 DEF Requests, LoggingIn, Arrives
    <2>2. handler' = [handler EXCEPT ![h] = r] /\ sweeps' = sweeps
      BY <1>3 DEF LoginReads, sweepVars
    <2> HIDE DEF r
    <2> QED
      BY <1>1, <1>2, <2>1, <2>2, MovePreserves
  <1>4. CASE Finish(h) /\ sweeps' = sweeps
    <2>1. Idle \in Requests /\ Arrives(Idle)
      BY DEF Requests, Arrives, Idle
    <2>2. handler' = [handler EXCEPT ![h] = Idle]
      BY <1>4 DEF Finish
    <2> QED
      BY <1>1, <1>2, <1>4, <2>1, <2>2, MovePreserves
  <1>5. ASSUME NEW s \in Sessions, NEW g \in Generations, RefreshStarts(h, s, g)
        PROVE  IInv'
    <2> DEFINE r == [pc |-> "rotate", since |-> now, sid |-> s, gen |-> g]
    <2>1. r \in Requests
      BY <1>2 DEF Requests, Refreshing
    <2>2. Arrives(r)
      BY <1>5 DEF Arrives, RefreshStarts, AdmitsUser
    <2>3. handler' = [handler EXCEPT ![h] = r] /\ sweeps' = sweeps
      BY <1>5 DEF RefreshStarts, sweepVars
    <2> HIDE DEF r
    <2> QED
      BY <1>1, <1>2, <2>1, <2>2, <2>3, MovePreserves
  <1>6. CASE ResetReads(h)
    <2> DEFINE r == [pc |-> "reset"]
    <2>1. r \in Requests /\ Arrives(r)
      BY DEF Requests, Ending, Arrives
    <2>2. handler' = [handler EXCEPT ![h] = r] /\ sweeps' = sweeps
      BY <1>6 DEF ResetReads, sweepVars
    <2> HIDE DEF r
    <2> QED
      BY <1>1, <1>2, <2>1, <2>2, MovePreserves
  <1>7. CASE StagesUser(h)
    <2>1. PICK kind \in Kinds : handler' = [handler EXCEPT ![h] = [pc |-> "staged", kind |-> kind]]
      BY <1>7 DEF StagesUser
    <2> DEFINE r == [pc |-> "staged", kind |-> kind]
    <2>2. r \in Requests /\ Arrives(r)
      BY DEF Requests, Ending, Arrives
    <2>3. handler' = [handler EXCEPT ![h] = r] /\ sweeps' = sweeps
      BY <1>7, <2>1 DEF StagesUser, sweepVars
    <2> HIDE DEF r
    <2> QED
      BY <1>1, <1>2, <2>2, <2>3, MovePreserves
  <1>8. CASE SweepsSessions(h)
    <2> DEFINE r == [pc |-> "swept", kind |-> handler[h].kind, rows |-> SessionsOfUser,
                     sweep |-> sweeps + 1]
    <2>1. handler[h].kind \in Kinds
      <3>1. handler[h] \in Requests /\ At(h, "staged")
        BY <1>8 DEF SweepsSessions, At, IInv, TypeOK
      <3> QED
        BY <3>1 DEF At, Idle, Requests, LoggingIn, Refreshing, Ending
    <2>2. sweeps' = sweeps + 1 /\ sweeps' \in Sweeps /\ sweeps' >= sweeps
      BY <1>2, <1>8, SessionAssumption DEF SweepsSessions, Sweeps
    <2>3. r \in Requests
      BY <2>1, <2>2 DEF Requests, Ending, SessionsOfUser
    <2>4. Arrives(r)
      BY <2>2 DEF Arrives, SessionsOfUser
    <2>5. handler' = [handler EXCEPT ![h] = r]
      BY <1>8 DEF SweepsSessions
    <2> HIDE DEF r
    <2> QED
      BY <1>1, <2>2, <2>3, <2>4, <2>5, MovePreserves
  <1>9. CASE RotateMisses(h) \/ (Inspects(h) /\ ~Finish(h))
    BY <1>9, MissPreserves
  <1>10. CASE (Inspects(h) /\ Finish(h)) \/ Abandons(h)
    BY <1>4, <1>10 DEF Inspects, Abandons, sweepVars
  <1> QED
    BY <1>3, <1>5, <1>6, <1>7, <1>8, <1>9, <1>10

-----------------------------------------------------------------------------
(* Steps that write a session's row *)

\* A login creates a session nobody has a cookie of, younger than any sweep.
LEMMA LoginPreserves ==
  ASSUME IInv, NEW h \in Handlers, LoginCreates(h)
  PROVE  IInv'
  <1> USE DEF IInv
  <1>1. PICK s \in Sessions, at \in handler[h].since .. now :
          /\ status[s] = "none"
          /\ status' = [status EXCEPT ![s] = "live"]
          /\ expires' = [expires EXCEPT ![s] = at + TTL]
          /\ era' = [era EXCEPT ![s] = sweeps]
          /\ cookies' \in {cookies, cookies \cup {<<s, 0>>}}
    BY DEF LoginCreates, Deliver
  <1>2. UNCHANGED <<now, active, generation, rotated, wins, sweeps, swept, closed, final>>
        /\ Finish(h)
    BY DEF LoginCreates
  <1>3. /\ handler' \in [Handlers -> Requests]
        /\ \A i \in Handlers : \A pc \in {"rotate", "inspect", "revoke", "swept"} :
             At(i, pc)' => At(i, pc) /\ handler'[i] = handler[i]
    BY <1>2, FinishedIsIdle
  <1>4. at + TTL \in Nat
    <2>1. handler[h] \in Requests /\ handler[h].pc = "create"
      BY DEF LoginCreates, TypeOK
    <2>2. handler[h] \in LoggingIn
      BY <2>1 DEF Requests, Idle, LoggingIn, Refreshing, Ending
    <2>3. handler[h].since \in Nat /\ now \in Nat
      BY <2>2, SessionAssumption DEF LoggingIn, TypeOK, Times
    <2> QED
      BY <2>3, SessionAssumption
  <1>5. TypeOK'
    <2>1. cookies' \in SUBSET (Sessions \X Generations)
      <3>1. <<s, 0>> \in Sessions \X Generations
        BY SessionAssumption DEF Generations
      <3> QED
        BY <1>1, <3>1 DEF TypeOK
    <2>2. /\ status' \in [Sessions -> {"none", "live", "revoked", "purged"}]
          /\ expires' \in [Sessions -> Nat]
          /\ era' \in [Sessions -> Sweeps]
      BY <1>1, <1>4 DEF TypeOK
    <2> QED
      BY <1>2, <1>3, <2>1, <2>2 DEF TypeOK
  <1>6. /\ era'[s] = sweeps /\ status'[s] = "live"
        /\ \A t \in Sessions \ {s} : era'[t] = era[t] /\ status'[t] = status[t]
                                       /\ expires'[t] = expires[t]
        /\ sweeps \in Nat /\ swept \in Nat /\ closed \in Nat
        /\ \A t \in Sessions : era[t] \in Nat /\ generation[t] \in Nat /\ final[t] \in Nat
    BY <1>1, SessionAssumption DEF TypeOK, Sweeps, Generations
  <1>7. swept <= sweeps /\ closed <= sweeps
    BY <1>6 DEF SweepsAreNumbered
  <1>8. OneRotationPerGeneration'
    <2>1. \A t \in Sessions, f \in Generations :
            <<t, f>> \in cookies' => <<t, f>> \in cookies \/ f = 0
      BY <1>1
    <2>2. \A t \in Sessions, f \in Generations : <<t, f>> \in cookies' => f <= generation[t]
      BY <1>6, <2>1 DEF OneRotationPerGeneration
    <2> QED
      BY <1>2, <2>2 DEF OneRotationPerGeneration
  <1>9. ResetReachesEverySession' /\ CookieOfSession'
    <2>1. \A t \in Sessions : status'[t] = "live" => era'[t] >= swept
      BY <1>6, <1>7 DEF ResetReachesEverySession
    <2>2. \A t \in Sessions, f \in Generations :
            <<t, f>> \in cookies' => <<t, f>> \in cookies \/ t = s
      BY <1>1
    <2>3. CookieOfSession'
      BY <1>6, <2>2 DEF CookieOfSession
    <2> QED
      BY <1>2, <2>1, <2>3 DEF ResetReachesEverySession
  <1>10. SweepsAreNumbered'
    BY <1>2, <1>3, <1>6 DEF SweepsAreNumbered
  <1>11. SweepsHoldTheirRows'
    <2> SUFFICES ASSUME NEW i \in Handlers, At(i, "swept")', NEW t \in Sessions,
                        status'[t] = "live", era'[t] < handler'[i].sweep
                 PROVE  t \in handler'[i].rows
      BY DEF SweepsHoldTheirRows
    <2>1. At(i, "swept") /\ handler'[i] = handler[i]
      BY <1>3
    <2>2. handler[i].sweep \in Nat /\ handler[i].sweep <= sweeps
      BY <2>1, SweptCarries DEF SweepsAreNumbered
    <2>3. t # s
      BY <1>6, <2>1, <2>2
    <2> QED
      BY <1>6, <2>1, <2>3 DEF SweepsHoldTheirRows
  <1>12. \A i \in Handlers :
           At(i, "rotate") \/ At(i, "inspect") \/ At(i, "revoke") =>
             handler[i].sid \in Sessions \ {s}
    BY <1>1, Carried DEF RefreshersHaveCookies, CookieOfSession
  <1>13. RefreshersHaveCookies' /\ ClosedMeansNoNewCookies'
    <2>1. cookies \subseteq cookies'
      BY <1>1
    <2>2. RefreshersHaveCookies'
      BY <1>3, <2>1 DEF RefreshersHaveCookies
    <2>3. ClosedMeansNoNewCookies'
      BY <1>2, <1>3 DEF ClosedMeansNoNewCookies
    <2> QED
      BY <2>2, <2>3
  <1>14. MissedForAReason'
    BY <1>2, <1>3, <1>6, <1>12 DEF MissedForAReason, IsLive
  <1>15. ReuseMeansSuperseded'
    BY <1>2, <1>3 DEF ReuseMeansSuperseded, At
  <1>16. ClosedAccountStopsRotating'
    <2> SUFFICES ASSUME ~active, NEW t \in Sessions
                 PROVE  generation[t] <= IF era'[t] < closed THEN final[t] ELSE final[t] + 1
      BY <1>2 DEF ClosedAccountStopsRotating
    <2>1. generation[t] <= IF era[t] < closed THEN final[t] ELSE final[t] + 1
      BY DEF ClosedAccountStopsRotating
    <2> QED
      BY <1>6, <1>7, <2>1
  <1> QED
    BY <1>5, <1>8, <1>9, <1>10, <1>11, <1>13, <1>14, <1>15, <1>16

\* The rotation that wins moves its session to the next generation.
LEMMA RotatePreserves ==
  ASSUME IInv, NEW h \in Handlers, Rotates(h)
  PROVE  IInv'
  <1> USE DEF IInv
  <1> DEFINE s == handler[h].sid
             g == handler[h].gen
  <1>1. s \in Sessions /\ g \in Generations /\ <<s, g>> \in cookies /\ At(h, "rotate")
        /\ handler[h].since \in Nat
    BY Carried DEF Rotates, RefreshersHaveCookies, At
  <1>2. PICK at \in handler[h].since .. now :
          Rotatable(s, g, at) /\ rotated' = [rotated EXCEPT ![s] = at]
    BY DEF Rotates
  <1>3. /\ status[s] = "live" /\ generation[s] = g /\ g < MaxGen
        /\ generation' = [generation EXCEPT ![s] = @ + 1]
        /\ wins' = [wins EXCEPT ![s][g] = @ + 1]
        /\ cookies' \in {cookies, cookies \cup {<<s, g + 1>>}}
        /\ Finish(h)
        /\ UNCHANGED <<now, active, status, expires, sweeps, era, swept, closed, final>>
    BY <1>2 DEF Rotates, Rotatable, Deliver, sweepVars
  <1>4. at \in Nat
    <2>1. now \in Nat
      BY SessionAssumption DEF TypeOK, Times
    <2> QED
      BY <1>1, <1>2, <2>1
  <1> HIDE DEF s, g
  <1>5. g + 1 \in Generations /\ g \in Nat
    BY <1>1, <1>3, SessionAssumption DEF Generations
  <1>6. handler' \in [Handlers -> Requests]
    BY <1>3, FinishedIsIdle
  <1>7. /\ generation' \in [Sessions -> Generations]
        /\ generation'[s] = g + 1
        /\ \A t \in Sessions \ {s} : generation'[t] = generation[t] /\ rotated'[t] = rotated[t]
        /\ \A t \in Sessions : generation[t] \in Nat /\ final[t] \in Nat
    BY <1>1, <1>2, <1>3, <1>5, SessionAssumption DEF TypeOK, Generations
  <1>8. TypeOK'
    <2>1. cookies' \in SUBSET (Sessions \X Generations)
      BY <1>1, <1>3, <1>5 DEF TypeOK
    <2>2. rotated' \in [Sessions -> Nat]
      BY <1>1, <1>2, <1>4 DEF TypeOK
    <2>3. wins' \in [Sessions -> [Generations -> Nat]]
      BY <1>1, <1>3 DEF TypeOK
    <2> QED
      BY <1>3, <1>6, <1>7, <2>1, <2>2, <2>3 DEF TypeOK
  <1>9. OneRotationPerGeneration'
    <2>1. \A t \in Sessions, f \in Generations :
            wins'[t][f] = IF t = s /\ f = g THEN wins[t][f] + 1 ELSE wins[t][f]
      BY <1>1, <1>3 DEF TypeOK
    <2>2. ASSUME NEW t \in Sessions, NEW f \in Generations
          PROVE  wins'[t][f] = IF f < generation'[t] THEN 1 ELSE 0
      BY <1>1, <1>3, <1>5, <1>7, <2>1, SessionAssumption
         DEF OneRotationPerGeneration, Generations
    <2>3. ASSUME NEW t \in Sessions, NEW f \in Generations, <<t, f>> \in cookies'
          PROVE  f <= generation'[t]
      BY <1>1, <1>3, <1>5, <1>7, <2>3, SessionAssumption
         DEF OneRotationPerGeneration, Generations
    <2> QED
      BY <2>2, <2>3 DEF OneRotationPerGeneration
  <1>10. ResetReachesEverySession' /\ CookieOfSession'
    BY <1>3 DEF ResetReachesEverySession, CookieOfSession
  <1>11. \A i \in Handlers :
           /\ \A pc \in {"rotate", "inspect", "revoke", "swept"} :
                At(i, pc)' => At(i, pc) /\ handler'[i] = handler[i]
           /\ \A pc \in {"rotate", "inspect", "revoke"} :
                At(i, pc)' => handler[i].sid \in Sessions /\ handler[i].gen \in Nat
    BY <1>3, FinishedIsIdle, Carried, SessionAssumption DEF Generations
  <1>12. RefreshersHaveCookies'
    BY <1>3, <1>11 DEF RefreshersHaveCookies
  <1>13. MissedForAReason'
    <2> SUFFICES ASSUME NEW i \in Handlers, At(i, "inspect")', IsLive(handler[i].sid)
                 PROVE  generation'[handler[i].sid] > handler[i].gen
      BY <1>3, <1>11 DEF MissedForAReason, IsLive
    <2>1. generation[handler[i].sid] > handler[i].gen
      BY <1>11 DEF MissedForAReason
    <2> QED
      BY <1>3, <1>5, <1>7, <1>11, <2>1
  <1>14. ReuseMeansSuperseded'
    <2> SUFFICES ASSUME NEW i \in Handlers, At(i, "revoke")'
                 PROVE  LET t == handler[i].sid IN
                        /\ generation'[t] > handler[i].gen
                        /\ generation'[t] = handler[i].gen + 1 => now > rotated'[t] + Grace
      BY <1>3, <1>11 DEF ReuseMeansSuperseded, At
    <2>1. LET t == handler[i].sid IN
          /\ generation[t] > handler[i].gen
          /\ generation[t] = handler[i].gen + 1 => now > rotated[t] + Grace
      BY <1>11 DEF ReuseMeansSuperseded, At
    <2> QED
      BY <1>3, <1>5, <1>7, <1>11, <2>1
  <1>15. SweepsAreNumbered' /\ SweepsHoldTheirRows'
    BY <1>3, <1>11 DEF SweepsAreNumbered, SweepsHoldTheirRows
  <1>16. ClosedMeansNoNewCookies'
    BY <1>3, <1>11 DEF ClosedMeansNoNewCookies
  <1>17. ClosedAccountStopsRotating'
    <2> SUFFICES ASSUME ~active, NEW t \in Sessions
                 PROVE  generation'[t] <= IF era[t] < closed THEN final[t] ELSE final[t] + 1
      BY <1>3 DEF ClosedAccountStopsRotating
    <2>1. CASE t = s
      <3>1. g <= final[s]
        BY <1>1 DEF ClosedMeansNoNewCookies, s, g
      <3>2. era[s] >= swept /\ swept >= closed
        <4>1. closed \in Nat /\ swept \in Nat
          BY SessionAssumption DEF TypeOK, Sweeps
        <4> QED
          BY <1>1, <1>3, <4>1 DEF ResetReachesEverySession, SweepsAreNumbered
      <3>3. era[s] \in Nat /\ swept \in Nat /\ closed \in Nat
        BY <1>1, SessionAssumption DEF TypeOK, Sweeps
      <3> QED
        BY <1>5, <1>7, <2>1, <3>1, <3>2, <3>3
    <2>2. CASE t # s
      BY <1>7, <2>2 DEF ClosedAccountStopsRotating
    <2> QED
      BY <2>1, <2>2
  <1> QED
    BY <1>8, <1>9, <1>10, <1>12, <1>13, <1>14, <1>15, <1>16, <1>17

-----------------------------------------------------------------------------
(* What ends sessions, and time *)

\* Whatever only takes sessions out of the live ones preserves the invariant.
LEMMA EndingPreserves ==
  ASSUME IInv,
         status' \in [Sessions -> {"none", "live", "revoked", "purged"}],
         \A s \in Sessions : /\ status'[s] = "live" => status[s] = "live"
                             /\ status[s] # "none" => status'[s] # "none",
         UNCHANGED <<now, active, generation, rotated, expires, cookies, wins, sweepVars>>,
         handler' \in [Handlers -> Requests],
         \A i \in Handlers : handler'[i] \in {handler[i], Idle}
  PROVE  IInv'
  <1> USE DEF IInv, sweepVars
  <1>1. TypeOK'
    BY DEF TypeOK
  <1>2. OneRotationPerGeneration' /\ CookieOfSession'
    BY DEF OneRotationPerGeneration, CookieOfSession
  <1>3. ResetReachesEverySession' /\ ClosedAccountStopsRotating'
    BY DEF ResetReachesEverySession, ClosedAccountStopsRotating
  <1>4. \A i \in Handlers :
          /\ \A pc \in {"rotate", "inspect", "revoke", "swept"} :
               At(i, pc)' => At(i, pc) /\ handler'[i] = handler[i]
          /\ \A pc \in {"rotate", "inspect", "revoke"} :
               At(i, pc)' => handler[i].sid \in Sessions
    BY Carried DEF At, Idle
  <1>5. RefreshersHaveCookies' /\ ClosedMeansNoNewCookies'
    BY <1>4 DEF RefreshersHaveCookies, ClosedMeansNoNewCookies
  <1>6. MissedForAReason'
    BY <1>4 DEF MissedForAReason, IsLive
  <1>7. ReuseMeansSuperseded'
    BY <1>4 DEF ReuseMeansSuperseded, At
  <1>8. SweepsAreNumbered' /\ SweepsHoldTheirRows'
    BY <1>4 DEF SweepsAreNumbered, SweepsHoldTheirRows
  <1> QED
    BY <1>1, <1>2, <1>3, <1>5, <1>6, <1>7, <1>8

\* Revoking reaches live rows only, and takes each it reaches.
LEMMA RevokedEnds ==
  ASSUME TypeOK, NEW ss \in SUBSET Sessions, status' = Revoked(ss)
  PROVE  /\ status' \in [Sessions -> {"none", "live", "revoked", "purged"}]
         /\ \A s \in Sessions : /\ status'[s] = "live" => status[s] = "live" /\ s \notin ss
                                /\ status[s] # "none" => status'[s] # "none"
  BY DEF TypeOK, Revoked

\* A logout, a reused cookie and the purge end sessions.
LEMMA EndersPreserve ==
  ASSUME IInv,
         \/ \E h \in Handlers : RevokesReused(h)
         \/ \E s \in Sessions : Logout(s)
         \/ PurgeExpired
  PROVE  IInv'
  <1>0. TypeOK
    BY DEF IInv
  <1>1. ASSUME NEW h \in Handlers, RevokesReused(h) PROVE IInv'
    <2>1. handler[h].sid \in Sessions
      BY <1>0, <1>1, Carried DEF RevokesReused, At
    <2>2. /\ handler' \in [Handlers -> Requests]
          /\ \A i \in Handlers : handler'[i] \in {handler[i], Idle}
      BY <1>0, <1>1, FinishedIsIdle DEF RevokesReused
    <2>3. status' = Revoked({handler[h].sid})
          /\ UNCHANGED <<now, active, generation, rotated, expires, cookies, wins, sweepVars>>
      BY <1>1 DEF RevokesReused
    <2> QED
      BY <1>0, <2>1, <2>2, <2>3, RevokedEnds, EndingPreserves
  <1>2. ASSUME NEW s \in Sessions, Logout(s) PROVE IInv'
    BY <1>0, <1>2, RevokedEnds, EndingPreserves DEF Logout, TypeOK
  <1>3. CASE PurgeExpired
    <2>1. /\ status' \in [Sessions -> {"none", "live", "revoked", "purged"}]
          /\ \A s \in Sessions : /\ status'[s] = "live" => status[s] = "live"
                                 /\ status[s] # "none" => status'[s] # "none"
      BY <1>0, <1>3 DEF PurgeExpired, TypeOK
    <2> QED
      BY <1>0, <1>3, <2>1, EndingPreserves DEF PurgeExpired, TypeOK
  <1> QED
    BY <1>1, <1>2, <1>3

\* The COMMIT of a reset or a closing: what stays live is younger than its
\* UPDATE of refresh_sessions.
LEMMA CommitPreserves ==
  ASSUME IInv, NEW h \in Handlers, CommitsEnding(h)
  PROVE  IInv'
  <1> USE DEF IInv
  <1> DEFINE rows == handler[h].rows
             sweep == handler[h].sweep
  <1>1. /\ At(h, "swept") /\ rows \in SUBSET Sessions
        /\ sweep \in Sweeps /\ sweep \in Nat /\ sweep <= sweeps
    BY SweptCarries DEF CommitsEnding, At, SweepsAreNumbered
  <1>2. /\ status' = Revoked(rows) /\ active' = (active /\ handler[h].kind = "reset")
        /\ swept' = IF sweep > swept THEN sweep ELSE swept
        /\ IF active /\ ~active'
           THEN closed' = sweep /\ final' = generation
           ELSE UNCHANGED <<closed, final>>
        /\ Finish(h)
        /\ UNCHANGED <<now, generation, rotated, expires, cookies, wins, sweeps, era>>
    BY DEF CommitsEnding
  <1>3. \A s \in Sessions : status[s] = "live" /\ s \notin rows => era[s] >= sweep
    <2>1. \A s \in Sessions : era[s] \in Nat
      BY SessionAssumption DEF TypeOK, Sweeps
    <2> QED
      BY <1>1, <2>1 DEF SweepsHoldTheirRows
  <1> HIDE DEF rows, sweep
  <1>4. /\ status' \in [Sessions -> {"none", "live", "revoked", "purged"}]
        /\ \A s \in Sessions : /\ status'[s] = "live" => status[s] = "live" /\ s \notin rows
                               /\ status[s] # "none" => status'[s] # "none"
    BY <1>1, <1>2, RevokedEnds
  <1>5. /\ handler' \in [Handlers -> Requests]
        /\ \A i \in Handlers : \A pc \in {"rotate", "inspect", "revoke", "swept"} :
             At(i, pc)' => At(i, pc) /\ handler'[i] = handler[i]
    BY <1>2, FinishedIsIdle
  <1>6. /\ swept \in Nat /\ sweeps \in Nat /\ closed \in Nat
        /\ swept' \in Sweeps /\ closed' \in Sweeps
        /\ active' \in BOOLEAN /\ final' \in [Sessions -> Generations]
    <2>1. swept \in Sweeps /\ sweeps \in Sweeps /\ closed \in Sweeps /\ active \in BOOLEAN
          /\ generation \in [Sessions -> Generations] /\ final \in [Sessions -> Generations]
      BY DEF TypeOK
    <2>2. swept' \in Sweeps
      BY <1>1, <1>2, <2>1
    <2>3. closed' \in Sweeps /\ final' \in [Sessions -> Generations]
      BY <1>1, <1>2, <2>1
    <2>4. active' \in BOOLEAN
      BY <1>2, <2>1
    <2> QED
      BY <2>1, <2>2, <2>3, <2>4, SessionAssumption DEF Sweeps
  <1>7. TypeOK'
    BY <1>2, <1>4, <1>5, <1>6 DEF TypeOK
  <1>8. OneRotationPerGeneration' /\ CookieOfSession' /\ RefreshersHaveCookies'
    BY <1>2, <1>4, <1>5
       DEF OneRotationPerGeneration, CookieOfSession, RefreshersHaveCookies
  <1>9. \A i \in Handlers :
          At(i, "rotate") \/ At(i, "inspect") \/ At(i, "revoke") =>
            handler[i].sid \in Sessions /\ handler[i].gen \in Generations
    BY Carried
  <1>10. MissedForAReason' /\ ReuseMeansSuperseded'
    BY <1>2, <1>4, <1>5, <1>9 DEF MissedForAReason, ReuseMeansSuperseded, At, IsLive
  <1>11. ResetReachesEverySession'
    <2> SUFFICES ASSUME NEW s \in Sessions, status'[s] = "live"
                 PROVE  era[s] >= swept'
      BY <1>2 DEF ResetReachesEverySession
    <2>1. era[s] >= sweep /\ era[s] >= swept
      BY <1>3, <1>4 DEF ResetReachesEverySession
    <2> QED
      BY <1>2, <2>1
  <1>12. SweepsAreNumbered'
    <2>1. swept' <= sweeps /\ closed' <= swept'
      BY <1>1, <1>2, <1>6 DEF SweepsAreNumbered
    <2> QED
      BY <1>2, <1>5, <2>1 DEF SweepsAreNumbered
  <1>13. SweepsHoldTheirRows'
    BY <1>2, <1>4, <1>5 DEF SweepsHoldTheirRows
  <1>14. CASE ~active
    <2>1. ~active' /\ UNCHANGED <<closed, final>>
      BY <1>2, <1>14
    <2>2. ClosedMeansNoNewCookies'
      BY <1>5, <1>14, <2>1 DEF ClosedMeansNoNewCookies
    <2>3. ClosedAccountStopsRotating'
      BY <1>2, <1>14, <2>1 DEF ClosedAccountStopsRotating
    <2> QED
      BY <1>7, <1>8, <1>10, <1>11, <1>12, <1>13, <2>2, <2>3
  <1>15. CASE active /\ ~active'
    <2>1. closed' = sweep /\ final' = generation
      BY <1>2, <1>15
    <2>2. ClosedMeansNoNewCookies'
      BY <1>5, <1>9, <2>1 DEF ClosedMeansNoNewCookies, RefreshersHaveCookies,
                               OneRotationPerGeneration
    <2>3. \A s \in Sessions : generation[s] \in Nat
      BY SessionAssumption DEF TypeOK, Generations
    <2>4. ClosedAccountStopsRotating'
      BY <1>2, <2>1, <2>3 DEF ClosedAccountStopsRotating
    <2> QED
      BY <1>7, <1>8, <1>10, <1>11, <1>12, <1>13, <2>2, <2>4
  <1>16. CASE active'
    <2>1. ClosedMeansNoNewCookies' /\ ClosedAccountStopsRotating'
      BY <1>16 DEF ClosedMeansNoNewCookies, ClosedAccountStopsRotating
    <2> QED
      BY <1>7, <1>8, <1>10, <1>11, <1>12, <1>13, <2>1
  <1> QED
    BY <1>14, <1>15, <1>16

\* Time only ends sessions and grace periods.
LEMMA TickPreserves == ASSUME IInv, Tick PROVE IInv'
  <1> USE DEF IInv, Tick, rowVars, sweepVars
  <1>1. now \in Nat /\ now' = now + 1 /\ now' \in Times
    BY SessionAssumption DEF TypeOK, Times
  <1>2. TypeOK'
    BY <1>1 DEF TypeOK
  <1>3. OneRotationPerGeneration' /\ ResetReachesEverySession' /\ CookieOfSession'
        /\ RefreshersHaveCookies'
    BY DEF OneRotationPerGeneration, ResetReachesEverySession, CookieOfSession,
           RefreshersHaveCookies, At
  <1>4. SweepsAreNumbered' /\ SweepsHoldTheirRows' /\ ClosedMeansNoNewCookies'
        /\ ClosedAccountStopsRotating'
    BY DEF SweepsAreNumbered, SweepsHoldTheirRows, ClosedMeansNoNewCookies,
           ClosedAccountStopsRotating, At
  <1>5. \A i \in Handlers : At(i, "inspect") \/ At(i, "revoke") => handler[i].sid \in Sessions
    BY Carried
  <1>6. MissedForAReason'
    <2> SUFFICES ASSUME NEW i \in Handlers, At(i, "inspect"), IsLive(handler[i].sid)'
                 PROVE  generation[handler[i].sid] > handler[i].gen
      BY DEF MissedForAReason, At
    <2>1. expires[handler[i].sid] \in Nat
      BY <1>5 DEF TypeOK
    <2>2. IsLive(handler[i].sid)
      BY <1>1, <2>1 DEF IsLive
    <2> QED
      BY <2>2 DEF MissedForAReason
  <1>7. ReuseMeansSuperseded'
    <2> SUFFICES ASSUME NEW i \in Handlers, At(i, "revoke"),
                        generation[handler[i].sid] = handler[i].gen + 1
                 PROVE  now + 1 > rotated[handler[i].sid] + Grace
      BY <1>1 DEF ReuseMeansSuperseded, At
    <2>1. rotated[handler[i].sid] + Grace \in Nat
      BY <1>5, SessionAssumption DEF TypeOK
    <2>2. now > rotated[handler[i].sid] + Grace
      BY DEF ReuseMeansSuperseded, At
    <2> QED
      BY <1>1, <2>1, <2>2
  <1> QED
    BY <1>2, <1>3, <1>4, <1>6, <1>7

-----------------------------------------------------------------------------
\* Every step, and every stutter, preserves the invariant.
LEMMA NextPreserves == ASSUME IInv, [Next]_vars PROVE IInv'
  <1>1. ASSUME NEW h \in Handlers, HandlerNext(h) PROVE IInv'
    BY <1>1, MovesPreserve, LoginPreserves, RotatePreserves, CommitPreserves,
       EndersPreserve DEF HandlerNext
  <1>2. CASE UNCHANGED vars
    BY <1>2 DEF vars, IInv, TypeOK, OneRotationPerGeneration, ResetReachesEverySession,
       CookieOfSession, RefreshersHaveCookies, MissedForAReason, ReuseMeansSuperseded,
       SweepsAreNumbered, SweepsHoldTheirRows, ClosedMeansNoNewCookies,
       ClosedAccountStopsRotating, At, IsLive
  <1> QED
    BY <1>1, <1>2, EndersPreserve, TickPreserves DEF Next

\* The inductive invariant of RefreshSession: resets and closings are open from
\* their UPDATE of users to their COMMIT, and logins commit in between.
THEOREM Invariance == Spec => []IInv
  BY InitEstablishes, NextPreserves, PTL DEF Spec

\* Every variable keeps its range.
THEOREM TypeCorrect == Spec => []TypeOK
  BY Invariance, PTL DEF IInv

\* rotate is a compare-and-set, however many tabs present the same cookie.
THEOREM OneWinner == Spec => []OneRotationPerGeneration
  BY Invariance, PTL DEF IInv

\* A session is revoked for reuse only on a superseded cookie, after the grace
\* period of its one successor.
THEOREM NoRevocationWithoutReuse == Spec => []ReuseMeansSuperseded
  BY Invariance, PTL DEF IInv

\* Whatever overlaps a reset or a closing, the sessions that are live after its
\* COMMIT were created after its UPDATE of refresh_sessions.
THEOREM OnlyYoungerSessionsOutliveAReset == Spec => []ResetReachesEverySession
  BY Invariance, PTL DEF IInv

\* A closed account rotates no session its closing reached, and one that was
\* created behind the closing's UPDATE at most once.
THEOREM ClosedAccountRunsDry == Spec => []ClosedAccountStopsRotating
  BY Invariance, PTL DEF IInv

-----------------------------------------------------------------------------
(* What a step may never do *)

\* Only a rotation changes a generation.
LEMMA OnlyRotationsCount ==
  ASSUME Next, \A h \in Handlers : ~Rotates(h)
  PROVE  generation' = generation
  <1>1. ASSUME NEW h \in Handlers, HandlerNext(h) PROVE generation' = generation
    BY <1>1 DEF HandlerNext, LoginReads, LoginCreates, RefreshStarts, RotateMisses,
                Inspects, RevokesReused, ResetReads, StagesUser, SweepsSessions,
                CommitsEnding, Abandons, rowVars
  <1> QED
    BY <1>1 DEF Next, Logout, PurgeExpired, Tick, rowVars

\* A rotation moves the generation of a live row, and is dated before its end.
LEMMA RotationsAreInTime ==
  ASSUME TypeOK, NEW h \in Handlers, Rotates(h), NEW s \in Sessions,
         generation'[s] # generation[s]
  PROVE  status[s] = "live" /\ rotated'[s] < expires[s]
  <1> DEFINE t == handler[h].sid
  <1>1. t \in Sessions /\ handler[h].since \in Nat /\ now \in Nat
    BY Carried, SessionAssumption DEF Rotates, At, TypeOK, Times
  <1>2. PICK at \in handler[h].since .. now :
          Rotatable(t, handler[h].gen, at) /\ rotated' = [rotated EXCEPT ![t] = at]
    BY DEF Rotates
  <1>3. generation' = [generation EXCEPT ![t] = @ + 1]
    BY DEF Rotates
  <1> HIDE DEF t
  <1>4. s = t
    BY <1>1, <1>3 DEF TypeOK
  <1>5. rotated'[t] = at /\ at \in Nat /\ expires[t] \in Nat
    BY <1>1, <1>2 DEF TypeOK
  <1> QED
    BY <1>2, <1>4, <1>5 DEF Rotatable

\* A session that was revoked, purged or has expired stays so, whatever the
\* step, and no step moves the end of a session.
LEMMA EndedStayEnded ==
  ASSUME TypeOK, Next, NEW s \in Sessions, status[s] # "none"
  PROVE  /\ ~IsLive(s) => ~IsLive(s)'
         /\ expires'[s] = expires[s]
  <1>1. expires[s] \in Nat /\ now \in Nat
    BY SessionAssumption DEF TypeOK, Times
  <1>2. ASSUME NEW h \in Handlers, LoginCreates(h)
        PROVE  status'[s] = status[s] /\ expires'[s] = expires[s] /\ now' = now
    BY <1>2 DEF LoginCreates, TypeOK
  <1>3. ASSUME NEW h \in Handlers, HandlerNext(h), ~LoginCreates(h)
        PROVE  (status' = status \/ \E ss : status' = Revoked(ss)) /\ UNCHANGED <<expires, now>>
    BY <1>3 DEF HandlerNext, LoginReads, RefreshStarts, Rotates, RotateMisses, Inspects,
                RevokesReused, ResetReads, StagesUser, SweepsSessions, CommitsEnding,
                Abandons, rowVars
  <1>4. CASE \E h \in Handlers : HandlerNext(h)
    BY <1>2, <1>3, <1>4 DEF IsLive, Revoked, TypeOK
  <1>5. CASE (\E t \in Sessions : Logout(t)) \/ PurgeExpired
    BY <1>5 DEF Logout, PurgeExpired, IsLive, Revoked, TypeOK
  <1>6. CASE Tick
    BY <1>1, <1>6 DEF Tick, rowVars, IsLive
  <1> QED
    BY <1>4, <1>5, <1>6 DEF Next

\* An ended session never comes back and is not extended; one that was revoked
\* issues nothing more, one that expired nothing dated after its end.
THEOREM EndedForGood == Spec => EndedSessionsStayEnded
  <1>1. ASSUME IInv, [Next]_vars
        PROVE  [\A s \in Sessions : status[s] # "none" =>
                  /\ ~IsLive(s) => ~IsLive(s)'
                  /\ expires'[s] = expires[s]
                  /\ generation'[s] # generation[s] =>
                       status[s] = "live" /\ rotated'[s] < expires[s]]_vars
    <2> SUFFICES ASSUME Next, NEW s \in Sessions, status[s] # "none"
                 PROVE  /\ ~IsLive(s) => ~IsLive(s)'
                        /\ expires'[s] = expires[s]
                        /\ generation'[s] # generation[s] =>
                             status[s] = "live" /\ rotated'[s] < expires[s]
      BY <1>1
    <2>1. TypeOK
      BY <1>1 DEF IInv
    <2>2. generation'[s] # generation[s] => status[s] = "live" /\ rotated'[s] < expires[s]
      BY <2>1, OnlyRotationsCount, RotationsAreInTime
    <2> QED
      BY <2>1, <2>2, EndedStayEnded
  <1> QED
    BY Invariance, <1>1, PTL DEF Spec, EndedSessionsStayEnded
=============================================================================
