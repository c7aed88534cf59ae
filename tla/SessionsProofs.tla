--------------------------- MODULE SessionsProofs ---------------------------
(***************************************************************************)
(* Proofs about Sessions, for any devices, accounts and handlers.          *)
(***************************************************************************)
EXTENDS Sessions, TLAPS

\* Who ends a session: a handler or a request that forgets has a device that is gone in
\* hand, and a request has a session of its own address.
EndsTheGone ==
  /\ \A d \in Devices : leaving[d] # "idle" => device[d] = "gone"
  /\ \A a \in Addresses : asked[a] # NoDevice => AddressOf[asked[a]] = a
  /\ \A a \in Addresses :
       logout[a] \in {"forgetting", "deleting"} => device[asked[a]] = "gone"

\* What is recorded of a device: the map has it under its address, and only a device that
\* was linked is told as paired or has a row.
Named ==
  /\ \A a \in Addresses : sessions[a] # NoDevice => AddressOf[sessions[a]] = a
  /\ \A d \in Devices : status[d] = "paired" \/ d \in mapping => device[d] \in {"linked", "gone"}

\* Handlers run for a session of this process, and complete a pairing of a linked device.
Working ==
  /\ \A d \in Devices, h \in Handlers :
       pairing[<<d, h>>] \notin {"idle", "over"} =>
         up = "up" /\ d \in client /\ device[d] \in {"linked", "gone"}
  /\ \A d \in Devices : status[d] # "none" => up = "up" /\ d \in client
  /\ \A d \in Devices : failing[d] # "idle" => d \in client

\* What Start has still to register is linked and has no session yet; what it has
\* registered has its address.
Starting ==
  /\ up # "booting" => todo = {}
  /\ todo \intersect client = {}
  /\ \A d \in todo : device[d] = "linked"
  /\ up # "up" => client = known
  /\ up = "down" => client = {}

\* A linked device is in the map, or was displaced.
Found(d) == device[d] = "linked" => sessions[AddressOf[d]] = d \/ Displaced(d)

\* Reachable, and what it needs of Start, which has still to register the devices of todo, and
\* of the handlers that have put their session in the map and not yet told it.
FoundAgain ==
  \A d \in Devices :
    /\ up # "down" /\ d \notin todo /\ (status[d] = "paired" \/ d \in mapping)
         => Found(d) /\ (device[d] = "linked" => d \in client)
    /\ \A h \in Handlers : pairing[<<d, h>>] \in {"flipping", "saving"} => Found(d)

Inv == TypeOK /\ EndsTheGone /\ Named /\ Working /\ Starting /\ FoundAgain
-----------------------------------------------------------------------------
LEMMA TypeInit == Init => TypeOK
BY SessionsAssumption DEF Init, TypeOK, Steps

LEMMA TypeStep == TypeOK /\ Working /\ Starting /\ [Next]_vars => TypeOK'
<1> SUFFICES ASSUME TypeOK, Working, Starting, [Next]_vars PROVE TypeOK'
  OBVIOUS
<1> USE SessionsAssumption DEF TypeOK, Steps, process, memory, polling, handlers, requests
<1>1. ASSUME NEW d \in Devices, CreateSession(d) PROVE TypeOK'
  BY <1>1 DEF CreateSession
<1>2. ASSUME NEW d \in Devices, Pair(d) PROVE TypeOK'
  BY <1>2 DEF Pair, Hears
<1>3. ASSUME NEW d \in Devices, QRFails(d) PROVE TypeOK'
  BY <1>3 DEF QRFails, Hears
<1>4. ASSUME NEW d \in Devices, FailPending(d) PROVE TypeOK'
  BY <1>4 DEF FailPending, Hears
<1>5. ASSUME NEW d \in Devices, FailDecides(d) PROVE TypeOK'
  BY <1>5 DEF FailDecides
<1>6. ASSUME NEW d \in Devices, FailDisconnects(d) PROVE TypeOK'
  <2>1. d \in client
    BY <1>6 DEF FailDisconnects, Working
  <2> QED BY <1>6, <2>1 DEF FailDisconnects
<1>7. ASSUME NEW d \in Devices, LoggedOut(d) PROVE TypeOK'
  BY <1>7 DEF LoggedOut, Hears
<1>8. ASSUME NEW d \in Devices, Forget(d) PROVE TypeOK'
  BY <1>8 DEF Forget, ForgetEntry
<1>9. ASSUME NEW d \in Devices, Delete(d) PROVE TypeOK'
  BY <1>9 DEF Delete, DeleteMapping
<1>10. ASSUME NEW d \in Devices, Boot(d) PROVE TypeOK'
  <2>1. device[d] = "linked"
    BY <1>10 DEF Boot, Starting
  <2> QED BY <1>10, <2>1 DEF Boot
<1>11. ASSUME NEW d \in Devices, NEW h \in Handlers, HandleLinked(d, h) PROVE TypeOK'
  BY <1>11 DEF HandleLinked, At, Goto
<1>12. ASSUME NEW d \in Devices, NEW h \in Handlers, SetAddress(d, h) PROVE TypeOK'
  <2>1. d \in client /\ device[d] \in {"linked", "gone"}
    BY <1>12 DEF SetAddress, At, Working
  <2> QED BY <1>12, <2>1 DEF SetAddress, At, Goto
<1>13. ASSUME NEW d \in Devices, NEW h \in Handlers, Register(d, h) PROVE TypeOK'
  BY <1>13 DEF Register, At, Goto
<1>14. ASSUME NEW d \in Devices, NEW h \in Handlers, Flip(d, h) PROVE TypeOK'
  BY <1>14 DEF Flip, At, Goto
<1>15. ASSUME NEW d \in Devices, NEW h \in Handlers, SaveMapping(d, h) PROVE TypeOK'
  BY <1>15 DEF SaveMapping, At, Goto
<1>16. ASSUME NEW a \in Addresses, Logout(a) PROVE TypeOK'
  BY <1>16 DEF Logout
<1>17. ASSUME NEW a \in Addresses, LogoutRefused(a) PROVE TypeOK'
  BY <1>17 DEF LogoutRefused, Done
<1>18. ASSUME NEW a \in Addresses, LogoutTaken(a) PROVE TypeOK'
  BY <1>18 DEF LogoutTaken, Hears
<1>19. ASSUME NEW a \in Addresses, LogoutForgets(a) PROVE TypeOK'
  BY <1>19 DEF LogoutForgets, ForgetEntry
<1>20. ASSUME NEW a \in Addresses, LogoutDeletes(a) PROVE TypeOK'
  BY <1>20 DEF LogoutDeletes, DeleteMapping, Done
<1>21. CASE Crash
  BY <1>21 DEF Crash
<1>22. CASE Start
  BY <1>22 DEF Start
<1>23. CASE Serve
  BY <1>23 DEF Serve
<1>24. CASE UNCHANGED vars
  BY <1>24 DEF vars
<1> QED BY <1>1, <1>2, <1>3, <1>4, <1>5, <1>6, <1>7, <1>8, <1>9, <1>10, <1>11, <1>12, <1>13,
           <1>14, <1>15, <1>16, <1>17, <1>18, <1>19, <1>20, <1>21, <1>22, <1>23, <1>24 DEF
           Next, Pending, Leave, Request, completePairing

-----------------------------------------------------------------------------
\* A handler that goes on leaves the others where they are.
LEMMA GoesOn ==
  ASSUME TypeOK, NEW d \in Devices, NEW h \in Handlers, NEW step \in Steps, Goto(d, h, step)
  PROVE  \A e \in Devices, g \in Handlers :
           pairing'[<<e, g>>] = IF e = d /\ g = h THEN step ELSE pairing[<<e, g>>]
BY DEF Goto, TypeOK

LEMMA EndsStep == TypeOK /\ EndsTheGone /\ Named /\ [Next]_vars => EndsTheGone'
<1> SUFFICES ASSUME TypeOK, EndsTheGone, Named, [Next]_vars PROVE EndsTheGone'
  OBVIOUS
<1> USE SessionsAssumption DEF TypeOK, EndsTheGone, process, memory, polling, handlers, requests
<1>1. ASSUME NEW d \in Devices, CreateSession(d) PROVE EndsTheGone'
  BY <1>1 DEF CreateSession
<1>2. ASSUME NEW d \in Devices, Pair(d) PROVE EndsTheGone'
  BY <1>2 DEF Pair, Hears
<1>3. ASSUME NEW d \in Devices, QRFails(d) PROVE EndsTheGone'
  BY <1>3 DEF QRFails, Hears
<1>4. ASSUME NEW d \in Devices, FailPending(d) PROVE EndsTheGone'
  BY <1>4 DEF FailPending, Hears
<1>5. ASSUME NEW d \in Devices, FailDecides(d) PROVE EndsTheGone'
  BY <1>5 DEF FailDecides
<1>6. ASSUME NEW d \in Devices, FailDisconnects(d) PROVE EndsTheGone'
  BY <1>6 DEF FailDisconnects
<1>7. ASSUME NEW d \in Devices, LoggedOut(d) PROVE EndsTheGone'
  BY <1>7 DEF LoggedOut, Hears
<1>8. ASSUME NEW d \in Devices, Forget(d) PROVE EndsTheGone'
  BY <1>8 DEF Forget, ForgetEntry
<1>9. ASSUME NEW d \in Devices, Delete(d) PROVE EndsTheGone'
  BY <1>9 DEF Delete, DeleteMapping
<1>10. ASSUME NEW d \in Devices, Boot(d) PROVE EndsTheGone'
  BY <1>10 DEF Boot
<1>11. ASSUME NEW d \in Devices, NEW h \in Handlers, HandleLinked(d, h) PROVE EndsTheGone'
  BY <1>11 DEF HandleLinked, At, Goto
<1>12. ASSUME NEW d \in Devices, NEW h \in Handlers, SetAddress(d, h) PROVE EndsTheGone'
  BY <1>12 DEF SetAddress, At, Goto
<1>13. ASSUME NEW d \in Devices, NEW h \in Handlers, Register(d, h) PROVE EndsTheGone'
  BY <1>13 DEF Register, At, Goto
<1>14. ASSUME NEW d \in Devices, NEW h \in Handlers, Flip(d, h) PROVE EndsTheGone'
  BY <1>14 DEF Flip, At, Goto
<1>15. ASSUME NEW d \in Devices, NEW h \in Handlers, SaveMapping(d, h) PROVE EndsTheGone'
  BY <1>15 DEF SaveMapping, At, Goto
<1>16. ASSUME NEW a \in Addresses, Logout(a) PROVE EndsTheGone'
  BY <1>16 DEF Logout, Named
<1>17. ASSUME NEW a \in Addresses, LogoutRefused(a) PROVE EndsTheGone'
  BY <1>17 DEF LogoutRefused, Done
<1>18. ASSUME NEW a \in Addresses, LogoutTaken(a) PROVE EndsTheGone'
  BY <1>18 DEF LogoutTaken, Hears
<1>19. ASSUME NEW a \in Addresses, LogoutForgets(a) PROVE EndsTheGone'
  BY <1>19 DEF LogoutForgets, ForgetEntry
<1>20. ASSUME NEW a \in Addresses, LogoutDeletes(a) PROVE EndsTheGone'
  BY <1>20 DEF LogoutDeletes, DeleteMapping, Done
<1>21. CASE Crash
  BY <1>21 DEF Crash
<1>22. CASE Start
  BY <1>22 DEF Start
<1>23. CASE Serve
  BY <1>23 DEF Serve
<1>24. CASE UNCHANGED vars
  BY <1>24 DEF vars
<1> QED BY <1>1, <1>2, <1>3, <1>4, <1>5, <1>6, <1>7, <1>8, <1>9, <1>10, <1>11, <1>12, <1>13,
           <1>14, <1>15, <1>16, <1>17, <1>18, <1>19, <1>20, <1>21, <1>22, <1>23, <1>24 DEF
           Next, Pending, Leave, Request, completePairing

LEMMA NamedStep == TypeOK /\ Named /\ Working /\ [Next]_vars => Named'
<1> SUFFICES ASSUME TypeOK, Named, Working, [Next]_vars PROVE Named'
  OBVIOUS
<1> USE SessionsAssumption DEF TypeOK, Named, Working, process, memory, polling, handlers, requests
<1>1. ASSUME NEW d \in Devices, CreateSession(d) PROVE Named'
  BY <1>1 DEF CreateSession
<1>2. ASSUME NEW d \in Devices, Pair(d) PROVE Named'
  BY <1>2 DEF Pair, Hears
<1>3. ASSUME NEW d \in Devices, QRFails(d) PROVE Named'
  BY <1>3 DEF QRFails, Hears
<1>4. ASSUME NEW d \in Devices, FailPending(d) PROVE Named'
  BY <1>4 DEF FailPending, Hears
<1>5. ASSUME NEW d \in Devices, FailDecides(d) PROVE Named'
  BY <1>5 DEF FailDecides
<1>6. ASSUME NEW d \in Devices, FailDisconnects(d) PROVE Named'
  BY <1>6 DEF FailDisconnects
<1>7. ASSUME NEW d \in Devices, LoggedOut(d) PROVE Named'
  BY <1>7 DEF LoggedOut, Hears
<1>8. ASSUME NEW d \in Devices, Forget(d) PROVE Named'
  BY <1>8 DEF Forget, ForgetEntry
<1>9. ASSUME NEW d \in Devices, Delete(d) PROVE Named'
  BY <1>9 DEF Delete, DeleteMapping
<1>10. ASSUME NEW d \in Devices, Boot(d) PROVE Named'
  BY <1>10 DEF Boot
<1>11. ASSUME NEW d \in Devices, NEW h \in Handlers, HandleLinked(d, h) PROVE Named'
  BY <1>11 DEF HandleLinked, At, Goto
<1>12. ASSUME NEW d \in Devices, NEW h \in Handlers, SetAddress(d, h) PROVE Named'
  BY <1>12 DEF SetAddress, At, Goto
<1>13. ASSUME NEW d \in Devices, NEW h \in Handlers, Register(d, h) PROVE Named'
  BY <1>13 DEF Register, At, Goto
<1>14. ASSUME NEW d \in Devices, NEW h \in Handlers, Flip(d, h) PROVE Named'
  BY <1>14 DEF Flip, At, Goto
<1>15. ASSUME NEW d \in Devices, NEW h \in Handlers, SaveMapping(d, h) PROVE Named'
  BY <1>15 DEF SaveMapping, At, Goto
<1>16. ASSUME NEW a \in Addresses, Logout(a) PROVE Named'
  BY <1>16 DEF Logout
<1>17. ASSUME NEW a \in Addresses, LogoutRefused(a) PROVE Named'
  BY <1>17 DEF LogoutRefused, Done
<1>18. ASSUME NEW a \in Addresses, LogoutTaken(a) PROVE Named'
  BY <1>18 DEF LogoutTaken, Hears
<1>19. ASSUME NEW a \in Addresses, LogoutForgets(a) PROVE Named'
  BY <1>19 DEF LogoutForgets, ForgetEntry
<1>20. ASSUME NEW a \in Addresses, LogoutDeletes(a) PROVE Named'
  BY <1>20 DEF LogoutDeletes, DeleteMapping, Done
<1>21. CASE Crash
  BY <1>21 DEF Crash
<1>22. CASE Start
  BY <1>22 DEF Start
<1>23. CASE Serve
  BY <1>23 DEF Serve
<1>24. CASE UNCHANGED vars
  BY <1>24 DEF vars
<1> QED BY <1>1, <1>2, <1>3, <1>4, <1>5, <1>6, <1>7, <1>8, <1>9, <1>10, <1>11, <1>12, <1>13,
           <1>14, <1>15, <1>16, <1>17, <1>18, <1>19, <1>20, <1>21, <1>22, <1>23, <1>24 DEF
           Next, Pending, Leave, Request, completePairing

LEMMA WorkingStep == TypeOK /\ Working /\ Starting /\ [Next]_vars => Working'
<1> SUFFICES ASSUME TypeOK, Working, Starting, [Next]_vars PROVE Working'
  OBVIOUS
<1> USE SessionsAssumption DEF TypeOK, Working, process, memory, polling, handlers, requests
<1>1. ASSUME NEW d \in Devices, CreateSession(d) PROVE Working'
  BY <1>1 DEF CreateSession
<1>2. ASSUME NEW d \in Devices, Pair(d) PROVE Working'
  BY <1>2 DEF Pair, Hears
<1>3. ASSUME NEW d \in Devices, QRFails(d) PROVE Working'
  BY <1>3 DEF QRFails, Hears
<1>4. ASSUME NEW d \in Devices, FailPending(d) PROVE Working'
  BY <1>4 DEF FailPending, Hears
<1>5. ASSUME NEW d \in Devices, FailDecides(d) PROVE Working'
  BY <1>5 DEF FailDecides
<1>6. ASSUME NEW d \in Devices, FailDisconnects(d) PROVE Working'
  BY <1>6 DEF FailDisconnects
<1>7. ASSUME NEW d \in Devices, LoggedOut(d) PROVE Working'
  BY <1>7 DEF LoggedOut, Hears
<1>8. ASSUME NEW d \in Devices, Forget(d) PROVE Working'
  BY <1>8 DEF Forget, ForgetEntry
<1>9. ASSUME NEW d \in Devices, Delete(d) PROVE Working'
  BY <1>9 DEF Delete, DeleteMapping
<1>10. ASSUME NEW d \in Devices, Boot(d) PROVE Working'
  BY <1>10 DEF Boot
<1>11. ASSUME NEW d \in Devices, NEW h \in Handlers, HandleLinked(d, h) PROVE Working'
  <2>1. d \in client /\ device[d] = "linked" /\ (d \notin known => up = "up")
    BY <1>11 DEF HandleLinked, Starting
  <2>2. \E step \in {"over", "naming"} : Goto(d, h, step) /\ (step = "naming" => d \notin known)
    BY <1>11 DEF HandleLinked
  <2>3. \A e \in Devices, g \in Handlers :
          pairing'[<<e, g>>] \notin {"idle", "over"} =>
            pairing[<<e, g>>] \notin {"idle", "over"} \/ (e = d /\ d \notin known)
    BY <2>2, GoesOn DEF Steps
  <2> QED BY <1>11, <2>1, <2>3 DEF HandleLinked
<1>12. ASSUME NEW d \in Devices, NEW h \in Handlers, SetAddress(d, h) PROVE Working'
  BY <1>12 DEF SetAddress, At, Goto
<1>13. ASSUME NEW d \in Devices, NEW h \in Handlers, Register(d, h) PROVE Working'
  BY <1>13 DEF Register, At, Goto
<1>14. ASSUME NEW d \in Devices, NEW h \in Handlers, Flip(d, h) PROVE Working'
  BY <1>14 DEF Flip, At, Goto
<1>15. ASSUME NEW d \in Devices, NEW h \in Handlers, SaveMapping(d, h) PROVE Working'
  BY <1>15 DEF SaveMapping, At, Goto
<1>16. ASSUME NEW a \in Addresses, Logout(a) PROVE Working'
  BY <1>16 DEF Logout
<1>17. ASSUME NEW a \in Addresses, LogoutRefused(a) PROVE Working'
  BY <1>17 DEF LogoutRefused, Done
<1>18. ASSUME NEW a \in Addresses, LogoutTaken(a) PROVE Working'
  BY <1>18 DEF LogoutTaken, Hears
<1>19. ASSUME NEW a \in Addresses, LogoutForgets(a) PROVE Working'
  BY <1>19 DEF LogoutForgets, ForgetEntry
<1>20. ASSUME NEW a \in Addresses, LogoutDeletes(a) PROVE Working'
  BY <1>20 DEF LogoutDeletes, DeleteMapping, Done
<1>21. CASE Crash
  BY <1>21 DEF Crash
<1>22. CASE Start
  BY <1>22 DEF Start
<1>23. CASE Serve
  BY <1>23 DEF Serve
<1>24. CASE UNCHANGED vars
  BY <1>24 DEF vars
<1> QED BY <1>1, <1>2, <1>3, <1>4, <1>5, <1>6, <1>7, <1>8, <1>9, <1>10, <1>11, <1>12, <1>13,
           <1>14, <1>15, <1>16, <1>17, <1>18, <1>19, <1>20, <1>21, <1>22, <1>23, <1>24 DEF
           Next, Pending, Leave, Request, completePairing

LEMMA StartingStep == TypeOK /\ Working /\ Starting /\ [Next]_vars => Starting'
<1> SUFFICES ASSUME TypeOK, Working, Starting, [Next]_vars PROVE Starting'
  OBVIOUS
<1> USE SessionsAssumption DEF TypeOK, Starting, process, memory, polling, handlers, requests
<1>1. ASSUME NEW d \in Devices, CreateSession(d) PROVE Starting'
  BY <1>1 DEF CreateSession
<1>2. ASSUME NEW d \in Devices, Pair(d) PROVE Starting'
  BY <1>2 DEF Pair, Hears
<1>3. ASSUME NEW d \in Devices, QRFails(d) PROVE Starting'
  BY <1>3 DEF QRFails, Hears
<1>4. ASSUME NEW d \in Devices, FailPending(d) PROVE Starting'
  BY <1>4 DEF FailPending, Hears
<1>5. ASSUME NEW d \in Devices, FailDecides(d) PROVE Starting'
  BY <1>5 DEF FailDecides
<1>6. ASSUME NEW d \in Devices, FailDisconnects(d) PROVE Starting'
  BY <1>6 DEF FailDisconnects
<1>7. ASSUME NEW d \in Devices, LoggedOut(d) PROVE Starting'
  BY <1>7 DEF LoggedOut, Hears
<1>8. ASSUME NEW d \in Devices, Forget(d) PROVE Starting'
  BY <1>8 DEF Forget, ForgetEntry
<1>9. ASSUME NEW d \in Devices, Delete(d) PROVE Starting'
  BY <1>9 DEF Delete, DeleteMapping
<1>10. ASSUME NEW d \in Devices, Boot(d) PROVE Starting'
  <2>1. CASE d \in mapping
    BY <1>10, <2>1 DEF Boot
  <2>2. CASE d \notin mapping
    BY <1>10, <2>2 DEF Boot
  <2> QED BY <2>1, <2>2
<1>11. ASSUME NEW d \in Devices, NEW h \in Handlers, HandleLinked(d, h) PROVE Starting'
  BY <1>11 DEF HandleLinked, At, Goto
<1>12. ASSUME NEW d \in Devices, NEW h \in Handlers, SetAddress(d, h) PROVE Starting'
  <2>1. up = "up"
    BY <1>12 DEF SetAddress, At, Working
  <2> QED BY <1>12, <2>1 DEF SetAddress
<1>13. ASSUME NEW d \in Devices, NEW h \in Handlers, Register(d, h) PROVE Starting'
  BY <1>13 DEF Register, At, Goto
<1>14. ASSUME NEW d \in Devices, NEW h \in Handlers, Flip(d, h) PROVE Starting'
  BY <1>14 DEF Flip, At, Goto
<1>15. ASSUME NEW d \in Devices, NEW h \in Handlers, SaveMapping(d, h) PROVE Starting'
  BY <1>15 DEF SaveMapping, At, Goto
<1>16. ASSUME NEW a \in Addresses, Logout(a) PROVE Starting'
  BY <1>16 DEF Logout
<1>17. ASSUME NEW a \in Addresses, LogoutRefused(a) PROVE Starting'
  BY <1>17 DEF LogoutRefused, Done
<1>18. ASSUME NEW a \in Addresses, LogoutTaken(a) PROVE Starting'
  BY <1>18 DEF LogoutTaken, Hears
<1>19. ASSUME NEW a \in Addresses, LogoutForgets(a) PROVE Starting'
  BY <1>19 DEF LogoutForgets, ForgetEntry
<1>20. ASSUME NEW a \in Addresses, LogoutDeletes(a) PROVE Starting'
  BY <1>20 DEF LogoutDeletes, DeleteMapping, Done
<1>21. CASE Crash
  BY <1>21 DEF Crash
<1>22. CASE Start
  BY <1>22 DEF Start
<1>23. CASE Serve
  BY <1>23 DEF Serve
<1>24. CASE UNCHANGED vars
  BY <1>24 DEF vars
<1> QED BY <1>1, <1>2, <1>3, <1>4, <1>5, <1>6, <1>7, <1>8, <1>9, <1>10, <1>11, <1>12, <1>13,
           <1>14, <1>15, <1>16, <1>17, <1>18, <1>19, <1>20, <1>21, <1>22, <1>23, <1>24 DEF
           Next, Pending, Leave, Request, completePairing

LEMMA FoundStep == Inv /\ [Next]_vars => FoundAgain'
<1> SUFFICES ASSUME Inv, [Next]_vars PROVE FoundAgain'
  OBVIOUS
<1> USE SessionsAssumption DEF Inv, TypeOK, EndsTheGone, Named, Working, Starting, FoundAgain,
          Found, Displaced,
          process, memory, polling, handlers, requests
<1>1. ASSUME NEW d \in Devices, CreateSession(d) PROVE FoundAgain'
  BY <1>1 DEF CreateSession
<1>2. ASSUME NEW d \in Devices, Pair(d) PROVE FoundAgain'
  BY <1>2 DEF Pair, Hears
<1>3. ASSUME NEW d \in Devices, QRFails(d) PROVE FoundAgain'
  BY <1>3 DEF QRFails, Hears
<1>4. ASSUME NEW d \in Devices, FailPending(d) PROVE FoundAgain'
  BY <1>4 DEF FailPending, Hears
<1>5. ASSUME NEW d \in Devices, FailDecides(d) PROVE FoundAgain'
  BY <1>5 DEF FailDecides
<1>6. ASSUME NEW d \in Devices, FailDisconnects(d) PROVE FoundAgain'
  BY <1>6 DEF FailDisconnects
<1>7. ASSUME NEW d \in Devices, LoggedOut(d) PROVE FoundAgain'
  BY <1>7 DEF LoggedOut, Hears
<1>8. ASSUME NEW d \in Devices, Forget(d) PROVE FoundAgain'
  BY <1>8 DEF Forget, ForgetEntry
<1>9. ASSUME NEW d \in Devices, Delete(d) PROVE FoundAgain'
  BY <1>9 DEF Delete, DeleteMapping
<1>10. ASSUME NEW d \in Devices, Boot(d) PROVE FoundAgain'
  BY <1>10 DEF Boot
<1>11. ASSUME NEW d \in Devices, NEW h \in Handlers, HandleLinked(d, h) PROVE FoundAgain'
  <2>1. \A e \in Devices, g \in Handlers :
          pairing'[<<e, g>>] \in {"flipping", "saving"} => pairing[<<e, g>>] = pairing'[<<e, g>>]
    <3>1. \E step \in {"over", "naming"} : Goto(d, h, step)
      BY <1>11 DEF HandleLinked
    <3> QED BY <3>1, GoesOn DEF Steps
  <2>2. UNCHANGED <<up, todo, device, client, sessions, mapping, status>>
    BY <1>11 DEF HandleLinked
  <2> QED BY <2>1, <2>2
<1>12. ASSUME NEW d \in Devices, NEW h \in Handlers, SetAddress(d, h) PROVE FoundAgain'
  BY <1>12 DEF SetAddress, At, Goto
<1>13. ASSUME NEW d \in Devices, NEW h \in Handlers, Register(d, h) PROVE FoundAgain'
  BY <1>13 DEF Register, At, Goto
<1>14. ASSUME NEW d \in Devices, NEW h \in Handlers, Flip(d, h) PROVE FoundAgain'
  BY <1>14 DEF Flip, At, Goto
<1>15. ASSUME NEW d \in Devices, NEW h \in Handlers, SaveMapping(d, h) PROVE FoundAgain'
  BY <1>15 DEF SaveMapping, At, Goto
<1>16. ASSUME NEW a \in Addresses, Logout(a) PROVE FoundAgain'
  BY <1>16 DEF Logout
<1>17. ASSUME NEW a \in Addresses, LogoutRefused(a) PROVE FoundAgain'
  BY <1>17 DEF LogoutRefused, Done
<1>18. ASSUME NEW a \in Addresses, LogoutTaken(a) PROVE FoundAgain'
  BY <1>18 DEF LogoutTaken, Hears
<1>19. ASSUME NEW a \in Addresses, LogoutForgets(a) PROVE FoundAgain'
  BY <1>19 DEF LogoutForgets, ForgetEntry
<1>20. ASSUME NEW a \in Addresses, LogoutDeletes(a) PROVE FoundAgain'
  BY <1>20 DEF LogoutDeletes, DeleteMapping, Done
<1>21. CASE Crash
  BY <1>21 DEF Crash
<1>22. CASE Start
  BY <1>22 DEF Start
<1>23. CASE Serve
  BY <1>23 DEF Serve
<1>24. CASE UNCHANGED vars
  BY <1>24 DEF vars
<1> QED BY <1>1, <1>2, <1>3, <1>4, <1>5, <1>6, <1>7, <1>8, <1>9, <1>10, <1>11, <1>12, <1>13,
           <1>14, <1>15, <1>16, <1>17, <1>18, <1>19, <1>20, <1>21, <1>22, <1>23, <1>24 DEF
           Next, Pending, Leave, Request, completePairing

LEMMA Invariance == Spec => []Inv
<1>1. Init => Inv
  BY TypeInit, SessionsAssumption
     DEF Init, Inv, EndsTheGone, Named, Working, Starting, FoundAgain
<1>2. Inv /\ [Next]_vars => Inv'
  BY TypeStep, EndsStep, NamedStep, WorkingStep, StartingStep, FoundStep DEF Inv
<1> QED BY <1>1, <1>2, PTL DEF Spec

\* Every state is well formed; in particular a session has an address only if its device
\* was linked, whatever events reach the handlers of a pairing.
THEOREM TypeCorrect == Spec => []TypeOK
BY Invariance, PTL DEF Inv

\* A pairing told as paired, and a device with a mapping once the bridge has started, is
\* dispatched to by its address while it is linked, if no sibling displaced it.
THEOREM PairedIsReachable == Spec => []Reachable
<1>1. Inv => Reachable
  BY DEF Inv, Starting, FoundAgain, Found, Reachable
<1> QED BY <1>1, Invariance, PTL

\* The row of a device is deleted only when the device is gone.
THEOREM RowsOutlastSiblings == Spec => OnlyTheGoneAreForgotten
<1>1. Inv /\ [Next]_vars => [\A d \in mapping \ mapping' : device[d] = "gone"]_vars
  <2> SUFFICES ASSUME Inv, Next, NEW e \in mapping \ mapping' PROVE device[e] = "gone"
    OBVIOUS
  <2> USE DEF Inv, TypeOK, process, memory, polling, handlers, requests
  <2>1. ASSUME NEW d \in Devices, Delete(d) PROVE device[e] = "gone"
    BY <2>1 DEF Delete, DeleteMapping, EndsTheGone
  <2>2. ASSUME NEW a \in Addresses, LogoutDeletes(a) PROVE device[e] = "gone"
    BY <2>2 DEF LogoutDeletes, DeleteMapping, Done, EndsTheGone
  <2>3. ASSUME NEW d \in Devices, Pending(d) \/ LoggedOut(d) \/ Forget(d) \/ Boot(d)
        PROVE device[e] = "gone"
    BY <2>3 DEF Pending, CreateSession, Pair, QRFails, FailPending, FailDecides,
                FailDisconnects, LoggedOut, Forget, Boot
  <2>4. ASSUME NEW d \in Devices, NEW h \in Handlers, HandleLinked(d, h) \/ completePairing(d, h)
        PROVE device[e] = "gone"
    BY <2>4 DEF HandleLinked, completePairing, SetAddress, Register, Flip, SaveMapping
  <2>5. ASSUME NEW a \in Addresses,
               Logout(a) \/ LogoutRefused(a) \/ LogoutTaken(a) \/ LogoutForgets(a)
        PROVE device[e] = "gone"
    BY <2>5 DEF Logout, LogoutRefused, LogoutTaken, LogoutForgets
  <2>6. CASE Crash \/ Start \/ Serve
    BY <2>6 DEF Crash, Start, Serve
  <2> QED BY <2>1, <2>2, <2>3, <2>4, <2>5, <2>6 DEF Next, Leave, Request
<1> QED BY <1>1, Invariance, PTL DEF Spec, OnlyTheGoneAreForgotten

\* A pairing told as paired is never told otherwise while the process lives.
THEOREM ToldPairedForGood == Spec => PairedStays
<1>1. Inv /\ [Next]_vars
        => [\A d \in pending \intersect pending', late \in BOOLEAN :
              state(d, late) = "paired" => state(d, late)' = "paired"]_vars
  <2> SUFFICES ASSUME Inv, Next, NEW e \in pending \intersect pending', status[e] = "paired"
               PROVE status'[e] = "paired"
    BY DEF state
  <2> USE DEF Inv, TypeOK, process, memory, polling, handlers, requests
  <2>1. ASSUME NEW d \in Devices, Pending(d) PROVE status'[e] = "paired"
    BY <2>1 DEF Pending, CreateSession, Pair, QRFails, FailPending, FailDecides,
                FailDisconnects, Named
  <2>2. ASSUME NEW d \in Devices, Leave(d) \/ Boot(d) PROVE status'[e] = "paired"
    BY <2>2 DEF Leave, LoggedOut, Forget, Delete, Boot
  <2>3. ASSUME NEW d \in Devices, NEW h \in Handlers, HandleLinked(d, h) \/ completePairing(d, h)
        PROVE status'[e] = "paired"
    BY <2>3 DEF HandleLinked, completePairing, SetAddress, Register, Flip, SaveMapping
  <2>4. ASSUME NEW a \in Addresses, Request(a) PROVE status'[e] = "paired"
    BY <2>4 DEF Request, Logout, LogoutRefused, LogoutTaken, LogoutForgets, LogoutDeletes
  <2>5. CASE Crash \/ Start \/ Serve
    BY <2>5 DEF Crash, Start, Serve
  <2> QED BY <2>1, <2>2, <2>3, <2>4, <2>5 DEF Next
<1> QED BY <1>1, Invariance, PTL DEF Spec, PairedStays
=============================================================================
