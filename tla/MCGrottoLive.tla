---------------------------- MODULE MCGrottoLive ----------------------------
(***************************************************************************)
(* Progress of the clients, when crashes and lost connections end and      *)
(* temporary refusals do not last for ever.                                *)
(***************************************************************************)
EXTENDS MCGrotto

VARIABLE crashes

liveVars == <<systemVars, scenario, crashes>>

Crashed == {u \in Users : eng'[u].pc = "off" /\ eng[u].pc # "off" /\ ~Refuses(u)}
Count ==
  /\ crashes' = crashes + Cardinality(Crashed) /\ crashes' <= Playing.crashes
  /\ UNCHANGED scenario

LiveInit == MCInit /\ crashes = 0
LiveNext == MCNext /\ Count

\* The engine's loop and the 30 s timer run, input is read sooner or later
\* although the timer competes with it, the relay answers, a broken connection
\* is noticed and replaced, and a request that is refused for lack of room
\* over and over is in the end admitted.
Fairness ==
  \A u \in Active :
    /\ WF_liveVars(Connect(u) /\ UNCHANGED vars /\ Count)
    /\ WF_liveVars(Lose(u) /\ Count)
    /\ WF_liveVars(Wake(u) /\ UNCHANGED vars /\ Count)
    /\ WF_liveVars(drive(u) /\ UNCHANGED vars /\ Count)
    /\ WF_liveVars(Serve(u) /\ Count)
    /\ SF_liveVars(command(u) /\ UNCHANGED vars /\ Count)
    /\ SF_liveVars(/\ At(u, "resolve") /\ Serve(u) /\ Count
                   /\ ~IsTemporary(wire'[u].response))

LiveSpec == LiveInit /\ [][LiveNext]_liveVars /\ Fairness

Settled(u) ==
  /\ script[u] = << >> /\ db[u].outbox = << >>
  /\ \A r \in Rooms : /\ db[u].intents[r] = None
                      /\ subscribed(r, u) => /\ has_group(db[u], r)
                                             /\ db[u].cursors[r] = HeadOf(r)

\* In the end every intent is carried out or given up, every outbox is empty and
\* every member has joined and applied the whole log: a blocked commit or Welcome
\* resumes after the contact is imported, a lost race is rebuilt, and no client
\* waits for an answer that will not come (drive_inner, synchronize).
EventuallySettled == <>[](\A u \in Active : Settled(u))

\* What a user asked for is in the end carried out or given up.  The message of
\* the HeadConflict arm says of a commit that lost its race: "synchronizing
\* before rebuilding"; the rebuild may be impossible.
IntentsResolved ==
  \A u \in Active, r \in Rooms : (db[u].intents[r] # None) ~> (db[u].intents[r] = None)

=============================================================================
