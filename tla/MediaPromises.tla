---------------------------- MODULE MediaPromises ----------------------------
(***************************************************************************)
(* The players that a dictation pauses, what is on its way to them and     *)
(* back, and what must come of it: that what was paused plays again.       *)
(***************************************************************************)
CONSTANT Players   \* the media players of the session

VARIABLES
    listed,          \* m_pausedPlayers
    pauseRequested,  \* m_pauseRequested
    listing,         \* ListNames of the current generation is unanswered
    calls,           \* the calls on their way to each player
    replies,         \* the answers on their way back
    player,          \* whether each plays
    stopped,         \* for the properties: Speecher's Pause is why it does not
    missed           \* for the properties: whether it refused Play, and whose

\* Once nothing is under way and the dictation has resumed the media, a player
\* Speecher paused plays, however Pause's and Play's answers crossed newer
\* pauses and resumes.  One that refused the Play of a resume is listed, to be
\* asked again; the Play that follows a late Pause is not asked twice.
PlaysAgain ==
    ~pauseRequested /\ ~listing /\ (\A p \in Players : calls[p] = << >> /\ replies[p] = << >>)
        => \A p \in Players : stopped[p] => missed[p] = "once" \/ (missed[p] = "asked" /\ p \in listed)
==============================================================================
