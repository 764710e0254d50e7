----------------------------- MODULE MCProgress -----------------------------
(* What must come to an end, for TLC: accepted Slack Messages, the reply in    *)
(* their thread, Relay Jobs and streams of events.  Each is explored by        *)
(* itself while the others rest.                                               *)
EXTENDS SlackMessageWork, EventFollower

VARIABLE part       \* the component that is explored

\* Every Message is of the one thread.
MCThread == [m \in Messages |-> CHOOSE t \in Threads : TRUE]

-----------------------------------------------------------------------------
(* The reply. *)

CONSTANTS ReplyWorkers, ReplyLeaseFor, ReplyPage, RenderLimit, ReplyEvents, MaxStreams, MaxCrashes
VARIABLES thread, reply, slack, posted, replying, replied, refusals, crashes

replyVars == <<thread, reply, slack, posted, replying, replied, refusals, crashes>>

Reply == INSTANCE SlackReply WITH
    Workers <- ReplyWorkers, LeaseFor <- ReplyLeaseFor, PageSize <- ReplyPage, MaxEvents <- ReplyEvents,
    log <- thread, pc <- replying, mine <- replied

-----------------------------------------------------------------------------
(* Relay Jobs. *)

CONSTANTS Jobs, Relays, Replicas, Outcomes, Capacity, QueueLimit, MaxSessions, MaxEpoch
VARIABLES status, holder, epoch, ttl, asked, investigating, opened, phase, peer, live, releasing,
          late, unsent, told, stream, link, executing, results

jobVars == <<status, holder, epoch, ttl, asked, investigating, opened, phase, peer, live, releasing,
             late, unsent, told, stream, link, executing, results>>

Job == INSTANCE RelayJob

-----------------------------------------------------------------------------

ProgressInit ==
    /\ part \in {"work", "reply", "jobs", "follower"}
    /\ Init /\ Reply!Init /\ Job!Init /\ FollowerInit
    /\ part # "follower" => log = <<>>

ProgressNext ==
    \/ part = "work" /\ Next /\ UNCHANGED <<part, replyVars, jobVars, followerVars>>
    \/ part = "reply" /\ Reply!Next /\ UNCHANGED <<part, vars, jobVars, followerVars>>
    \/ part = "jobs" /\ Job!Next /\ UNCHANGED <<part, vars, replyVars, followerVars>>
    \/ part = "follower" /\ FollowerNext /\ UNCHANGED <<part, vars, replyVars, jobVars>>

ProgressSpec ==
    /\ ProgressInit
    /\ [][ProgressNext]_<<part, vars, replyVars, jobVars, followerVars>>
    /\ \/ part = "work" /\ Fairness
       \/ part = "reply" /\ Reply!Fairness
       \/ part = "jobs" /\ Job!Fairness
       \/ part = "follower" /\ FollowerFairness

-----------------------------------------------------------------------------
(* Properties. *)

\* Once the Investigation has ended its thread gets an answer, or the reply is
\* abandoned, although workers die and answers are lost (module SlackReply).
EveryReplySettles == Reply!EveryReplySettles

\* Every Job is settled and no Relay sends its result for ever, although Relays
\* crash and leave, sessions are replaced and a claim may commit for a session
\* that is gone (module RelayJob).
EveryJobSettles == Job!EveryJobSettles

\* A client that opens a stream whenever the last one ended sees the end of the
\* Investigation (module EventFollower).
StreamsReachTheEnd == part = "follower" => FollowersReachTheEnd

=============================================================================
