--------------------------- MODULE ControlChannel ---------------------------
(***************************************************************************)
(* How a wish of the console reaches the collector: the shipper's control  *)
(* goroutine (src/collector/cloud.go, runControl) polls for messages,      *)
(* applies them one after the other and acknowledges them together.  A     *)
(* profile message becomes a rule of the control table, a config message a *)
(* sample rate that the shipper keeps in memory.                           *)
(*                                                                         *)
(* The console is external: it keeps a message until it is acknowledged,   *)
(* and a poll brings all it keeps, oldest first (docs/spec/ingest-v1.md,   *)
(* section 3, GET /v1/control).                                            *)
(***************************************************************************)
EXTENDS Integers, Sequences, FiniteSets, SequencesExt, FiniteSetsExt

CONSTANTS
  Sites,       \* site ids; a config message for 0 is for all of them
  Docroots,    \* document roots
  TableSlots,  \* how many docroots the control table has room for; 0 when there is no table
  MaxIssued,   \* bound: messages the console issues
  MaxLives,    \* bound: times the collector is started
  MaxRefused   \* bound: polls and acknowledgements that fail

ASSUME ChannelAssumption ==
  /\ 0 \notin Sites /\ 0 \notin Docroots
  /\ {TableSlots, MaxIssued, MaxLives, MaxRefused} \subseteq Nat

\* The messages of the console.  The rate a config message asks for, and the rate and the end
\* a profile message asks for, are known by the id of the message.  Others are only logged.
Profile(site, prefix) == [type |-> "profile", site |-> site, prefix |-> prefix]
Config(site) == [type |-> "config", site |-> site, prefix |-> 0]

VARIABLES
  issued,     \* console: every message so far; its id is its index
  unacked,    \* console: ids not acknowledged, oldest first
  lives,      \* starts of the collector so far
  refused,    \* bound counter
  st,         \* s.st: [connected, auth], Connected and AuthFailed
  sending,    \* the sender waits for the answer to a batch
  polling,    \* a poll is out, for up to 30 s
  poll,       \* pollControl: the ids it received
  at,         \* how many of them it has applied; all of them: it is about to acknowledge
  docroot,    \* s.siteDocroot: site -> docroot, 0 when none was seen
  rate,       \* s.siteSampleRate: site, or 0 for all -> id of the config message, 0 for none
  table,      \* the control table: docroot -> id of the message its rule is from, 0 for none
  applied     \* history: the applications so far: [id, docroot (0: no rule was set), life]

console == <<issued, unacked>>
memory  == <<docroot, rate>>
poller  == <<polling, poll, at>>
channel == <<console, lives, refused, st, sending, poller, memory, table, applied>>

ChannelTypes ==
  /\ unacked \in Seq(DOMAIN issued)
  /\ polling \in BOOLEAN
  /\ poll \in Seq(DOMAIN issued) /\ at \in 0 .. Len(poll)
  /\ docroot \in [Sites -> Docroots \cup {0}]
  /\ rate \in [Sites \cup {0} -> 0 .. Len(issued)]
  /\ table \in [Docroots -> 0 .. Len(issued)]
  /\ st \in [connected : BOOLEAN, auth : BOOLEAN] /\ sending \in BOOLEAN

ChannelInit ==
  /\ issued = <<>> /\ unacked = <<>>
  /\ lives = 1 /\ refused = 0
  /\ st = [connected |-> FALSE, auth |-> FALSE] /\ sending = FALSE
  /\ polling = FALSE /\ poll = <<>> /\ at = 0
  /\ docroot = [s \in Sites |-> 0]
  /\ rate = [s \in Sites \cup {0} |-> 0]
  /\ table = [d \in Docroots |-> 0]
  /\ applied = <<>>

-----------------------------------------------------------------------------
(* Around the control goroutine *)

\* The console issues a message: external.
Issue(m) ==
  /\ Len(issued) < MaxIssued
  /\ issued' = Append(issued, m)
  /\ unacked' = Append(unacked, Len(issued) + 1)

\* deliver looks at AuthFailed before it sends, and at nothing when the answer comes.
Send ==
  /\ ~sending /\ ~st.auth
  /\ sending' = TRUE
  /\ UNCHANGED <<console, lives, refused, st, poller, memory, table, applied>>

SendAnswered(answer) ==
  /\ sending
  /\ sending' = FALSE
  /\ st' = CASE answer = "accepted" -> [connected |-> TRUE, auth |-> FALSE]
             [] answer = "402"      -> [st EXCEPT !.connected = TRUE]
             [] answer = "401"      -> [connected |-> FALSE, auth |-> TRUE]
             [] answer = "failed"   -> [st EXCEPT !.connected = FALSE]
             [] OTHER               -> st
  /\ IF answer \in {"401", "failed"}
       THEN refused < MaxRefused /\ refused' = refused + 1
       ELSE UNCHANGED refused
  /\ UNCHANGED <<console, lives, poller, memory, table, applied>>

\* A trace of the site tells its docroot (Observe).
SeeDocroot(s, d) ==
  /\ docroot[s] # d
  /\ docroot' = [docroot EXCEPT ![s] = d]
  /\ UNCHANGED <<console, lives, refused, st, sending, poller, rate, table, applied>>

\* The collector ends, however, and starts again: only the table is still there.
Restart ==
  /\ lives < MaxLives
  /\ lives' = lives + 1
  /\ st' = [connected |-> FALSE, auth |-> FALSE] /\ sending' = FALSE
  /\ polling' = FALSE /\ poll' = <<>> /\ at' = 0
  /\ docroot' = [s \in Sites |-> 0]
  /\ rate' = [s \in Sites \cup {0} |-> 0]
  /\ UNCHANGED <<console, refused, table, applied>>

-----------------------------------------------------------------------------
(* runControl: poll, apply, acknowledge *)

Blocked == st.auth \/ ~st.connected

\* The console holds the poll until it has a message, up to 25 s; whether the collector may
\* ask is looked at before, and not when the answer comes.
AskControl ==
  /\ ~Blocked /\ ~polling /\ poll = <<>>
  /\ polling' = TRUE
  /\ UNCHANGED <<console, lives, refused, st, sending, poll, at, memory, table, applied>>

\* The poll is answered with the messages the console keeps, if it has any.
PollControl ==
  /\ polling
  /\ polling' = FALSE /\ poll' = unacked /\ at' = 0
  /\ UNCHANGED <<console, lives, refused, st, sending, memory, table, applied>>

\* The poll fails; refused with 401 it ends the sending too.
PollFails(unauthorized) ==
  /\ polling
  /\ refused < MaxRefused
  /\ refused' = refused + 1
  /\ st' = IF unauthorized THEN [connected |-> FALSE, auth |-> TRUE] ELSE st
  /\ polling' = FALSE
  /\ UNCHANGED <<console, lives, sending, poll, at, memory, table, applied>>

\* ControlTable.Set: a site that has no slot needs a free one.  While the model runs no rule
\* comes to its end and none is cleared; ControlTable has that.
Fits(d) == table[d] # 0 \/ Cardinality({e \in Docroots : table[e] # 0}) < TableSlots

\* The next message is counted and applied; one that cannot be is logged.
ApplyControl ==
  /\ at < Len(poll)
  /\ LET id == poll[at + 1]
         m == issued[id]
         known == IF m.type = "profile" THEN docroot[m.site] ELSE 0
         d == IF known # 0 /\ Fits(known) THEN known ELSE 0
     IN /\ rate' = IF m.type = "config" THEN [rate EXCEPT ![m.site] = id] ELSE rate
        /\ table' = IF d # 0 THEN [table EXCEPT ![d] = id] ELSE table
        /\ applied' = Append(applied, [id |-> id, docroot |-> d, life |-> lives])
  /\ at' = at + 1
  /\ UNCHANGED <<console, lives, refused, st, sending, polling, poll, docroot>>

\* Mutant: whatever is outstanding is acknowledged.
AcknowledgeAll(arrives, answered) ==
  /\ poll # <<>> /\ at = Len(poll)
  /\ unacked' = IF arrives THEN <<>> ELSE unacked
  /\ IF arrives /\ answered
       THEN UNCHANGED refused
       ELSE refused < MaxRefused /\ refused' = refused + 1
  /\ poll' = <<>> /\ at' = 0
  /\ UNCHANGED <<issued, lives, st, sending, polling, memory, table, applied>>

\* The acknowledgement names what was received, and is not repeated when it fails, whether it
\* arrived or not.
Acknowledge(arrives, answered) ==
  /\ poll # <<>> /\ at = Len(poll)
  /\ unacked' = IF arrives THEN SelectSeq(unacked, LAMBDA id : ~Contains(poll, id)) ELSE unacked
  /\ IF arrives /\ answered
       THEN UNCHANGED refused
       ELSE refused < MaxRefused /\ refused' = refused + 1
  /\ poll' = <<>> /\ at' = 0
  /\ UNCHANGED <<issued, lives, st, sending, polling, memory, table, applied>>

Control ==
  \/ AskControl
  \/ PollControl
  \/ \E u \in BOOLEAN : PollFails(u)
  \/ ApplyControl
  \/ \E a, b \in BOOLEAN : Acknowledge(a, b)

Surroundings ==
  \/ Send
  \/ \E a \in {"accepted", "402", "401", "failed", "rejected"} : SendAnswered(a)
  \/ \E s \in Sites, d \in Docroots : SeeDocroot(s, d)
  \/ Restart

\* effectiveSampleRateLocked: the message whose rate holds for a site, 0 for the configured one.
\* What the console says with its answers to batches may lower it for the time being.
EffectiveRate(s) == IF rate[s] # 0 THEN rate[s] ELSE rate[0]

-----------------------------------------------------------------------------
(* Properties *)

\* Where message id was last applied; 0 when nowhere.
AppliedTo(id) ==
  LET times == {k \in DOMAIN applied : applied[k].id = id}
  IN IF times = {} THEN 0 ELSE applied[Max(times)].docroot

Ids(s) == {s[k] : k \in DOMAIN s}

\* The console's last word holds.  A message it may forget was applied; and once all that went to
\* a docroot is acknowledged, the rule there is as new as any message whose last application went
\* there, whatever was delivered twice, in one life of the collector or over several: an older one
\* delivered again does not overrule a newer one for good.  So for the sample rates of this life.
LastWordHolds ==
  /\ \A id \in DOMAIN issued :
       id \notin Ids(unacked) => \E k \in DOMAIN applied : applied[k].id = id
  /\ \A d \in Docroots :
       LET there == {id \in DOMAIN issued : AppliedTo(id) = d}
       IN there \cap Ids(unacked) = {} => \A id \in there : table[d] >= id
  /\ \A s \in Sites :
       LET heard(x) == {applied[k].id : k \in {k \in DOMAIN applied : applied[k].life = lives
                          /\ issued[applied[k].id] = Config(x)}}
           own == heard(s)
           all == heard(0)
       IN /\ own # {} /\ own \cap Ids(unacked) = {} => EffectiveRate(s) = Max(own)
          /\ own = {} /\ all # {} /\ all \cap Ids(unacked) = {} => EffectiveRate(s) = Max(all)

=============================================================================
