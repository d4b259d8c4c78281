-------------------------------- MODULE Channels --------------------------------
(***************************************************************************)
(* ChannelManager (channels.json) and ChannelService (the bots that run),  *)
(* with the handlers of /api/channels and ReconcileAll: each class locks   *)
(* its own operations; what goes from one to the other is a copy.          *)
(*                                                                         *)
(* The id of a channel is n for "channel_<n>", 0 for another name. A       *)
(* configuration is its type, its name, whether it is enabled, and its     *)
(* parameters, "none" when appId or appSecret is missing.                  *)
(***************************************************************************)
EXTENDS Integers, FiniteSets, FiniteSetsExt

CONSTANTS
  Workers,
  NoChannels, NotJson,    \* channels.json is missing, or is not JSON
  BadItem                 \* an entry of it with a value of another JSON type

VARIABLES
  cfile, cmtime,          \* channels.json and the number of times it was written
  channels, nextId,       \* ChannelManager
  unnoted,                \* history: ids of channels that nextId did not see come
  bots,                   \* ChannelService: the params of each bot that runs
  last,                   \* its last known type, params and enabled flag
  disputed,               \* history: ids last applied with another state than
                          \* the manager had for them
  cpc, ccall              \* per thread: the next step, and what it holds

channelVars == <<cfile, cmtime, channels, nextId, unnoted, bots, last, disputed, cpc, ccall>>

NoId == -1     \* the empty id
Named == 0

Nothing == [x \in {} |-> x]
With(fn, x, v) == [y \in DOMAIN fn \cup {x} |-> IF y = x THEN v ELSE fn[y]]
Without(fn, S) == [y \in DOMAIN fn \ S |-> fn[y]]

Numbered(S) == S \ {Named}

(* Like the Agents' store: a failure to write is logged or not noticed.    *)
SaveToFile(how) ==
  \/ how = "saved" /\ cfile' = channels' /\ cmtime' = cmtime + 1
  \/ how = "truncated" /\ cfile' = NotJson /\ cmtime' = cmtime + 1
  \/ how = "thrown" /\ UNCHANGED <<cfile, cmtime>>

RecalcNextId(chs) == IF Numbered(DOMAIN chs) = {} THEN 1 ELSE Max(Numbered(DOMAIN chs)) + 1

-----------------------------------------------------------------------------
(* ChannelService.                                                         *)

(* FeishuBot::Start, whether it could connect or not: the bot says it is   *)
(* running.                                                                *)
StartBot(up, id, params) == With(up, id, params)

(* FeishuBot::Stop and the end of the bot.                                 *)
StopBots(up, S) == Without(up, S)

StartFeishuLocked(up, id, cfg) ==
  IF cfg.params = "none" THEN up ELSE StartBot(up, id, cfg.params)

ApplyTo_NeverRestarts(id, cfg) ==
  LET left == IF id \in DOMAIN bots /\ ~cfg.enabled THEN Without(bots, {id}) ELSE bots
  IN  /\ bots' = IF cfg.enabled /\ id \notin DOMAIN left /\ cfg.type = "feishu"
                 THEN StartFeishuLocked(left, id, cfg) ELSE left
      /\ last' = With(last, id, cfg)

(* Apply: a running bot is stopped when the channel is disabled or has     *)
(* changed since it was last seen; then an enabled one without a bot gets  *)
(* one.                                                                    *)
ApplyTo(id, cfg) ==
  LET changed == id \in DOMAIN last /\ (last[id].type # cfg.type \/ last[id].params # cfg.params)
      left == IF id \in DOMAIN bots /\ (~cfg.enabled \/ changed) THEN StopBots(bots, {id}) ELSE bots
  IN  /\ bots' = IF cfg.enabled /\ id \notin DOMAIN left /\ cfg.type = "feishu"
                 THEN StartFeishuLocked(left, id, cfg) ELSE left
      /\ last' = With(last, id, cfg)

RecordApplied(id, cfg) ==
  disputed' = IF id \in DOMAIN channels /\ channels[id] = cfg THEN disputed \ {id} ELSE disputed \cup {id}

StopLocked(S) == bots' = StopBots(bots, S) /\ last' = Without(last, S)

(* At shutdown. *)
StopAll ==
  /\ bots' = Nothing /\ last' = Nothing
  /\ UNCHANGED <<cfile, cmtime, channels, nextId, unnoted, disputed, cpc, ccall>>

-----------------------------------------------------------------------------
Continue(t, pc, call) == cpc' = [cpc EXCEPT ![t] = pc] /\ ccall' = [ccall EXCEPT ![t] = call]

(* POST. Without an id the next number is taken; an id of the caller's,    *)
(* channel_<n> too, is taken as it is, and nextId_ does not move.          *)
AddChannel(t, id, cfg, how) ==
  LET n == IF id = NoId THEN nextId ELSE id
  IN  /\ cpc[t] = "idle"
      /\ channels' = With(channels, n, cfg)
      /\ nextId' = IF id = NoId THEN nextId + 1 ELSE nextId
      /\ unnoted' = IF id = NoId THEN unnoted \ {n} ELSE unnoted \cup {id}
      /\ SaveToFile(how)
      /\ Continue(t, "created", With(Nothing, n, cfg))
      /\ UNCHANGED <<bots, last, disputed>>

(* The channel to apply is looked for by type and name: another one of the *)
(* same name may come first.                                               *)
FindCreated(t) ==
  /\ cpc[t] = "created"
  /\ LET made == ccall[t][CHOOSE n \in DOMAIN ccall[t] : TRUE]
         alike == {n \in DOMAIN channels : channels[n].type = made.type /\ channels[n].name = made.name}
     IN  IF alike = {} THEN Continue(t, "idle", Nothing)
         ELSE \E n \in alike : Continue(t, "apply", With(Nothing, n, channels[n]))
  /\ UNCHANGED <<cfile, cmtime, channels, nextId, unnoted, bots, last, disputed>>

(* PUT. An id the manager does not know is applied all the same.           *)
UpdateChannel(t, id, cfg, how) ==
  /\ cpc[t] = "idle"
  /\ IF id \in DOMAIN channels THEN channels' = With(channels, id, cfg) /\ SaveToFile(how)
     ELSE UNCHANGED <<cfile, cmtime, channels>>
  /\ Continue(t, "apply", With(Nothing, id, cfg))
  /\ UNCHANGED <<nextId, unnoted, bots, last, disputed>>

(* DELETE, first in the manager and then in the service.                   *)
RemoveChannel(t, id, how) ==
  /\ cpc[t] = "idle"
  /\ channels' = Without(channels, {id})
  /\ SaveToFile(how)
  /\ Continue(t, "remove", With(Nothing, id, NoChannels))
  /\ UNCHANGED <<nextId, unnoted, bots, last, disputed>>

RemoveFromService(t) ==
  /\ cpc[t] = "remove"
  /\ StopLocked(DOMAIN ccall[t])
  /\ disputed' = (disputed \ DOMAIN ccall[t]) \cup (DOMAIN ccall[t] \cap DOMAIN channels)
  /\ Continue(t, "idle", Nothing)
  /\ UNCHANGED <<cfile, cmtime, channels, nextId, unnoted>>

(* What the manager holds after it has read a file. A bad entry throws out *)
(* of the loop: the entries before it, whichever these are, have been taken*)
(* over and nextId_ is 1.                                                  *)
LoadedChannels(file) ==
  LET bad == {id \in DOMAIN file : file[id] = BadItem}
  IN  IF bad = {} THEN {[channels |-> file, nextId |-> RecalcNextId(file), unnoted |-> {}]}
      ELSE {[channels |-> Without(file, S), nextId |-> 1, unnoted |-> DOMAIN file \ S] :
              S \in {S \in SUBSET DOMAIN file : bad \subseteq S}}

(* ReloadChannels: a file that does not parse leaves the manager alone,    *)
(* and what it holds is reconciled, also when Load caught an exception.    *)
LoadChannels(t) ==
  /\ cpc[t] = "idle"
  /\ IF cfile \in {NoChannels, NotJson} THEN UNCHANGED <<channels, nextId, unnoted>>
     ELSE \E r \in LoadedChannels(cfile) :
            channels' = r.channels /\ nextId' = r.nextId /\ unnoted' = r.unnoted
  /\ Continue(t, "reconcile", Nothing)
  /\ UNCHANGED <<cfile, cmtime, bots, last, disputed>>

(* ReconcileAll: a copy of the manager's channels, ...                     *)
GetAllChannels(t) ==
  /\ cpc[t] = "reconcile"
  /\ Continue(t, "stop", channels)
  /\ UNCHANGED <<cfile, cmtime, channels, nextId, unnoted, bots, last, disputed>>

StopMissing_Keeps(t) ==
  /\ cpc[t] = "stop"
  /\ Continue(t, IF DOMAIN ccall[t] = {} THEN "idle" ELSE "apply", ccall[t])
  /\ UNCHANGED <<cfile, cmtime, channels, nextId, unnoted, bots, last, disputed>>

(* ... the bots that are not in it, ...                                    *)
StopMissing(t) ==
  LET gone == DOMAIN bots \ DOMAIN ccall[t]
  IN  /\ cpc[t] = "stop"
      /\ StopLocked(gone)
      /\ disputed' = (disputed \ gone) \cup (gone \cap DOMAIN channels)
      /\ Continue(t, IF DOMAIN ccall[t] = {} THEN "idle" ELSE "apply", ccall[t])
      /\ UNCHANGED <<cfile, cmtime, channels, nextId, unnoted>>

(* ... and each channel of it in turn.                                     *)
Apply(t) ==
  /\ cpc[t] = "apply"
  /\ \E id \in DOMAIN ccall[t] :
       /\ ApplyTo(id, ccall[t][id])
       /\ RecordApplied(id, ccall[t][id])
       /\ LET rest == Without(ccall[t], {id})
          IN  Continue(t, IF DOMAIN rest = {} THEN "idle" ELSE "apply", rest)
  /\ UNCHANGED <<cfile, cmtime, channels, nextId, unnoted>>

EditChannels(contents) ==
  /\ cfile' = contents /\ cmtime' = cmtime + 1
  /\ UNCHANGED <<channels, nextId, unnoted, bots, last, disputed, cpc, ccall>>

(* Boot: Load and StartAll, every bot that can be connected.               *)
BootChannels(file) ==
  /\ cfile = file /\ cmtime = 0
  /\ \E r \in LoadedChannels(IF file \in {NoChannels, NotJson} THEN Nothing ELSE file) :
       channels = r.channels /\ nextId = r.nextId /\ unnoted = r.unnoted
  /\ LET up == {id \in DOMAIN channels :
                  channels[id].enabled /\ channels[id].type = "feishu" /\ channels[id].params # "none"}
     IN  bots = [id \in up |-> channels[id].params]
  /\ last = channels /\ disputed = {}
  /\ cpc = [t \in Workers |-> "idle"] /\ ccall = [t \in Workers |-> Nothing]

-----------------------------------------------------------------------------
(* A bot runs with the parameters the service saw last, and only for a     *)
(* channel that was then an enabled feishu one, in whatever order requests,*)
(* reloads and the shutdown reached the service.                           *)
BotMatchesLast ==
  \A id \in DOMAIN bots :
    /\ id \in DOMAIN last
    /\ last[id].enabled /\ last[id].type = "feishu" /\ last[id].params = bots[id]

(* The number the next channel gets is none that the manager gave out or   *)
(* found in a file it read to the end, over reloads, removals and updates: *)
(* creating a channel replaces only one whose id a caller chose, or that   *)
(* came with a file that was read halfway.                                 *)
NextIdIsFree == \A n \in Numbered(DOMAIN channels) \ unnoted : n < nextId

(* The bot of an id is what the manager's entry asks for.                  *)
InStep(id) ==
  LET wanted == /\ id \in DOMAIN channels
                /\ channels[id].enabled /\ channels[id].type = "feishu" /\ channels[id].params # "none"
  IN  IF wanted THEN id \in DOMAIN bots /\ bots[id] = channels[id].params ELSE id \notin DOMAIN bots

=============================================================================
