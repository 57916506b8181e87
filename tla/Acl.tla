--------------------------------- MODULE Acl ---------------------------------
(***************************************************************************)
(* Access control lists (acl.c): the users, what their rules allow them,   *)
(* the clients that are logged in as them, the file the users are kept in  *)
(* and the log of what was denied.                                         *)
(*                                                                         *)
(* Abstractions.  A rule is a tuple: its operator and its arguments, so    *)
(* that <<"+", "get">> is +get and <<"+|", "config", "get">> is            *)
(* +config|get.  A command is its own number in the bitmap; the reserved   *)
(* last bit is FutureCommands.  The hash of a password is a pair.  A user  *)
(* is freed by its address: the addresses in use are the domain of heap,   *)
(* and a new user takes the least one that is free.                        *)
(***************************************************************************)
EXTENDS Support

LOCAL INSTANCE SequencesExt
LOCAL INSTANCE FiniteSetsExt
LOCAL INSTANCE Functions

CONSTANTS
  orig_commands,          \* the command table: [name, flags, keys, chans]
  ACLCommandCategories,   \* the categories in their order
  acl_pubsub_default,     \* whether a new user may use every channel
  ACL_LOG_GROUPING_MAX_TIME_DELTA,
  toscan,                 \* 10: how many entries of the log are looked at
  acllog_max_len          \* how many are kept

FutureCommands == "future"
DefaultUser == 1

CommandNames == {cmd.name : cmd \in Range(orig_commands)}
ACLLookupCommand(name) == CHOOSE cmd \in Range(orig_commands) : cmd.name = name

ACLHashPassword(password) == <<"hash", password>>
ACLCheckPasswordHash(h) == h[1] = "hash"
Space == 32
ACLStringHasSpaces(q) == \E i \in 1..Len(q) : q[i] \in {Space, 0}

-----------------------------------------------------------------------------
(* The bitmap of commands *)

Flagged(u, on, off) == [u EXCEPT !.flags = (@ \ off) \union on]

ACLResetSubcommands(u) == [u EXCEPT !.subs = [cmd \in {} |-> <<>>]]

\* Mutant: the subcommands survive a rule for the whole command.
SubcommandsKept(u, cmd) == u

ACLResetSubcommandsForCommand(u, cmd) ==
  [u EXCEPT !.subs = Restrict(@, DOMAIN @ \ {cmd})]

AddNew(q, x) == IF x \in Range(q) THEN q ELSE Append(q, x)

ACLAddAllowedSubcommand(u, cmd, sub) ==
  [u EXCEPT !.subs = [c \in DOMAIN @ \union {cmd} |->
     IF c # cmd THEN @[c] ELSE IF c \in DOMAIN @ THEN AddNew(@[c], sub) ELSE <<sub>>]]

ACLGetUserCommandBit(u, cmd) == cmd \in u.allowed
ACLUserCanExecuteFutureCommands(u) == ACLGetUserCommandBit(u, FutureCommands)

ACLSetUserCommandBit(u, cmd, value) ==
  IF value THEN [u EXCEPT !.allowed = @ \union {cmd}]
  ELSE [Flagged(u, {}, {"allcommands"}) EXCEPT !.allowed = @ \ {cmd}]

InCategory(cat) == SelectSeq(orig_commands, LAMBDA cmd : cat \in cmd.flags)

ACLSetUserCommandBitsForCategory(u, cat, value) ==
  LET names == {cmd.name : cmd \in Range(InCategory(cat))}
  IN  [u EXCEPT !.allowed = IF value THEN @ \union names ELSE @ \ names,
                !.flags = IF value \/ names = {} THEN @ ELSE @ \ {"allcommands"},
                !.subs = Restrict(@, DOMAIN @ \ names)]

ACLCountCategoryBitsForUser(u, cat) ==
  LET on == {cmd \in Range(InCategory(cat)) : ACLGetUserCommandBit(u, cmd.name)}
  IN  [on |-> Cardinality(on), off |-> Len(InCategory(cat)) - Cardinality(on)]

-----------------------------------------------------------------------------
(* Rules *)

NewUser ==
  [flags |-> {"off"} \union (IF acl_pubsub_default THEN {"allchannels"} ELSE {}),
   allowed |-> {}, subs |-> [cmd \in {} |-> <<>>],
   passwords |-> <<>>, patterns |-> <<>>, channels |-> <<>>]

(* The rules that are a word. *)
SetProperty(u, op) ==
  CASE op = "on"  -> Flagged(u, {"on"}, {"off"})
    [] op = "off" -> Flagged(u, {"off"}, {"on"})
    [] op = "skip-sanitize-payload" -> Flagged(u, {op}, {"sanitize-payload"})
    [] op = "sanitize-payload" -> Flagged(u, {op}, {"skip-sanitize-payload"})
    [] op = "allkeys"   -> [Flagged(u, {"allkeys"}, {}) EXCEPT !.patterns = <<>>]
    [] op = "resetkeys" -> [Flagged(u, {}, {"allkeys"}) EXCEPT !.patterns = <<>>]
    [] op = "allchannels"   -> [Flagged(u, {"allchannels"}, {}) EXCEPT !.channels = <<>>]
    [] op = "resetchannels" -> [Flagged(u, {}, {"allchannels"}) EXCEPT !.channels = <<>>]
    [] op = "allcommands" ->
         ACLResetSubcommands([Flagged(u, {"allcommands"}, {}) EXCEPT
                                !.allowed = CommandNames \union {FutureCommands}])
    [] op = "nocommands" ->
         ACLResetSubcommands([Flagged(u, {}, {"allcommands"}) EXCEPT !.allowed = {}])
    [] op = "nopass"    -> [Flagged(u, {"nopass"}, {}) EXCEPT !.passwords = <<>>]
    [] op = "resetpass" -> [Flagged(u, {}, {"nopass"}) EXCEPT !.passwords = <<>>]

Words == {"on", "off", "skip-sanitize-payload", "sanitize-payload", "allkeys", "resetkeys",
          "allchannels", "resetchannels", "allcommands", "nocommands", "nopass", "resetpass"}

ResetWords ==
  <<"resetpass", "resetkeys", "resetchannels">>
  \o (IF acl_pubsub_default THEN <<"allchannels">> ELSE <<>>)
  \o <<"off", "sanitize-payload", "nocommands">>

Okay(u) == [u |-> u, errno |-> "ok"]
Fail(u, errno) == [u |-> u, errno |-> errno]

SetPassword(u, op) ==
  LET hash == IF op[1] \in {">", "<"} THEN ACLHashPassword(op[2]) ELSE op[2]
  IN  CASE ~ACLCheckPasswordHash(hash) -> Fail(u, "EBADMSG")
        [] op[1] \in {">", "#"} ->
             Okay([Flagged(u, {}, {"nopass"}) EXCEPT !.passwords = AddNew(@, hash)])
        [] hash \notin Range(u.passwords) -> Fail(u, "ENODEV")
        [] OTHER -> Okay([u EXCEPT !.passwords = SelectSeq(@, LAMBDA p : p # hash)])

SetPattern(u, op) ==
  CASE op[1] = "~" /\ "allkeys" \in u.flags -> Fail(u, "EEXIST")
    [] op[1] = "&" /\ "allchannels" \in u.flags -> Fail(u, "EISDIR")
    [] ACLStringHasSpaces(op[2]) -> Fail(u, "EINVAL")
    [] op[1] = "~" -> Okay([u EXCEPT !.patterns = AddNew(@, op[2])])
    [] OTHER       -> Okay([u EXCEPT !.channels = AddNew(@, op[2])])

SetCommand(u, op) ==
  CASE op[2] \notin CommandNames -> Fail(u, "ENOENT")
    [] op[1] = "+|" ->
         IF op[3] = "" THEN Fail(u, "EINVAL")
         ELSE Okay(IF ACLGetUserCommandBit(u, op[2]) THEN u
                   ELSE ACLAddAllowedSubcommand(u, op[2], op[3]))
    [] OTHER -> Okay(ACLResetSubcommandsForCommand(
                       ACLSetUserCommandBit(u, op[2], op[1] = "+"), op[2]))

ACLSetUser(u, op) ==
  CASE op[1] \in Words -> Okay(SetProperty(u, op[1]))
    [] op[1] \in {">", "#", "<", "!"} -> SetPassword(u, op)
    [] op[1] \in {"~", "&"} -> SetPattern(u, op)
    [] op[1] \in {"+", "-", "+|"} -> SetCommand(u, op)
    [] op[1] \in {"+@", "-@"} ->
         IF op[2] \notin Range(ACLCommandCategories) THEN Fail(u, "ENOENT")
         ELSE Okay(ACLSetUserCommandBitsForCategory(u, op[2], op[1] = "+@"))
    [] op[1] = "reset" -> Okay(FoldLeft(SetProperty, u, ResetWords))
    [] OTHER -> Fail(u, "EINVAL")

(* The rules one after the other, up to the first that fails. *)
RECURSIVE ApplyRules(_, _)
ApplyRules(u, ops) ==
  LET r == ACLSetUser(u, Head(ops))
  IN  CASE ops = <<>> -> Okay(u)
        [] ops # <<>> -> IF r.errno = "ok" THEN ApplyRules(r.u, Tail(ops)) ELSE r

-----------------------------------------------------------------------------
(* A user as rules: categories first, as long as one has more commands in  *)
(* common with what is left than it has not, then single commands.         *)

(* The best category for the rest of the bitmap, 0 if none fits. *)
BestCategory(rest, applied, additive) ==
  LET Fit(j) == LET n == ACLCountCategoryBitsForUser(rest, ACLCommandCategories[j])
                IN  IF additive THEN [diff |-> n.off, same |-> n.on]
                    ELSE [diff |-> n.on, same |-> n.off]
      J == {j \in DOMAIN ACLCommandCategories \ applied : Fit(j).same > Fit(j).diff}
      Before(i, j) == \/ Fit(i).diff < Fit(j).diff
                      \/ Fit(i).diff = Fit(j).diff /\ Fit(i).same > Fit(j).same
                      \/ Fit(i) = Fit(j) /\ i <= j
  IN  IF J = {} THEN 0 ELSE CHOOSE i \in J : \A j \in J : Before(i, j)

RECURSIVE AddCategories(_, _)
AddCategories(d, additive) ==
  LET sign == IF additive THEN <<"+@", "-@">> ELSE <<"-@", "+@">>
      best == BestCategory(d.temp, d.applied, additive)
      cat == ACLCommandCategories[best]
  IN  IF best = 0 THEN d
      ELSE AddCategories([fake |-> ACLSetUser(d.fake, <<sign[1], cat>>).u,
                          temp |-> ACLSetUser(d.temp, <<sign[2], cat>>).u,
                          applied |-> d.applied \union {best},
                          rules |-> Append(d.rules, <<sign[1], cat>>)], additive)

DescribeCategories(u, additive) ==
  LET first == IF additive THEN "nocommands" ELSE "allcommands"
      zero == [NewUser EXCEPT !.flags = {}]
  IN  AddCategories([fake |-> SetProperty(zero, first),
                     temp |-> [zero EXCEPT !.allowed = u.allowed],
                     applied |-> {}, rules |-> <<<<first>>>>], additive)

(* A rule for a command whose bit is still wrong, then its subcommands. *)
DescribeCommand(u, fake, name) ==
  LET bit == ACLGetUserCommandBit(u, name)
      wrong == bit # ACLGetUserCommandBit(fake, name)
      subs == IF ~bit /\ name \in DOMAIN u.subs THEN u.subs[name] ELSE <<>>
  IN  (IF wrong THEN <<<<IF bit THEN "+" ELSE "-", name>>>> ELSE <<>>)
      \o [k \in DOMAIN subs |-> <<"+|", name, subs[k]>>]

(* The server panics if the bitmap is not the one of the rules, with which *)
(* the bits of the commands have been set right.                           *)
ACLDescribeUserCommandRules(u) ==
  LET d == DescribeCategories(u, ~ACLUserCanExecuteFutureCommands(u))
      single == [k \in DOMAIN orig_commands |-> DescribeCommand(u, d.fake, orig_commands[k].name)]
      fixed == (d.fake.allowed \ CommandNames) \union (u.allowed \intersect CommandNames)
  IN  [rules |-> d.rules \o FlattenSeq(<<>> \o single), panic |-> fixed # u.allowed]

ACLDescribeUser(u) ==
  SelectSeq(<<<<"on">>, <<"off">>, <<"nopass">>, <<"skip-sanitize-payload">>,
              <<"sanitize-payload">>>>, LAMBDA w : w[1] \in u.flags)
  \o [k \in DOMAIN u.passwords |-> <<"#", u.passwords[k]>>]
  \o (IF "allkeys" \in u.flags THEN <<<<"allkeys">>>>
      ELSE [k \in DOMAIN u.patterns |-> <<"~", u.patterns[k]>>])
  \o (IF "allchannels" \in u.flags THEN <<<<"allchannels">>>>
      ELSE <<<<"resetchannels">>>> \o [k \in DOMAIN u.channels |-> <<"&", u.channels[k]>>])
  \o ACLDescribeUserCommandRules(u).rules

-----------------------------------------------------------------------------
(* The users and their clients.  st.Users maps names to addresses, st.heap *)
(* the addresses in use to users; a client that is not open has been freed *)
(* or is only waiting to be.                                               *)

NoSubs == [channels |-> {}, patterns |-> {}]
Closed == [open |-> FALSE, user |-> DefaultUser, authenticated |-> FALSE, subs |-> NoSubs]

Named(st, name) == st.heap[st.Users[name]]

Allocate(st, name, u) ==
  LET address == CHOOSE a \in 1..Cardinality(DOMAIN st.heap) + 1 :
                   /\ a \notin DOMAIN st.heap
                   /\ \A b \in 1..a - 1 : b \in DOMAIN st.heap
  IN  [st EXCEPT !.heap = [a \in DOMAIN @ \union {address} |-> IF a = address THEN u ELSE @[a]],
                 !.Users = [n \in DOMAIN @ \union {name} |-> IF n = name THEN address ELSE @[n]]]

(* ACLCreateUser, and reset if there is such a user already. *)
CreateOrReset(users, name) ==
  [n \in DOMAIN users \union {name} |->
     IF n # name THEN users[n]
     ELSE IF n \in DOMAIN users THEN ACLSetUser(users[n], <<"reset">>).u ELSE NewUser]

ACLFreeUserAndKillClients(st, address) ==
  [st EXCEPT !.clients = [c \in DOMAIN @ |-> IF @[c].user = address THEN Closed ELSE @[c]],
             !.heap = Restrict(@, DOMAIN @ \ {address})]

ACLInitDefaultUser ==
  FoldLeft(SetProperty, NewUser, <<"allcommands", "allkeys", "allchannels", "on", "nopass">>)

ACLInit(clients, lines) ==
  [heap |-> (DefaultUser :> ACLInitDefaultUser), Users |-> ("default" :> DefaultUser),
   clients |-> [c \in clients |-> Closed], file |-> lines, failed |-> FALSE]

-----------------------------------------------------------------------------
(* The users of a file.  A line is the name of a user and its rules; a line*)
(* without a name does not start as it should.  No line counts once one    *)
(* has had an error.                                                       *)

LoadLine(acc, line) ==
  LET valid == /\ line.name # ""
               /\ ApplyRules(ACLSetUser(NewUser, <<"reset">>).u, line.rules).errno = "ok"
      users == CreateOrReset(acc.users, line.name)
      done == ApplyRules(users[line.name], line.rules)
  IN  IF acc.error \/ ~valid THEN [acc EXCEPT !.error = TRUE]
      ELSE [acc EXCEPT !.users = [users EXCEPT ![line.name] = done.u],
                       !.failed = @ \/ done.errno # "ok"]

(* The new default user is copied into the old one, whose address is known *)
(* in many places; all the other users are new, and the old ones freed.    *)
ACLLoadFromFile(st) ==
  LET read == FoldLeft(LoadLine, [users |-> ("default" :> ACLInitDefaultUser),
                                  error |-> FALSE, failed |-> FALSE], st.file)
      old == Range(st.Users) \ {DefaultUser}
      fresh == SetToSeq(DOMAIN read.users \ {"default"})
      loaded == FoldLeft(LAMBDA t, n : Allocate(t, n, read.users[n]),
                         [st EXCEPT !.Users = Restrict(@, {"default"}),
                                    !.heap[DefaultUser] = read.users["default"],
                                    !.failed = read.failed], fresh)
  IN  IF read.error THEN [st EXCEPT !.failed = read.failed]
      ELSE FoldLeft(ACLFreeUserAndKillClients, loaded, SetToSeq(old))

(* The file is replaced as a whole, if it could be written. *)
ACLSaveToFile(st, written) ==
  LET names == SetToSeq(DOMAIN st.Users)
      Line(n) == [name |-> n, rules |-> ACLDescribeUser(Named(st, n))]
  IN  [st EXCEPT !.file = IF written THEN [k \in DOMAIN names |-> Line(names[k])] ELSE @,
                 !.failed = @ \/ \E n \in DOMAIN st.Users :
                                   ACLDescribeUserCommandRules(Named(st, n)).panic]

(* The lines of redis.conf: a rule that names an unknown command passes the*)
(* first test, which is made before the modules are loaded.                *)
ACLAppendUserForLoading(line) ==
  LET Try(u, op) == LET r == ACLSetUser(u.u, op)
                    IN  IF r.errno \in {"ok", "ENOENT"} /\ u.errno = "ok" THEN Okay(r.u)
                        ELSE Fail(u.u, "EINVAL")
  IN  line.name # "" /\ FoldLeft(Try, Okay(NewUser), line.rules).errno = "ok"

ACLLoadConfiguredUsers(users, lines) ==
  FoldLeft(LAMBDA acc, line :
             LET u == CreateOrReset(acc.users, line.name)
                 done == ApplyRules(u[line.name], line.rules)
             IN  IF acc.error THEN acc
                 ELSE [users |-> [u EXCEPT ![line.name] = done.u],
                       error |-> done.errno # "ok"],
           [users |-> users, error |-> FALSE], lines)

(* A restart: from the file, or from the lines of redis.conf.  The server  *)
(* does not start if there is an error in them.                            *)
ACLLoadUsersAtStartup(st, aclfile) ==
  LET init == ACLInit(DOMAIN st.clients, st.file)
      conf == ACLLoadConfiguredUsers("default" :> ACLInitDefaultUser, st.file)
  IN  IF aclfile THEN ACLLoadFromFile(init)
      ELSE FoldLeft(LAMBDA t, n : Allocate(t, n, conf.users[n]),
                    [init EXCEPT !.heap[DefaultUser] = conf.users["default"]],
                    SetToSeq(DOMAIN conf.users \ {"default"}))

Startable(st, aclfile) ==
  IF aclfile
  THEN ~FoldLeft(LoadLine, [users |-> ("default" :> ACLInitDefaultUser),
                            error |-> FALSE, failed |-> FALSE], st.file).error
  ELSE /\ \A k \in DOMAIN st.file : ACLAppendUserForLoading(st.file[k])
       /\ ~ACLLoadConfiguredUsers("default" :> ACLInitDefaultUser, st.file).error

-----------------------------------------------------------------------------
(* Checks.  A request is a command, its first argument, its keys and its   *)
(* channels; the patterns of PSUBSCRIBE are compared literally.            *)

ACLCheckUserCredentials(st, name, password) ==
  /\ name \in DOMAIN st.Users
  /\ LET u == Named(st, name)
     IN  /\ "off" \notin u.flags
         /\ "nopass" \in u.flags \/ ACLHashPassword(password) \in Range(u.passwords)

ACLCheckCommandPerm(u, req) ==
  LET cmd == ACLLookupCommand(req.cmd)
  IN  CASE /\ "allcommands" \notin u.flags /\ "no_auth" \notin cmd.flags
           /\ ~ACLGetUserCommandBit(u, req.cmd)
           /\ \/ req.sub = "" \/ req.cmd \notin DOMAIN u.subs
              \/ req.sub \notin Range(u.subs[req.cmd]) -> "command"
        [] /\ "allkeys" \notin u.flags
           /\ \E k \in DOMAIN req.keys : \A p \in Range(u.patterns) :
                ~stringmatchlen(p, req.keys[k], FALSE) -> "key"
        [] OTHER -> "ok"

ACLCheckPubsubChannelPerm(channel, allowed, literal) ==
  \E p \in Range(allowed) : IF literal THEN p = channel ELSE stringmatchlen(p, channel, FALSE)

ACLCheckPubsubPerm(u, channels, literal) ==
  \/ "allchannels" \in u.flags
  \/ \A k \in DOMAIN channels : ACLCheckPubsubChannelPerm(channels[k], u.channels, literal)

ACLCheckAllPerm(u, req) ==
  LET command == ACLCheckCommandPerm(u, req)
  IN  CASE command # "ok" -> command
        [] ACLCheckPubsubPerm(u, req.chans, req.cmd = "psubscribe") -> "ok"
        [] OTHER -> "channel"

(* Whether a client has to log in first, and what its user may do. *)
processCommand(st, c, req) ==
  LET default == st.heap[DefaultUser].flags
      auth_required == /\ "nopass" \notin default \/ "off" \in default
                       /\ ~st.clients[c].authenticated
  IN  IF auth_required /\ "no_auth" \notin ACLLookupCommand(req.cmd).flags THEN "auth"
      ELSE ACLCheckAllPerm(st.heap[st.clients[c].user], req)

-----------------------------------------------------------------------------
(* Commands *)

clientSetDefaultAuth(st, c) ==
  LET default == st.heap[DefaultUser].flags
  IN  [st EXCEPT !.clients[c] = [open |-> TRUE, user |-> DefaultUser, subs |-> NoSubs,
         authenticated |-> "nopass" \in default /\ "off" \notin default]]

(* AUTH; without a name it is the default user, which has to have a        *)
(* password.                                                               *)
authCommand(st, c, name, password) ==
  LET username == IF name = "" THEN "default" ELSE name
  IN  IF \/ name = "" /\ "nopass" \in st.heap[DefaultUser].flags
         \/ ~ACLCheckUserCredentials(st, username, password) THEN st
      ELSE [st EXCEPT !.clients[c].authenticated = TRUE,
                      !.clients[c].user = st.Users[username]]

(* Subscribers are closed if a pattern their user had is not among the new *)
(* ones and the new ones do not allow what they are subscribed to.         *)
ACLKillPubsubClientsIfNeeded(st, address, upcoming) ==
  LET lost == \E p \in Range(st.heap[address].channels) :
                ~ACLCheckPubsubChannelPerm(p, upcoming, TRUE)
      Violates(subs) ==
        \/ \E p \in subs.patterns : ~ACLCheckPubsubChannelPerm(p, upcoming, TRUE)
        \/ \E ch \in subs.channels : ~ACLCheckPubsubChannelPerm(ch, upcoming, FALSE)
  IN  [st EXCEPT !.clients = [c \in DOMAIN @ |->
         IF lost /\ @[c].user = address /\ Violates(@[c].subs) THEN Closed ELSE @[c]]]

aclSetuser(st, name, ops) ==
  LET known == name \in DOMAIN st.Users
      temp == ApplyRules(IF known THEN Named(st, name) ELSE NewUser, ops)
      kept == IF known /\ "allchannels" \notin temp.u.flags
              THEN ACLKillPubsubClientsIfNeeded(st, st.Users[name], temp.u.channels) ELSE st
  IN  CASE temp.errno # "ok" -> st
        [] known -> [kept EXCEPT !.heap[st.Users[name]] = temp.u]
        [] OTHER -> Allocate(kept, name, temp.u)

aclDeluser(st, names) ==
  LET Delete(t, n) ==
        IF n \notin DOMAIN t.Users THEN t
        ELSE ACLFreeUserAndKillClients([t EXCEPT !.Users = Restrict(@, DOMAIN @ \ {n})],
                                       t.Users[n])
  IN  IF "default" \in Range(names) THEN st ELSE FoldLeft(Delete, st, names)

(* CONFIG SET requirepass *)
ACLUpdateDefaultUserPassword(st, password) ==
  LET u == SetProperty(st.heap[DefaultUser], "resetpass")
  IN  [st EXCEPT !.heap[DefaultUser] =
         IF password = "" THEN SetProperty(u, "nopass") ELSE ACLSetUser(u, <<">", password>>).u]

(* SUBSCRIBE and PSUBSCRIBE, if they are allowed. *)
aclSubscribe(st, c, req) ==
  IF processCommand(st, c, req) # "ok" THEN st
  ELSE IF req.cmd = "psubscribe"
       THEN [st EXCEPT !.clients[c].subs.patterns = @ \union Range(req.chans)]
       ELSE [st EXCEPT !.clients[c].subs.channels = @ \union Range(req.chans)]

-----------------------------------------------------------------------------
(* What rules mean: a call is a command with a first argument, and all     *)
(* keys are the pattern that matches them.                                 *)

Anything == {<<Star>>}
CallsOf(cmd) == {<<cmd.name, sub>> : sub \in cmd.subs \union {""}}
CallsWith(name) == CallsOf(ACLLookupCommand(name))
CallsIn(cat) == UNION {CallsOf(cmd) : cmd \in Range(InCategory(cat))}
AllCalls == UNION {CallsOf(cmd) : cmd \in Range(orig_commands)}

NoRights == [on |-> FALSE, nopass |-> FALSE, passwords |-> {}, keys |-> {}, skip |-> FALSE,
             channels |-> IF acl_pubsub_default THEN Anything ELSE {},
             calls |-> {}, future |-> FALSE]

AllRights == [NoRights EXCEPT !.on = TRUE, !.nopass = TRUE, !.keys = Anything,
                !.channels = Anything, !.calls = AllCalls, !.future = TRUE]

Passable(op) == CASE op[1] \in {"#", "!"} -> op[2][1] = "hash"
                  [] op[1] \in {"~", "&"} -> Space \notin Range(op[2])
                  [] op[1] \in {"+", "-"} -> op[2] \in CommandNames
                  [] op[1] = "+|" -> op[2] \in CommandNames /\ op[3] # ""
                  [] op[1] \in {"+@", "-@"} -> op[2] \in Range(ACLCommandCategories)
                  [] OTHER -> op[1] \in Words \union {">", "<", "reset"}

Password(op) == IF op[1] \in {"#", "!"} THEN op[2][2] ELSE op[2]

Accepts(m, op) ==
  /\ Passable(op)
  /\ op[1] \in {"<", "!"} => Password(op) \in m.passwords
  /\ op[1] = "~" => m.keys # Anything
  /\ op[1] = "&" => m.channels # Anything

Means(m, op) ==
  CASE op[1] \in {"on", "off"} -> [m EXCEPT !.on = op[1] = "on"]
    [] op[1] \in {"sanitize-payload", "skip-sanitize-payload"} -> [m EXCEPT !.skip = op[1] = "skip-sanitize-payload"]
    [] op[1] = "allkeys" -> [m EXCEPT !.keys = Anything]
    [] op[1] = "resetkeys" -> [m EXCEPT !.keys = {}]
    [] op[1] = "allchannels" -> [m EXCEPT !.channels = Anything]
    [] op[1] = "resetchannels" -> [m EXCEPT !.channels = {}]
    [] op[1] = "allcommands" -> [m EXCEPT !.calls = AllCalls, !.future = TRUE]
    [] op[1] = "nocommands" -> [m EXCEPT !.calls = {}, !.future = FALSE]
    [] op[1] = "nopass" -> [m EXCEPT !.nopass = TRUE, !.passwords = {}]
    [] op[1] = "resetpass" -> [m EXCEPT !.nopass = FALSE, !.passwords = {}]
    [] op[1] \in {">", "#"} -> [m EXCEPT !.nopass = FALSE, !.passwords = @ \union {Password(op)}]
    [] op[1] \in {"<", "!"} -> [m EXCEPT !.passwords = @ \ {Password(op)}]
    [] op[1] = "~" -> [m EXCEPT !.keys = @ \union {op[2]}]
    [] op[1] = "&" -> [m EXCEPT !.channels = @ \union {op[2]}]
    [] op[1] = "+" -> [m EXCEPT !.calls = @ \union CallsWith(op[2])]
    [] op[1] = "-" -> [m EXCEPT !.calls = @ \ CallsWith(op[2])]
    [] op[1] = "+|" -> [m EXCEPT !.calls = @ \union {<<op[2], op[3]>>}]
    [] op[1] = "+@" -> [m EXCEPT !.calls = @ \union CallsIn(op[2])]
    [] op[1] = "-@" -> [m EXCEPT !.calls = @ \ CallsIn(op[2])]
    [] op[1] = "reset" -> NoRights

(* The rights after all the rules, none if one of them is refused. *)
Rights(m, ops) ==
  FoldLeft(LAMBDA q, op : IF q # <<>> /\ Accepts(q[1], op) THEN <<Means(q[1], op)>> ELSE <<>>,
           <<m>>, ops)

MayUse(globs, q) == \E p \in globs : stringmatchlen(p, q, FALSE)

(* The answers about a user are those of its rights. *)
UserAnswers(u, m, asked) ==
  /\ \A password \in asked.passwords :
       ACLCheckUserCredentials([Users |-> ("u" :> 2), heap |-> (2 :> u)], "u", password)
         <=> m.on /\ (m.nopass \/ password \in m.passwords)
  /\ \A cmd \in Range(orig_commands) : \A sub \in cmd.subs \union {""} :
       LET call == [cmd |-> cmd.name, sub |-> sub, keys |-> <<>>]
       IN  ACLCheckCommandPerm(u, call) = "ok"
             <=> <<cmd.name, sub>> \in m.calls \/ "no_auth" \in cmd.flags
  /\ \A key \in asked.keys, call \in m.calls :
       ACLCheckCommandPerm(u, [cmd |-> call[1], sub |-> call[2], keys |-> <<key>>])
         = IF MayUse(m.keys, key) THEN "ok" ELSE "key"
  /\ \A channel \in asked.channels :
       /\ ACLCheckPubsubPerm(u, <<channel>>, FALSE) <=> MayUse(m.channels, channel)
       /\ ACLCheckPubsubPerm(u, <<channel>>, TRUE)
            <=> channel \in m.channels \/ m.channels = Anything
  /\ ACLUserCanExecuteFutureCommands(u) <=> m.future
  /\ "skip-sanitize-payload" \in u.flags <=> m.skip

(* The answers about the users, about what they are once they are written  *)
(* as rules and read again, and about the clients.                         *)
AclAnswers(kd, st, val) ==
  LET Expected(c, req) ==
        LET m == val.users[val.who[c]]
            d == val.users["default"]
            free == "no_auth" \in ACLLookupCommand(req.cmd).flags
        IN  CASE ~val.authed[c] /\ ~(d.on /\ d.nopass) /\ ~free -> "auth"
              [] ~free /\ <<req.cmd, req.sub>> \notin m.calls -> "command"
              [] \E k \in Range(req.keys) : ~MayUse(m.keys, k) -> "key"
              [] \E ch \in Range(req.chans) :
                   ~IF req.cmd = "psubscribe" THEN ch \in m.channels \/ m.channels = Anything
                    ELSE MayUse(m.channels, ch) -> "channel"
              [] OTHER -> "ok"
      Subscribed(c) == LET u == st.heap[st.clients[c].user]
                           subs == st.clients[c].subs
                       IN  /\ ACLCheckPubsubPerm(u, SetToSeq(subs.channels), FALSE)
                           /\ ACLCheckPubsubPerm(u, SetToSeq(subs.patterns), TRUE)
  IN  /\ DOMAIN st.Users = DOMAIN val.users
      /\ \A n \in DOMAIN st.Users :
           LET u == Named(st, n)
               again == ApplyRules(NewUser, ACLDescribeUser(u))
           IN  /\ UserAnswers(u, val.users[n], kd)
               /\ again.errno = "ok" /\ UserAnswers(again.u, val.users[n], kd)
      /\ Startable(st, kd.aclfile) <=> val.file # <<>>
      /\ \A c \in DOMAIN st.clients :
           /\ st.clients[c].open <=> val.who[c] # ""
           /\ st.clients[c].open =>
                /\ \A req \in kd.requests : processCommand(st, c, req) = Expected(c, req)
                /\ val.kept[c] \/ Subscribed(c)

(* The users have an address each, and no client has one that was freed. *)
AclSound(st) ==
  /\ ~st.failed
  /\ Range(st.Users) = DOMAIN st.heap /\ IsInjective(st.Users)
  /\ st.Users["default"] = DefaultUser
  /\ \A c \in DOMAIN st.clients : st.clients[c].user \in DOMAIN st.heap
  /\ \A n \in DOMAIN st.Users : ~ACLDescribeUserCommandRules(Named(st, n)).panic

-----------------------------------------------------------------------------
(* The same operations on the rights *)

(* The rights in a file, nothing if there is an error in it. *)
Reading(lines) ==
  LET Line(q, line) ==
        LET m == IF line.name \in DOMAIN q[1] THEN Means(q[1][line.name], <<"reset">>) ELSE NoRights
            r == Rights(m, line.rules)
        IN  IF q = <<>> \/ line.name = "" \/ r = <<>> THEN <<>> ELSE <<(line.name :> r[1]) @@ q[1]>>
  IN  FoldLeft(Line, <<"default" :> AllRights>>, lines)

AclValue(clients, lines) ==
  [users |-> ("default" :> AllRights), file |-> Reading(lines),
   who |-> [c \in clients |-> ""], authed |-> [c \in clients |-> FALSE],
   kept |-> [c \in clients |-> FALSE]]

(* The clients in C are gone. *)
Gone(val, C) ==
  [val EXCEPT !.who = [c \in DOMAIN @ |-> IF c \in C THEN "" ELSE @[c]],
              !.authed = [c \in DOMAIN @ |-> @[c] /\ c \notin C],
              !.kept = [c \in DOMAIN @ |-> @[c] /\ c \notin C]]

(* Subscriptions last although they are no longer allowed if the user had  *)
(* all the channels in between, or if it is the default user and ACL LOAD  *)
(* has changed it.                                                         *)
Lasting(val, st, C) ==
  [val EXCEPT !.kept = [c \in DOMAIN @ |-> @[c] \/ (c \in C /\ st.clients[c].subs # NoSubs)]]

ValueSetuser(val, st, name, ops) ==
  LET r == Rights(IF name \in DOMAIN val.users THEN val.users[name] ELSE NoRights, ops)
      C == {c \in DOMAIN val.who : val.who[c] = name}
      new == [val EXCEPT !.users = (name :> r[1]) @@ @]
  IN  CASE r = <<>> -> val
        [] r[1].channels = Anything -> Lasting(new, st, C)
        [] OTHER -> Gone(new, {c \in C : ~st.clients[c].open})

ValueDeluser(val, names) ==
  IF "default" \in Range(names) THEN val
  ELSE Gone([val EXCEPT !.users = Restrict(@, DOMAIN @ \ Range(names))],
            {c \in DOMAIN val.who : val.who[c] \in Range(names)})

ValueLoad(val, st) ==
  IF val.file = <<>> THEN val
  ELSE LET C == {c \in DOMAIN val.who : val.who[c] = "default"}
       IN  Lasting(Gone([val EXCEPT !.users = val.file[1]], DOMAIN val.who \ C), st, C)

ValueAuth(val, c, name, password) ==
  LET n == IF name = "" THEN "default" ELSE name
  IN  IF \/ n \notin DOMAIN val.users
         \/ name = "" /\ val.users[n].nopass
         \/ ~val.users[n].on
         \/ ~val.users[n].nopass /\ password \notin val.users[n].passwords THEN val
      ELSE [val EXCEPT !.who[c] = n, !.authed[c] = TRUE]

ValueConnect(val, c) ==
  LET d == val.users["default"]
  IN  [val EXCEPT !.who[c] = "default", !.authed[c] = d.on /\ d.nopass]

ValueRequirepass(val, password) ==
  [val EXCEPT !.users["default"].nopass = password = "",
              !.users["default"].passwords = IF password = "" THEN {} ELSE {password}]

-----------------------------------------------------------------------------
(* The log of what was denied: the newest entry first.  What an entry is   *)
(* about (reason, context, object and user name) is one value.             *)

ACLLogMatchEntry(a, about, now) ==
  /\ a.about = about
  /\ now - a.ctime <= ACL_LOG_GROUPING_MAX_TIME_DELTA
  /\ a.ctime - now <= ACL_LOG_GROUPING_MAX_TIME_DELTA

addACLLogEntry(log, about, now) ==
  LET M == {i \in 1..Least(toscan, Len(log)) : ACLLogMatchEntry(log[i], about, now)}
      i == Min(M)
      new == <<[about |-> about, ctime |-> now, count |-> 1]>> \o log
  IN  IF M # {}
      THEN <<[log[i] EXCEPT !.ctime = now, !.count = @ + 1]>> \o RemoveAt(log, i)
      ELSE SubSeq(new, 1, Least(Len(new), acllog_max_len))

(* The events <<about, time>> so far are its value.  An event belongs to   *)
(* the entry of the last event about the same if that is recent and fewer  *)
(* entries than are scanned and kept had an event since.                   *)
LogAnswers(log, events) ==
  LET n == Len(events)
      Entry[i \in 1..n] ==
        LET J == {j \in 1..i - 1 : events[j][1] = events[i][1]}
            since == {Entry[k] : k \in Max(J) + 1..i - 1}
        IN  IF /\ J # {}
               /\ events[i][2] - events[Max(J)][2] <= ACL_LOG_GROUPING_MAX_TIME_DELTA
               /\ Cardinality(since) < Least(toscan, acllog_max_len)
            THEN Entry[Max(J)] ELSE i
      Latest(e) == Max({i \in 1..n : Entry[i] = e})
      all == SetToSortSeq({Entry[i] : i \in 1..n}, LAMBDA d, e : Latest(d) > Latest(e))
  IN  log = [k \in 1..Least(Len(all), acllog_max_len) |->
               [about |-> events[all[k]][1], ctime |-> events[Latest(all[k])][2],
                count |-> Cardinality({i \in 1..n : Entry[i] = all[k]})]]
=============================================================================
