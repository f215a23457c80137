---------------------------- MODULE IplinkPval ----------------------------
(***************************************************************************)
(* The configuration of a pval interface from end to end: the arguments of *)
(* `ip link add|set ... type pval' (iproute2's iplink_pval.c), the netlink *)
(* request they make, what pval_newlink and pval_changelink do with it,    *)
(* and what `ip -d link show' prints.  Several users do so at once; the    *)
(* kernel handles one request after the other, under the RTNL lock.        *)
(*                                                                         *)
(* An argument is a word.  The parser takes it for the first keyword that  *)
(* it abbreviates.                                                         *)
(***************************************************************************)
EXTENDS Naturals, Sequences

CONSTANTS
  Users,
  Commands,     \* command lines, sequences of words
  Abbreviates,  \* the keywords of which each word is a prefix
  Links,        \* words that name a network device
  NoLink        \* there is no pval interface

Switches == {"ipopt", "txtstamp", "rxtstamp", "txcopy", "rxcopy", "txbusydrop"}

ASSUME LinksAssumption == NoLink \notin Links /\ DOMAIN Abbreviates \cap Links = {}
ASSUME CommandsAssumption ==
  \A c \in Commands : c \in Seq(DOMAIN Abbreviates \cup Links)

VARIABLES
  pdev,   \* the switches of struct pval_dev
  link,   \* its lower link
  upc,    \* where each user is
  argv,   \* what pval_parse_opt has not read yet
  msg,    \* the attributes in the request, a function on the ones it has
  (* history, read by no action of the system: *)
  cmd,    \* the command line as it was typed
  asked   \* what the accepted commands said, the latest for each switch

kernelVars == <<pdev, link, asked>>
vars       == <<kernelVars, upc, argv, msg, cmd>>

Empty == [a \in {} |-> 0]

(* pval_newlink: all off, but for txbusydrop, "default true".              *)
Defaults == [s \in Switches |-> s = "txbusydrop"]
OnOff(b) == IF b THEN "on" ELSE "off"

Init ==
  /\ pdev = Defaults /\ link = NoLink
  /\ upc = [u \in Users |-> "idle"]
  /\ argv = [u \in Users |-> <<>>]
  /\ msg = [u \in Users |-> Empty]
  /\ cmd = [u \in Users |-> <<>>]
  /\ asked = [s \in Switches |-> OnOff(Defaults[s])]

(* The ip process ends.                                                    *)
Exit(u) ==
  /\ upc' = [upc EXCEPT ![u] = "idle"]
  /\ argv' = [argv EXCEPT ![u] = <<>>]
  /\ msg' = [msg EXCEPT ![u] = Empty]
  /\ cmd' = [cmd EXCEPT ![u] = <<>>]

---------------------------------------------------------------------------
(* pval_parse_opt                                                          *)

(* In the order in which they are tried.                                   *)
Keywords == <<"link", "ipopt", "txtstamp", "rxtstamp", "txcopy", "rxcopy", "txbusydrop", "help">>
Values   == <<"on", "off">>

(* The keyword a word stands for, as a set of one or none.                 *)
Means(word, keywords) ==
  LET hits == {i \in DOMAIN keywords : word \notin Links /\ keywords[i] \in Abbreviates[word]}
  IN  {keywords[i] : i \in {i \in hits : \A j \in hits : i <= j}}

(* check_duparg, then on or off, or a device; ip exits otherwise.  Mutant: *)
(* the device is not looked for.                                           *)
MutAccepts(attr, word, m) ==
  attr \notin DOMAIN m /\ (attr = "link" \/ Means(word, Values) # {})

Accepts(attr, word, m) ==
  /\ attr \notin DOMAIN m
  /\ IF attr = "link" THEN word \in Links ELSE Means(word, Values) # {}

(* addattr32 with the device, addattr8 with 1 or 0.  Mutant: the branch of *)
(* txcopy is a copy of the one of rxcopy.                                  *)
AttrValue(attr, word) ==
  IF attr = "link" THEN word ELSE IF "on" \in Means(word, Values) THEN 1 ELSE 0

MutAddAttr(m, attr, word) ==
  LET to == IF attr = "txcopy" THEN "rxcopy" ELSE attr
  IN  [a \in DOMAIN m \cup {to} |-> IF a = to THEN AttrValue(attr, word) ELSE m[a]]

AddAttr(m, attr, word) ==
  [a \in DOMAIN m \cup {attr} |-> IF a = attr THEN AttrValue(attr, word) ELSE m[a]]

Type(u, verb, c) ==
  /\ upc[u] = "idle"
  /\ upc' = [upc EXCEPT ![u] = verb]
  /\ argv' = [argv EXCEPT ![u] = c]
  /\ cmd' = [cmd EXCEPT ![u] = c]
  /\ UNCHANGED <<kernelVars, msg>>

Attr(u) == Means(argv[u][1], Keywords) \ {"help"}

ParseArg(u) ==
  /\ upc[u] # "idle" /\ Len(argv[u]) >= 2
  /\ \E attr \in Attr(u) :
       /\ Accepts(attr, argv[u][2], msg[u])
       /\ msg' = [msg EXCEPT ![u] = AddAttr(@, attr, argv[u][2])]
  /\ argv' = [argv EXCEPT ![u] = SubSeq(@, 3, Len(@))]
  /\ UNCHANGED <<kernelVars, upc, cmd>>

(* help, an unknown word, a missing, duplicate or invalid value.           *)
ParseFails(u) ==
  /\ upc[u] # "idle" /\ argv[u] # <<>>
  /\ \A attr \in Attr(u) : Len(argv[u]) >= 2 => ~Accepts(attr, argv[u][2], msg[u])
  /\ Exit(u)
  /\ UNCHANGED kernelVars

---------------------------------------------------------------------------
(* The kernel.                                                             *)

pval_nl_config(p, m) == [s \in Switches |-> IF s \in DOMAIN m THEN m[s] # 0 ELSE p[s]]

(* What a command line says to its reader, whatever the parser does: a     *)
(* switch is what the word behind it means.                                *)
Says(c, old) ==
  LET named(s) == {i \in 1..(Len(c) - 1) : i % 2 = 1 /\ s \in Means(c[i], Keywords)}
  IN  [s \in Switches |->
         IF named(s) = {} THEN old[s]
         ELSE CHOOSE v \in {"on", "off"} : \A i \in named(s) : v \in Means(c[i + 1], Values)]

Sends(u, verb) == upc[u] = verb /\ argv[u] = <<>>

(* The name must be free and the request must have a link.                 *)
pval_newlink(u) ==
  /\ Sends(u, "add")
  /\ IF link = NoLink /\ "link" \in DOMAIN msg[u]
       THEN /\ link' = msg[u]["link"]
            /\ pdev' = pval_nl_config(Defaults, msg[u])
            /\ asked' = Says(cmd[u], [s \in Switches |-> OnOff(Defaults[s])])
       ELSE UNCHANGED kernelVars
  /\ Exit(u)

(* "changing link is not supported": refused before the switches change.   *)
pval_changelink(u) ==
  /\ Sends(u, "set")
  /\ IF link # NoLink /\ "link" \notin DOMAIN msg[u]
       THEN /\ pdev' = pval_nl_config(pdev, msg[u])
            /\ asked' = Says(cmd[u], asked)
            /\ UNCHANGED link
       ELSE UNCHANGED kernelVars
  /\ Exit(u)

(* pval_dellink; the interface can be created anew.                        *)
pval_dellink ==
  /\ link # NoLink
  /\ link' = NoLink
  /\ UNCHANGED <<pdev, asked, upc, argv, msg, cmd>>

(* `ip -d link show' changes nothing: all attributes, then what ip prints. *)
pval_fill_info ==
  [a \in Switches \cup {"link"} |-> IF a = "link" THEN link ELSE IF pdev[a] THEN 1 ELSE 0]

pval_print_opt(tb) == [s \in DOMAIN tb \ {"link"} |-> OnOff(tb[s] # 0)]

Next ==
  \/ \E u \in Users :
       \/ \E verb \in {"add", "set"}, c \in Commands : Type(u, verb, c)
       \/ ParseArg(u) \/ ParseFails(u)
       \/ pval_newlink(u) \/ pval_changelink(u)
  \/ pval_dellink

Spec == Init /\ [][Next]_vars

---------------------------------------------------------------------------
(* Properties.                                                             *)

(* Among the types: the lower link is a device that exists.                *)
TypeOK ==
  /\ pdev \in [Switches -> BOOLEAN]
  /\ asked \in [Switches -> {"on", "off"}]
  /\ link \in Links \cup {NoLink}
  /\ upc \in [Users -> {"idle", "add", "set"}]
  /\ \A u \in Users : DOMAIN msg[u] \subseteq Switches \cup {"link"}

(* `ip -d link show' prints what the accepted commands said, through the   *)
(* parser, the attributes, pval_nl_config, pval_fill_info and the printer: *)
(* a switch that a command does not name keeps its value, no user's command*)
(* undoes another's, and one that is refused, by ip in the middle of its   *)
(* arguments or by the kernel, leaves no trace.                            *)
ShownAsAsked == link # NoLink => pval_print_opt(pval_fill_info) = asked
=============================================================================
