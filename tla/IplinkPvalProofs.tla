-------------------------- MODULE IplinkPvalProofs --------------------------
(***************************************************************************)
(* Proofs about IplinkPval for any users, command lines, abbreviations and *)
(* devices.                                                                *)
(*                                                                         *)
(* The parts of the inductive invariant:                                   *)
(***************************************************************************)
EXTENDS IplinkPval, TLAPS

(* What the variables of the users are, which TypeOK leaves open.          *)
UserTypes ==
  /\ DOMAIN msg = Users /\ msg = [u \in Users |-> msg[u]]
  /\ argv \in [Users -> Seq(DOMAIN Abbreviates \cup Links)]
  /\ cmd \in [Users -> Seq(DOMAIN Abbreviates \cup Links)]

(* The words that pval_parse_opt has read; those that it has not read are  *)
(* the rest of the command line.                                           *)
NumRead(u) == Len(cmd[u]) - Len(argv[u])

RestUnread(u) ==
  upc[u] # "idle" =>
    /\ NumRead(u) \in Nat /\ NumRead(u) % 2 = 0
    /\ \A i \in 1..Len(argv[u]) : argv[u][i] = cmd[u][NumRead(u) + i]

(* A word that was read for the name of a switch, and what the request says*)
(* of it: the switch is in the request if it was named, with the value     *)
(* behind every such name.                                                 *)
Names(u, i, s) == i % 2 = 1 /\ s \in Means(cmd[u][i], Keywords)

InRequest(u, s) ==
  /\ s \in DOMAIN msg[u] <=> \E i \in 1..NumRead(u) : Names(u, i, s)
  /\ \A i \in 1..NumRead(u) : Names(u, i, s) =>
       /\ Means(cmd[u][i + 1], Values) # {}
       /\ msg[u][s] = AttrValue(s, cmd[u][i + 1])

Request(u) ==
  IF upc[u] = "idle" THEN msg[u] = Empty ELSE \A s \in Switches : InRequest(u, s)

LinkExists == \A u \in Users : "link" \in DOMAIN msg[u] => msg[u]["link"] \in Links

(* The kernel's switches are the ones that were asked for.                 *)
Agree == \A s \in Switches : asked[s] = OnOff(pdev[s])

IInv ==
  /\ TypeOK /\ UserTypes /\ LinkExists /\ Agree
  /\ \A u \in Users : RestUnread(u) /\ Request(u)

USE DEF kernelVars

---------------------------------------------------------------------------
(* A word means one keyword at most: the first that it abbreviates.        *)
LEMMA MeansOne ==
  ASSUME NEW w, NEW keywords, DOMAIN keywords \subseteq Nat,
         NEW x \in Means(w, keywords), NEW y \in Means(w, keywords)
  PROVE  x = y
<1> DEFINE hits == {i \in DOMAIN keywords : w \notin Links /\ keywords[i] \in Abbreviates[w]}
<1>1. PICK i \in hits : x = keywords[i] /\ \A j \in hits : i <= j
  BY DEF Means
<1>2. PICK j \in hits : y = keywords[j] /\ \A k \in hits : j <= k
  BY DEF Means
<1>3. i \in Nat /\ j \in Nat /\ i <= j /\ j <= i
  BY <1>1, <1>2
<1>4. i = j
  BY <1>3
<1> QED
  BY <1>1, <1>2, <1>4

(* The keywords and values that there are.                                 *)
LEMMA KeywordsAre ==
  ASSUME NEW w
  PROVE  /\ Means(w, Keywords) \subseteq Switches \cup {"link", "help"}
         /\ Means(w, Values) \subseteq {"on", "off"}
         /\ \A x, y \in Means(w, Keywords) : x = y
         /\ \A x, y \in Means(w, Values) : x = y
<1>1. DOMAIN Keywords = 1..8 /\ DOMAIN Values = 1..2
  BY DEF Keywords, Values
<1>2. \A i \in 1..8 : Keywords[i] \in Switches \cup {"link", "help"}
  BY DEF Keywords, Switches
<1>3. \A i \in 1..2 : Values[i] \in {"on", "off"}
  BY DEF Values
<1>4. DOMAIN Keywords \subseteq Nat /\ DOMAIN Values \subseteq Nat
  BY <1>1
<1>5. Means(w, Keywords) \subseteq Switches \cup {"link", "help"}
  BY <1>1, <1>2 DEF Means
<1>6. Means(w, Values) \subseteq {"on", "off"}
  BY <1>1, <1>3 DEF Means
<1>7. \A x, y \in Means(w, Keywords) : x = y
  BY <1>4, MeansOne
<1>8. \A x, y \in Means(w, Values) : x = y
  BY <1>4, MeansOne
<1> QED
  BY <1>5, <1>6, <1>7, <1>8

(* addattr8 with 1 or 0 says what the word means.                          *)
LEMMA ValueOf ==
  ASSUME NEW s \in Switches, NEW w, Means(w, Values) # {}
  PROVE  Means(w, Values) = {OnOff(AttrValue(s, w) # 0)}
<1>1. AttrValue(s, w) = IF "on" \in Means(w, Values) THEN 1 ELSE 0
  BY DEF AttrValue, Switches
<1>2. CASE "on" \in Means(w, Values)
  BY <1>1, <1>2, KeywordsAre DEF OnOff
<1>3. CASE "on" \notin Means(w, Values)
  BY <1>1, <1>3, KeywordsAre DEF OnOff
<1> QED
  BY <1>2, <1>3

(* The last word of a command line of full pairs is no name.               *)
LEMMA OddBelowEven ==
  ASSUME NEW m \in Nat, m % 2 = 0, NEW i \in 1..m, i % 2 = 1
  PROVE  i \in 1..(m - 1)
<1>1. i # m
  OBVIOUS
<1> QED
  BY <1>1

(* A command line that has been read to its end says of a switch what the  *)
(* request says.                                                           *)
LEMMA SaysRequest ==
  ASSUME IInv, NEW u \in Users, upc[u] # "idle", argv[u] = <<>>, NEW old, NEW s \in Switches
  PROVE  Says(cmd[u], old)[s] =
           IF s \in DOMAIN msg[u] THEN OnOff(msg[u][s] # 0) ELSE old[s]
<1> DEFINE c == cmd[u]
<1> DEFINE named == {i \in 1..(Len(c) - 1) : i % 2 = 1 /\ s \in Means(c[i], Keywords)}
<1>1. /\ Len(c) \in Nat /\ Len(c) % 2 = 0 /\ NumRead(u) = Len(c)
  <2>1. c \in Seq(DOMAIN Abbreviates \cup Links)
    BY DEF IInv, UserTypes
  <2>2. Len(c) \in Nat /\ Len(argv[u]) = 0
    BY <2>1
  <2>3. NumRead(u) = Len(c)
    BY <2>2 DEF NumRead
  <2> QED
    BY <2>2, <2>3 DEF IInv, RestUnread
<1>2. \A i : i \in named <=> i \in 1..NumRead(u) /\ Names(u, i, s)
  <2>1. ASSUME NEW i \in 1..Len(c), i % 2 = 1 PROVE i \in 1..(Len(c) - 1)
    BY <1>1, <2>1, OddBelowEven
  <2>2. \A i \in 1..(Len(c) - 1) : i \in 1..Len(c)
    BY <1>1
  <2> QED
    BY <1>1, <2>1, <2>2 DEF Names
<1>3. /\ s \in DOMAIN msg[u] <=> \E i \in 1..NumRead(u) : Names(u, i, s)
      /\ \A i \in 1..NumRead(u) : Names(u, i, s) =>
           /\ Means(c[i + 1], Values) # {}
           /\ msg[u][s] = AttrValue(s, c[i + 1])
  BY DEF IInv, Request, InRequest
<1>4. \A i \in named : Means(c[i + 1], Values) = {OnOff(msg[u][s] # 0)}
  BY <1>2, <1>3, ValueOf
<1>5. Says(c, old)[s] =
        IF named = {} THEN old[s]
        ELSE CHOOSE v \in {"on", "off"} : \A i \in named : v \in Means(c[i + 1], Values)
  BY DEF Says
<1>6. CASE named = {}
  BY <1>2, <1>3, <1>5, <1>6
<1>7. CASE named # {}
  <2> DEFINE b == OnOff(msg[u][s] # 0)
  <2>1. b \in {"on", "off"} /\ s \in DOMAIN msg[u]
    BY <1>2, <1>3, <1>7 DEF OnOff
  <2>2. \A v \in {"on", "off"} : (\A i \in named : v \in Means(c[i + 1], Values)) <=> v = b
    BY <1>4, <1>7
  <2>3. (CHOOSE v \in {"on", "off"} : \A i \in named : v \in Means(c[i + 1], Values)) = b
    <3> HIDE DEF b, named
    <3> QED
      BY <2>1, <2>2
  <2> QED
    BY <1>5, <1>7, <2>1, <2>3
<1> QED
  BY <1>6, <1>7

---------------------------------------------------------------------------
(* A step of another user.                                                 *)
LEMMA OtherUser ==
  ASSUME NEW v \in Users, RestUnread(v), Request(v),
         upc'[v] = upc[v], msg'[v] = msg[v], argv'[v] = argv[v], cmd'[v] = cmd[v]
  PROVE  RestUnread(v)' /\ Request(v)'
<1>1. NumRead(v)' = NumRead(v)
  BY DEF NumRead
<1>2. RestUnread(v)'
  BY <1>1 DEF RestUnread
<1>3. \A i, s : Names(v, i, s)' <=> Names(v, i, s)
  BY DEF Names
<1>4. \A s \in Switches : InRequest(v, s) => InRequest(v, s)'
  BY <1>1, <1>3 DEF InRequest
<1> QED
  BY <1>2, <1>4 DEF Request

(* The ip process of a user ends; the kernel's switches may have changed.  *)
LEMMA ExitKeeps ==
  ASSUME IInv, NEW u \in Users, Exit(u),
         pdev' \in [Switches -> BOOLEAN], asked' \in [Switches -> {"on", "off"}],
         link' \in Links \cup {NoLink}, Agree'
  PROVE  IInv'
<1> USE DEF IInv
<1>1. /\ upc' \in [Users -> {"idle", "add", "set"}]
      /\ \A v \in Users : upc'[v] = IF v = u THEN "idle" ELSE upc[v]
  BY DEF Exit, TypeOK
<1>2. /\ DOMAIN msg' = Users /\ msg' = [v \in Users |-> msg'[v]]
      /\ \A v \in Users : msg'[v] = IF v = u THEN Empty ELSE msg[v]
  <2>1. msg' = [msg EXCEPT ![u] = Empty] /\ msg = [v \in Users |-> msg[v]]
    BY DEF Exit, UserTypes
  <2> QED
    BY <2>1
<1>3. /\ argv' \in [Users -> Seq(DOMAIN Abbreviates \cup Links)]
      /\ \A v \in Users : argv'[v] = IF v = u THEN <<>> ELSE argv[v]
  BY DEF Exit, UserTypes
<1>4. /\ cmd' \in [Users -> Seq(DOMAIN Abbreviates \cup Links)]
      /\ \A v \in Users : cmd'[v] = IF v = u THEN <<>> ELSE cmd[v]
  BY DEF Exit, UserTypes
<1>5. DOMAIN Empty = {}
  BY DEF Empty
<1>6. TypeOK' /\ UserTypes' /\ LinkExists'
  BY <1>1, <1>2, <1>3, <1>4, <1>5 DEF TypeOK, UserTypes, LinkExists
<1>7. ASSUME NEW v \in Users PROVE RestUnread(v)' /\ Request(v)'
  <2>1. CASE v = u
    BY <1>1, <1>2, <2>1 DEF RestUnread, Request
  <2>2. CASE v # u
    BY <1>1, <1>2, <1>3, <1>4, <2>2, OtherUser
  <2> QED
    BY <2>1, <2>2
<1> QED
  BY <1>6, <1>7

(* A command line is typed.                                                *)
LEMMA TypeKeeps ==
  ASSUME IInv, NEW u \in Users, NEW verb \in {"add", "set"}, NEW c \in Commands,
         Type(u, verb, c)
  PROVE  IInv'
<1> USE DEF IInv
<1>1. upc[u] = "idle" /\ UNCHANGED <<pdev, link, asked, msg>> /\ msg[u] = Empty
  BY DEF Type, Request
<1>2. /\ upc' \in [Users -> {"idle", "add", "set"}]
      /\ \A v \in Users : upc'[v] = IF v = u THEN verb ELSE upc[v]
  BY DEF Type, TypeOK
<1>3. c \in Seq(DOMAIN Abbreviates \cup Links) /\ Len(c) \in Nat
  BY CommandsAssumption
<1>4. /\ argv' \in [Users -> Seq(DOMAIN Abbreviates \cup Links)]
      /\ \A v \in Users : argv'[v] = IF v = u THEN c ELSE argv[v]
  BY <1>3 DEF Type, UserTypes
<1>5. /\ cmd' \in [Users -> Seq(DOMAIN Abbreviates \cup Links)]
      /\ \A v \in Users : cmd'[v] = IF v = u THEN c ELSE cmd[v]
  BY <1>3 DEF Type, UserTypes
<1>6. DOMAIN Empty = {}
  BY DEF Empty
<1>7. TypeOK' /\ UserTypes' /\ LinkExists' /\ Agree'
  BY <1>1, <1>2, <1>4, <1>5 DEF TypeOK, UserTypes, LinkExists, Agree
<1>8. ASSUME NEW v \in Users PROVE RestUnread(v)' /\ Request(v)'
  <2>1. CASE v = u
    <3>1. cmd'[v] = c /\ argv'[v] = c /\ upc'[v] # "idle" /\ msg'[v] = Empty
      BY <1>1, <1>2, <1>4, <1>5, <2>1
    <3>2. NumRead(v)' = 0
      BY <1>3, <3>1 DEF NumRead
    <3>3. \A i \in 1..Len(c) : c[i] = c[0 + i]
      BY <1>3
    <3>4. RestUnread(v)'
      BY <3>1, <3>2, <3>3 DEF RestUnread
    <3>5. \A s \in Switches : InRequest(v, s)'
      BY <1>6, <3>1, <3>2 DEF InRequest
    <3> QED
      BY <3>1, <3>4, <3>5 DEF Request
  <2>2. CASE v # u
    BY <1>1, <1>2, <1>4, <1>5, <2>2, OtherUser
  <2> QED
    BY <2>1, <2>2
<1> QED
  BY <1>7, <1>8

(* An argument and its value are read.                                     *)
LEMMA ParseArgKeeps ==
  ASSUME IInv, NEW u \in Users, ParseArg(u)
  PROVE  IInv'
<1> USE DEF IInv
<1> DEFINE r == NumRead(u)
           W == DOMAIN Abbreviates \cup Links
<1>1. /\ upc[u] # "idle" /\ Len(argv[u]) >= 2
      /\ UNCHANGED <<pdev, link, asked, upc, cmd>>
      /\ argv' = [argv EXCEPT ![u] = SubSeq(argv[u], 3, Len(argv[u]))]
  BY DEF ParseArg
<1>2. PICK attr \in Attr(u) :
        /\ Accepts(attr, argv[u][2], msg[u])
        /\ msg' = [msg EXCEPT ![u] = AddAttr(msg[u], attr, argv[u][2])]
  BY DEF ParseArg
<1>3. /\ argv[u] \in Seq(W) /\ cmd[u] \in Seq(W) /\ Len(argv[u]) \in Nat /\ Len(cmd[u]) \in Nat
  BY DEF UserTypes
<1>4. /\ SubSeq(argv[u], 3, Len(argv[u])) \in Seq(W)
      /\ Len(SubSeq(argv[u], 3, Len(argv[u]))) = Len(argv[u]) - 2
      /\ \A i \in 1..(Len(argv[u]) - 2) : SubSeq(argv[u], 3, Len(argv[u]))[i] = argv[u][i + 2]
  <2> HIDE DEF W
  <2> QED
    BY <1>1, <1>3
<1> HIDE DEF W
<1>5. /\ argv' \in [Users -> Seq(W)]
      /\ \A v \in Users : v # u => argv'[v] = argv[v]
      /\ argv'[u] = SubSeq(argv[u], 3, Len(argv[u]))
  BY <1>1, <1>4 DEF UserTypes, W
<1>6. /\ DOMAIN msg' = Users /\ msg' = [v \in Users |-> msg'[v]]
      /\ \A v \in Users : v # u => msg'[v] = msg[v]
      /\ msg'[u] = AddAttr(msg[u], attr, argv[u][2])
  <2>1. msg = [v \in Users |-> msg[v]]
    BY DEF UserTypes
  <2> QED
    BY <1>2, <2>1
<1>7. /\ attr \in Switches \cup {"link"} /\ attr \notin DOMAIN msg[u]
      /\ \A s \in Switches : s \in Means(argv[u][1], Keywords) <=> s = attr
      /\ IF attr = "link" THEN argv[u][2] \in Links ELSE Means(argv[u][2], Values) # {}
  BY <1>2, KeywordsAre DEF Attr, Accepts, Switches
<1>8. /\ DOMAIN msg'[u] = DOMAIN msg[u] \cup {attr}
      /\ \A a \in DOMAIN msg[u] : msg'[u][a] = msg[u][a]
      /\ msg'[u][attr] = AttrValue(attr, argv[u][2])
  BY <1>6, <1>7 DEF AddAttr
<1>9. TypeOK' /\ UserTypes' /\ Agree'
  <2>1. \A v \in Users : DOMAIN msg'[v] \subseteq Switches \cup {"link"}
    BY <1>6, <1>7, <1>8 DEF TypeOK
  <2>2. TypeOK' /\ Agree'
    BY <1>1, <2>1 DEF TypeOK, Agree
  <2> QED
    BY <1>1, <1>5, <1>6, <2>2 DEF UserTypes, W
<1>10. LinkExists'
  <2>1. attr = "link" => msg'[u]["link"] \in Links
    BY <1>7, <1>8 DEF AttrValue
  <2>2. "link" \in DOMAIN msg'[u] => msg'[u]["link"] \in Links
    BY <1>8, <2>1 DEF LinkExists
  <2> QED
    BY <1>6, <2>2 DEF LinkExists
<1>11. /\ r \in Nat /\ r % 2 = 0 /\ NumRead(u)' = r + 2
       /\ \A i \in 1..Len(argv[u]) : argv[u][i] = cmd[u][r + i]
  <2>1. /\ r \in Nat /\ r % 2 = 0
        /\ \A i \in 1..Len(argv[u]) : argv[u][i] = cmd[u][r + i]
    BY <1>1 DEF RestUnread
  <2>2. NumRead(u)' = r + 2
    <3>1. Len(argv'[u]) = Len(argv[u]) - 2 /\ cmd'[u] = cmd[u]
      BY <1>1, <1>4, <1>5
    <3>2. NumRead(u)' = Len(cmd[u]) - (Len(argv[u]) - 2)
      BY <3>1 DEF NumRead
    <3>3. Len(cmd[u]) - (Len(argv[u]) - 2) = Len(cmd[u]) - Len(argv[u]) + 2
      BY <1>3
    <3>4. r = Len(cmd[u]) - Len(argv[u])
      BY DEF NumRead
    <3> HIDE DEF r
    <3> QED
      BY <3>2, <3>3, <3>4
  <2> QED
    BY <2>1, <2>2
<1> HIDE DEF r
<1>12. cmd[u][r + 1] = argv[u][1] /\ cmd[u][r + 2] = argv[u][2]
  <2>1. 1 \in 1..Len(argv[u]) /\ 2 \in 1..Len(argv[u])
    BY <1>1, <1>3
  <2> QED
    BY <1>11, <2>1
<1>13. RestUnread(u)'
  <2>1. NumRead(u)' \in Nat /\ NumRead(u)' % 2 = 0
    BY <1>11
  <2>2. ASSUME NEW i \in 1..Len(argv'[u]) PROVE argv'[u][i] = cmd[u][r + 2 + i]
    <3>1. i \in 1..(Len(argv[u]) - 2) /\ i + 2 \in 1..Len(argv[u]) /\ r + (i + 2) = r + 2 + i
      BY <1>1, <1>3, <1>4, <1>5, <1>11
    <3>2. argv'[u][i] = argv[u][i + 2]
      BY <1>4, <1>5, <3>1
    <3> QED
      BY <1>11, <3>1, <3>2
  <2> QED
    BY <1>1, <1>11, <2>1, <2>2 DEF RestUnread
<1>14. ASSUME NEW s \in Switches PROVE InRequest(u, s)'
  <2>1. /\ s \in DOMAIN msg[u] <=> \E i \in 1..r : Names(u, i, s)
        /\ \A i \in 1..r : Names(u, i, s) =>
             /\ Means(cmd[u][i + 1], Values) # {}
             /\ msg[u][s] = AttrValue(s, cmd[u][i + 1])
    BY <1>1 DEF Request, InRequest, r
  <2>2. \A i : Names(u, i, s)' <=> Names(u, i, s)
    BY <1>1 DEF Names
  <2>3. Names(u, r + 1, s) <=> s = attr
    <3>1. (r + 1) % 2 = 1
      BY <1>11
    <3> QED
      BY <1>7, <1>12, <3>1 DEF Names
  <2>4. ~Names(u, r + 2, s)
    <3>1. (r + 2) % 2 # 1
      BY <1>11
    <3> QED
      BY <3>1 DEF Names
  <2>5. \A i \in 1..(r + 2) : i \in 1..r \/ i = r + 1 \/ i = r + 2
    BY <1>11
  <2>6. r + 1 \in 1..(r + 2) /\ r + 1 + 1 = r + 2 /\ \A i \in 1..r : i \in 1..(r + 2)
    BY <1>11
  <2>7. s \in DOMAIN msg'[u] <=> \E i \in 1..(r + 2) : Names(u, i, s)
    BY <1>8, <2>1, <2>3, <2>4, <2>5, <2>6
  <2>8. ASSUME NEW i \in 1..(r + 2), Names(u, i, s)
        PROVE  /\ Means(cmd[u][i + 1], Values) # {}
               /\ msg'[u][s] = AttrValue(s, cmd[u][i + 1])
    <3>1. CASE i \in 1..r
      BY <1>8, <2>1, <2>8, <3>1
    <3>2. CASE i = r + 1
      <4>1. s = attr /\ cmd[u][i + 1] = argv[u][2] /\ attr # "link"
        BY <1>12, <2>3, <2>6, <2>8, <3>2 DEF Switches
      <4> QED
        BY <1>7, <1>8, <4>1
    <3> QED
      BY <2>4, <2>5, <2>8, <3>1, <3>2
  <2> QED
    BY <1>1, <1>11, <2>2, <2>7, <2>8 DEF InRequest
<1>15. Request(u)'
  BY <1>1, <1>14 DEF Request
<1>16. ASSUME NEW v \in Users, v # u PROVE RestUnread(v)' /\ Request(v)'
  BY <1>1, <1>5, <1>6, <1>16, OtherUser
<1> QED
  BY <1>9, <1>10, <1>13, <1>15, <1>16

---------------------------------------------------------------------------
(* The kernel takes a request: the switches it names are set, and these are*)
(* the ones that the command line named.                                   *)
LEMMA Configured ==
  ASSUME IInv, NEW u \in Users, upc[u] # "idle", argv[u] = <<>>,
         NEW p \in [Switches -> BOOLEAN], NEW old,
         \A s \in Switches : old[s] = OnOff(p[s]),
         pdev' = pval_nl_config(p, msg[u]), asked' = Says(cmd[u], old)
  PROVE  /\ pdev' \in [Switches -> BOOLEAN] /\ asked' \in [Switches -> {"on", "off"}]
         /\ Agree'
<1>1. /\ pdev' \in [Switches -> BOOLEAN]
      /\ \A s \in Switches : pdev'[s] = IF s \in DOMAIN msg[u] THEN msg[u][s] # 0 ELSE p[s]
  BY DEF pval_nl_config
<1>2. \A s \in Switches : asked'[s] = OnOff(pdev'[s])
  <2> SUFFICES ASSUME NEW s \in Switches PROVE asked'[s] = OnOff(pdev'[s])
    OBVIOUS
  <2>1. asked'[s] = IF s \in DOMAIN msg[u] THEN OnOff(msg[u][s] # 0) ELSE old[s]
    BY SaysRequest
  <2>2. CASE s \in DOMAIN msg[u]
    BY <1>1, <2>1, <2>2
  <2>3. CASE s \notin DOMAIN msg[u]
    BY <1>1, <2>1, <2>3
  <2> QED
    BY <2>2, <2>3
<1>3. asked' = [s \in Switches |-> asked'[s]]
  BY DEF Says
<1>4. \A s \in Switches : asked'[s] \in {"on", "off"}
  BY <1>2 DEF OnOff
<1>5. asked' \in [Switches -> {"on", "off"}]
  BY <1>3, <1>4
<1> QED
  BY <1>1, <1>2, <1>5 DEF Agree

(* newlink and changelink, and what they refuse.                           *)
LEMMA KernelKeeps ==
  ASSUME IInv, NEW u \in Users, pval_newlink(u) \/ pval_changelink(u) \/ ParseFails(u)
  PROVE  IInv'
<1>0. /\ Exit(u) /\ link \in Links \cup {NoLink} /\ Agree
      /\ pdev \in [Switches -> BOOLEAN] /\ asked \in [Switches -> {"on", "off"}]
  BY DEF IInv, TypeOK, pval_newlink, pval_changelink, ParseFails
<1>1. CASE UNCHANGED <<pdev, link, asked>>
  BY <1>0, <1>1, ExitKeeps DEF Agree
<1>2. CASE /\ upc[u] # "idle" /\ argv[u] = <<>> /\ "link" \in DOMAIN msg[u]
           /\ link' = msg[u]["link"]
           /\ pdev' = pval_nl_config(Defaults, msg[u])
           /\ asked' = Says(cmd[u], [s \in Switches |-> OnOff(Defaults[s])])
  <2>1. Defaults \in [Switches -> BOOLEAN]
    BY DEF Defaults
  <2>2. link' \in Links \cup {NoLink}
    BY <1>2 DEF IInv, LinkExists
  <2> DEFINE old == [s \in Switches |-> OnOff(Defaults[s])]
  <2>3. \A s \in Switches : old[s] = OnOff(Defaults[s])
    OBVIOUS
  <2> HIDE DEF old
  <2>4. asked' = Says(cmd[u], old)
    BY <1>2 DEF old
  <2>5. /\ pdev' \in [Switches -> BOOLEAN] /\ asked' \in [Switches -> {"on", "off"}]
        /\ Agree'
    BY <1>2, <2>1, <2>3, <2>4, Configured
  <2> QED
    BY <1>0, <2>2, <2>5, ExitKeeps
<1>3. CASE /\ upc[u] # "idle" /\ argv[u] = <<>> /\ UNCHANGED link
           /\ pdev' = pval_nl_config(pdev, msg[u])
           /\ asked' = Says(cmd[u], asked)
  <2>1. \A s \in Switches : asked[s] = OnOff(pdev[s])
    BY <1>0 DEF Agree
  <2>2. /\ pdev' \in [Switches -> BOOLEAN] /\ asked' \in [Switches -> {"on", "off"}]
        /\ Agree'
    BY <1>0, <1>3, <2>1, Configured
  <2> QED
    BY <1>0, <1>3, <2>2, ExitKeeps
<1> QED
  BY <1>1, <1>2, <1>3 DEF pval_newlink, pval_changelink, ParseFails, Sends

---------------------------------------------------------------------------
(* The inductive invariant holds at the start.                             *)
LEMMA InitIInv == Init => IInv
<1> SUFFICES ASSUME Init PROVE IInv
  OBVIOUS
<1>1. pdev \in [Switches -> BOOLEAN] /\ asked \in [Switches -> {"on", "off"}] /\ Agree
  BY DEF Init, Defaults, OnOff, Agree
<1>2. \A u \in Users : upc[u] = "idle" /\ msg[u] = Empty /\ DOMAIN msg[u] = {}
  BY DEF Init, Empty
<1>3. TypeOK /\ LinkExists
  BY <1>1, <1>2 DEF Init, TypeOK, LinkExists
<1>4. UserTypes
  BY DEF Init, UserTypes
<1>5. \A u \in Users : RestUnread(u) /\ Request(u)
  BY <1>2 DEF RestUnread, Request
<1> QED
  BY <1>1, <1>3, <1>4, <1>5 DEF IInv

(* Every step keeps it.                                                    *)
LEMMA NextIInv == IInv /\ [Next]_vars => IInv'
<1> SUFFICES ASSUME IInv, [Next]_vars PROVE IInv'
  OBVIOUS
<1>1. CASE UNCHANGED <<upc, argv, msg, cmd, pdev, asked>> /\ link' \in {link, NoLink}
  <2>1. TypeOK' /\ UserTypes' /\ LinkExists' /\ Agree'
    BY <1>1 DEF IInv, TypeOK, UserTypes, LinkExists, Agree
  <2>2. \A u \in Users : RestUnread(u)' /\ Request(u)'
    BY <1>1, OtherUser DEF IInv
  <2> QED
    BY <2>1, <2>2 DEF IInv
<1>2. CASE UNCHANGED vars
  BY <1>1, <1>2 DEF vars
<1>3. CASE pval_dellink
  BY <1>1, <1>3 DEF pval_dellink
<1>4. ASSUME NEW u \in Users, NEW verb \in {"add", "set"}, NEW c \in Commands, Type(u, verb, c)
      PROVE  IInv'
  BY <1>4, TypeKeeps
<1>5. ASSUME NEW u \in Users, ParseArg(u) PROVE IInv'
  BY <1>5, ParseArgKeeps
<1>6. ASSUME NEW u \in Users, ParseFails(u) \/ pval_newlink(u) \/ pval_changelink(u)
      PROVE  IInv'
  BY <1>6, KernelKeeps
<1> QED
  BY <1>2, <1>3, <1>4, <1>5, <1>6 DEF Next

(* What the users' parsers and the kernel keep true between them.          *)
THEOREM Inductive == Spec => []IInv
  BY InitIInv, NextIInv, PTL DEF Spec

(* Types are kept: a request has only attributes that there are, and the   *)
(* lower link is a device that exists.                                     *)
THEOREM TypeCorrect == Spec => []TypeOK
<1>1. IInv => TypeOK
  BY DEF IInv
<1> QED
  BY <1>1, Inductive, PTL

(* `ip -d link show' prints what the accepted commands said, for any words,*)
(* abbreviations, command lines and number of users.                       *)
THEOREM ShownRight == Spec => []ShownAsAsked
<1>1. ASSUME IInv PROVE ShownAsAsked
  <2>1. DOMAIN pval_fill_info \ {"link"} = Switches
    BY DEF pval_fill_info, Switches
  <2>2. \A s \in Switches : pval_fill_info[s] = IF pdev[s] THEN 1 ELSE 0
    BY DEF pval_fill_info, Switches
  <2>3. \A s \in Switches : OnOff(pval_fill_info[s] # 0) = asked[s]
    BY <1>1, <2>2 DEF IInv, TypeOK, Agree, OnOff
  <2>4. pval_print_opt(pval_fill_info) = [s \in Switches |-> OnOff(pval_fill_info[s] # 0)]
    BY <2>1 DEF pval_print_opt
  <2>5. asked = [s \in Switches |-> asked[s]]
    BY <1>1 DEF IInv, TypeOK
  <2> QED
    BY <2>3, <2>4, <2>5 DEF ShownAsAsked
<1> QED
  BY <1>1, Inductive, PTL
=============================================================================
