---------------------------- MODULE SetupProofs ----------------------------
(* The integration and the launcher's setups, for any URLs, texts and bounds: *)
(* what the user has is never lost, the files agree, a failure leaves no      *)
(* trace.  First the operators at any disk, then the paths of writes and      *)
(* their undoing, then the commands, then the actions.                        *)
EXTENDS LauncherSetup, SequenceTheorems, TLAPS

USE DEF Ours, User, Edited

(* The types of what is planned.                                             *)

(* What each file may hold, one file at a time.                              *)
LEMMA HoldsParts ==
  /\ Holds("app") = AppConfig \cup {None}
  /\ Holds("config") = Lines \cup {None}
  /\ Holds("cache") = {None, "bridge", "own"}
  /\ Holds("recovery") = Journal \cup {None} /\ Holds("primary") = Journal \cup {None}
BY DEF Holds

(* The parts of a disk.                                                      *)
LEMMA DiskParts ==
  ASSUME NEW d \in Disks
  PROVE  /\ d["app"] \in AppConfig \cup {None} /\ d["config"] \in Lines \cup {None}
         /\ d["cache"] \in {None, "bridge", "own"}
         /\ d["recovery"] \in Journal \cup {None} /\ d["primary"] \in Journal \cup {None}
         /\ d \in [Files -> Contents]
BY HoldsParts DEF Disks, Files

(* A write gives another disk.                                               *)
LEMMA PutTyped ==
  ASSUME NEW d \in Disks, NEW f \in Files, NEW c \in Holds(f)
  PROVE  [d EXCEPT ![f] = c] \in Disks
<1>1. c \in Contents
  BY DEF Contents
<1> QED BY <1>1 DEF Disks

(* An order names a file and what it may hold.                               *)
LEMMA OrderTyped ==
  ASSUME NEW f \in Files, NEW c \in Holds(f)
  PROVE  <<f, c>> \in Orders
<1>1. c \in Contents
  BY DEF Contents
<1> QED BY <1>1 DEF Orders

(* The parts of an order.                                                    *)
LEMMA OrderParts ==
  ASSUME NEW w \in Orders
  PROVE  w[1] \in Files /\ w[2] \in Holds(w[1]) /\ w = <<w[1], w[2]>>
BY DEF Orders

-----------------------------------------------------------------------------
(* Journals and texts, apart from the disk that holds them.                  *)

(* The parts of a text.                                                      *)
LEMMA LineParts ==
  ASSUME NEW c \in Lines
  PROVE  /\ c.base \in Urls \cup {None, Ours} /\ c.realtime \in {None, User, Ours}
         /\ c.marker \in BOOLEAN /\ c.feature \in {None, User, Ours}
         /\ c.hook \in {None, Ours, Edited}
BY DEF Lines

(* The parts of a journal.                                                   *)
LEMMA JournalParts ==
  ASSUME NEW j \in Journal
  PROVE  j.active \in BOOLEAN /\ j.protocol \in {"compatibility-v1", "native"} /\ j.previous \in Lines
BY DEF Journal, Protocols

(* What the two copies p and r and the configuration cf say: the operators   *)
(* of the component for any disk.                                            *)
TextOf(cf) == IF cf = None THEN Blank ELSE cf
Matches(cf, j) == cf # None /\ VerifyManagedJournalState(cf, j)
Lost(p, r, cf) ==
  /\ r # None /\ p # r
  /\ IF p = None THEN ~Matches(cf, r) ELSE Matches(cf, p) <=> Matches(cf, r)
Chosen(p, r, cf) ==
  IF p # None /\ (r \in {None, p} \/ Matches(cf, p)) THEN p ELSE r

(* A realtime line is the user's, or may be taken for it.                    *)
Told(x, o, s) == x = o.realtime \/ (s /\ x = Ours)
Doubt(p, r, a, m) == a /\ (p # r \/ m)

(* Every line of a text is the user's or the integration's.                  *)
OwnLines(c, o) ==
  /\ c.base \in {o.base, Ours} /\ c.feature \in {o.feature, Ours}
  /\ c.realtime \in {o.realtime, Ours}

(* No line of a text is the integration's.                                   *)
Plain(c, o, s) == c.base = o.base /\ c.feature = o.feature /\ ~c.marker /\ Told(c.realtime, o, s)

(* A journal keeps what the integration's lines of a text stand for.         *)
Knows(j, c, o, s) ==
  /\ c.base = Ours => j.previous.base = o.base
  /\ c.realtime = Ours => Told(j.previous.realtime, o, s)
  /\ c.feature = Ours /\ j.protocol = "compatibility-v1" => j.previous.feature = o.feature

(* A journal keeps no line of the integration's as the user's.               *)
Keeps(j, a) ==
  /\ j.previous.base # Ours /\ j.previous.feature # Ours
  /\ j.previous.realtime = Ours => a

(* Two copies that no text tells apart.                                      *)
Twins(p, r) ==
  /\ p # None /\ r # None /\ p # r /\ p.active /\ r.active /\ p.protocol = r.protocol

(* The copies, the text and the user's lines fit together, whatever the user *)
(* will edit: a says the user's first realtime line was the integration's, m *)
(* that a process died.                                                      *)
Fit(p, r, c, o, a, m) ==
  /\ \A j \in {p, r} \ {None} : Keeps(j, a)
  /\ OwnLines(c, o)
  /\ ~Twins(p, r) => \A j \in {p, r} \ {None} : j.active => Knows(j, c, o, Doubt(p, r, a, m))
  /\ c.feature = Ours =>
       \A j \in {p, r} \ {None} :
         \/ j.protocol = "compatibility-v1"
         \/ (j.active /\ \E k \in {p, r} \ {None} : k.active /\ k.protocol = "compatibility-v1")
  /\ \/ Plain(c, o, Doubt(p, r, a, m))
     \/ (r # None /\ \E j \in {p, r} \ {None} : j.active)

(* A journal of an installation over the user's lines.                       *)
Keeper(n, o, a, m) ==
  /\ n \in Journal /\ n.active /\ Keeps(n, a)
  /\ n.previous.base = o.base /\ Told(n.previous.realtime, o, a /\ m)
  /\ n.protocol = "compatibility-v1" => n.previous.feature = o.feature

(* What an installation starts from, for copies and a configuration.         *)
BaselineOf(p, r, cf) ==
  LET j == Chosen(p, r, cf)
      c == TextOf(cf)
  IN  IF j = None THEN c
      ELSE IF VerifyManagedJournalState(c, j)
           THEN IF j.active THEN RestoreManagedRoute(c, j) ELSE c
           ELSE IF cf = None THEN Blank ELSE ReplacementBaseline(c, j)

CopyTypes(p, r) == p \in Journal \cup {None} /\ r \in Journal \cup {None}
NoneApart ==
  /\ None \notin Journal \cup Lines
  /\ None \notin {Ours, User, Edited} /\ Ours \notin Urls

(* A disk's journals and configuration, and the user's lines.                *)
Stand(p, r, cf, o, a, m) ==
  /\ NoneApart /\ CopyTypes(p, r) /\ cf \in Lines \cup {None} /\ o \in UserLines
  /\ a \in BOOLEAN /\ m \in BOOLEAN
  /\ Fit(p, r, TextOf(cf), o, a, m)

(* One copy describes the text, and no other does.                           *)
OnlyMatch(p, r, cf, j) ==
  j \in {p, r} \ {None} /\ Matches(cf, j) /\ \A k \in {p, r} \ {None, j} : ~Matches(cf, k)

(* A text without managed lines is a text.                                   *)
LEMMA BlankTyped == Blank \in Lines
BY DEF Blank, Lines

(* So is the text of any configuration.                                      *)
LEMMA TextTyped ==
  ASSUME NEW cf \in Lines \cup {None}
  PROVE  TextOf(cf) \in Lines
BY BlankTyped DEF TextOf

(* A user's lines hold nothing of the integration's.                         *)
LEMMA UserParts ==
  ASSUME NEW o \in UserLines
  PROVE  o \in Lines /\ o.base # Ours /\ o.marker = FALSE /\ o.feature # Ours /\ o.hook = None
BY LineParts DEF UserLines

(* More doubt is no less.                                                    *)
LEMMA FitLater ==
  ASSUME NEW p, NEW r, NEW c, NEW o, NEW a \in BOOLEAN, NEW m \in BOOLEAN, NEW k \in BOOLEAN,
         m => k, Fit(p, r, c, o, a, m)
  PROVE  Fit(p, r, c, o, a, k)
BY DEF Fit, Doubt, Told, Knows, Plain

(* The text that an inactive copy describes is the user's.                   *)
LEMMA InactiveMatch ==
  ASSUME NEW p, NEW r, NEW cf, NEW o, NEW a, NEW m, Stand(p, r, cf, o, a, m),
         NEW j \in {p, r} \ {None}, Matches(cf, j), ~j.active
  PROVE  Plain(TextOf(cf), o, a)
<1> DEFINE c == TextOf(cf)
<1>0. /\ NoneApart /\ CopyTypes(p, r) /\ cf \in Lines \cup {None} /\ o \in UserLines
      /\ Fit(p, r, c, o, a, m)
  BY DEF Stand
<1>1. j \in Journal /\ c \in Lines /\ c = cf
  BY <1>0, TextTyped DEF CopyTypes, TextOf, Matches
<1>2. /\ c.base = j.previous.base /\ ~c.marker /\ c.realtime = j.previous.realtime
      /\ j.protocol = "compatibility-v1" => c.feature = j.previous.feature
  BY <1>1 DEF Matches, VerifyManagedJournalState, VerifyRestoredRoute
<1>3. Keeps(j, a) /\ OwnLines(c, o)
  BY <1>0 DEF Fit
<1>4. c.feature = Ours => j.protocol = "compatibility-v1"
  BY <1>0 DEF Fit
<1>5. c.base = o.base /\ c.feature = o.feature
  BY <1>2, <1>3, <1>4 DEF Keeps, OwnLines
<1>6. Told(c.realtime, o, a)
  BY <1>2, <1>3 DEF Keeps, OwnLines, Told
<1> QED BY <1>2, <1>5, <1>6 DEF Plain

(* Where only one of two copies describes the text, they are no twins, and   *)
(* what holds the features' lines of the integration is the one.             *)
LEMMA MatchTells ==
  ASSUME NEW p, NEW r, NEW cf, NEW o, NEW a, NEW m, Stand(p, r, cf, o, a, m), p # r,
         NEW j, OnlyMatch(p, r, cf, j)
  PROVE  /\ ~Twins(p, r)
         /\ TextOf(cf).feature = Ours => j.protocol = "compatibility-v1"
<1> DEFINE c == TextOf(cf)
<1>0. NoneApart /\ CopyTypes(p, r) /\ cf \in Lines \cup {None} /\ Fit(p, r, c, o, a, m)
  BY DEF Stand
<1>1. j \in Journal /\ c \in Lines /\ c = cf /\ cf # None
  BY <1>0, TextTyped DEF OnlyMatch, CopyTypes, TextOf, Matches
<1>2. /\ VerifyManagedJournalState(c, j)
      /\ \A k \in {p, r} \ {None, j} : ~VerifyManagedJournalState(c, k)
  BY <1>1 DEF OnlyMatch, Matches
<1>3. ~Twins(p, r)
  BY <1>2 DEF OnlyMatch, Twins, VerifyManagedJournalState, VerifyInstalledRoute
<1>4. ASSUME c.feature = Ours, j.protocol # "compatibility-v1"
      PROVE  FALSE
  <2>1. j.active /\ \E i \in {p, r} \ {None} : i.active /\ i.protocol = "compatibility-v1"
    BY <1>0, <1>4 DEF Fit, OnlyMatch
  <2>2. PICK k \in {p, r} \ {None, j} : k.active /\ k.protocol = "compatibility-v1"
    BY <2>1, <1>4
  <2> QED BY <2>1, <2>2, <1>2, <1>4 DEF VerifyManagedJournalState, VerifyInstalledRoute
<1> QED BY <1>3, <1>4

(* A repair makes both copies the chosen one.                                *)
LEMMA FitRepaired ==
  ASSUME NEW p, NEW r, NEW cf, NEW o, NEW a, NEW m, Stand(p, r, cf, o, a, m), ~Lost(p, r, cf), p # r => m
  PROVE  Fit(Chosen(p, r, cf), Chosen(p, r, cf), TextOf(cf), o, a, m)
<1> DEFINE c == TextOf(cf)
           j == Chosen(p, r, cf)
<1>0. /\ NoneApart /\ CopyTypes(p, r) /\ cf \in Lines \cup {None} /\ o \in UserLines
      /\ a \in BOOLEAN /\ m \in BOOLEAN /\ Fit(p, r, c, o, a, m)
  BY DEF Stand
<1>1. c \in Lines /\ j \in {p, r}
  BY <1>0, TextTyped DEF Chosen
<1>2. CASE p = r
  BY <1>0, <1>1, <1>2 DEF Fit
<1>3. CASE p # r
  <2>0. Doubt(p, r, a, m) = a /\ Doubt(j, j, a, m) = a
    BY <1>0, <1>3 DEF Doubt
  <2>1. PICK k \in {p, r} : k # j /\ {p, r} = {j, k}
    BY <1>1, <1>3
  <2>2. j # None
    BY <1>3, <1>1 DEF Chosen, Lost
  <2>3. (\A i \in {j} \ {None} : Keeps(i, a)) /\ OwnLines(c, o)
    BY <1>0, <1>1, <1>0 DEF Fit
  <2>4. CASE r = None
    <3>1. Plain(c, o, a) /\ ~Twins(p, r)
      BY <1>0, <2>0, <2>4 DEF Fit, Twins
    <3>2. j.active => Knows(j, c, o, a)
      BY <3>1, <2>0, <2>2, <1>1, <1>0 DEF Fit
    <3>3. c.feature # Ours
      BY <3>1, <1>0, UserParts DEF Plain
    <3> QED BY <2>0, <2>3, <3>1, <3>2, <3>3 DEF Fit
  <2>5. CASE r # None
    <3>1. Matches(cf, j) /\ (k # None => ~Matches(cf, k))
      BY <2>1, <2>5, <1>3, <1>1 DEF Chosen, Lost
    <3>2. ~Twins(p, r) /\ (c.feature = Ours => j.protocol = "compatibility-v1")
      <4>1. OnlyMatch(p, r, cf, j)
        BY <2>1, <2>2, <3>1, <1>1 DEF OnlyMatch
      <4> HIDE DEF j
      <4> QED BY <4>1, <1>3, MatchTells
    <3>3. j.active => Knows(j, c, o, a)
      BY <3>2, <2>0, <2>2, <1>1, <1>0 DEF Fit
    <3>4. ~j.active => Plain(c, o, a)
      BY <3>1, <2>2, <1>1, InactiveMatch
    <3>5. Fit(j, j, c, o, a, m) <=>
            /\ Keeps(j, a) /\ OwnLines(c, o)
            /\ (j.active => Knows(j, c, o, a))
            /\ (c.feature = Ours => j.protocol = "compatibility-v1")
            /\ Plain(c, o, a) \/ j.active
      BY <2>0, <2>2 DEF Fit, Twins
    <3> QED BY <2>2, <2>3, <3>2, <3>3, <3>4, <3>5
  <2> QED BY <2>4, <2>5
<1> QED BY <1>2, <1>3

(* What is taken for the user's lines is theirs.                             *)
LEMMA FitTaken ==
  ASSUME NEW p, NEW r, NEW cf, NEW o, NEW a, NEW m, Stand(p, r, cf, o, a, m), ~Lost(p, r, cf), p # r => m
  PROVE  BaselineOf(p, r, cf) \in Lines /\ Plain(BaselineOf(p, r, cf), o, a /\ m)
<1> DEFINE c == TextOf(cf)
           j == Chosen(p, r, cf)
           b == BaselineOf(p, r, cf)
<1>0. /\ NoneApart /\ CopyTypes(p, r) /\ cf \in Lines \cup {None} /\ o \in UserLines
      /\ a \in BOOLEAN /\ m \in BOOLEAN
  BY DEF Stand
<1>1. c \in Lines /\ j \in {p, r}
  BY <1>0, TextTyped DEF Chosen
<1>2. Fit(j, j, c, o, a, m)
  BY FitRepaired
<1>3. Doubt(j, j, a, m) = (a /\ m) /\ ~Twins(j, j)
  BY DEF Doubt, Twins
<1>4. CASE j = None
  BY <1>1, <1>2, <1>3, <1>4 DEF BaselineOf, Fit
<1>5. CASE j # None
  <2>0. j \in Journal /\ j.previous \in Lines
    BY <1>0, <1>1, <1>5, JournalParts DEF CopyTypes
  <2>1. /\ Keeps(j, a) /\ OwnLines(c, o)
        /\ (j.active => Knows(j, c, o, a /\ m))
        /\ (c.feature = Ours => j.protocol = "compatibility-v1")
        /\ Plain(c, o, a /\ m) \/ j.active
    BY <1>2, <1>3, <1>5 DEF Fit
  <2>2. CASE ~j.active
    <3>1. b \in {c, IF cf = None THEN Blank ELSE c}
      BY <1>5, <2>2 DEF BaselineOf, ReplacementBaseline
    <3> QED BY <3>1, <2>1, <2>2, <1>1 DEF TextOf
  <2>3. CASE j.active /\ VerifyManagedJournalState(c, j)
    <3>1. b = RestoreManagedRoute(c, j)
      BY <1>5, <2>3 DEF BaselineOf
    <3>2. /\ b.base = j.previous.base /\ b.realtime = j.previous.realtime /\ b.marker = FALSE
          /\ b.feature = (IF j.protocol = "compatibility-v1" THEN j.previous.feature ELSE c.feature)
          /\ b \in Lines
      BY <3>1, <2>0, <1>1, LineParts DEF RestoreManagedRoute, Blank, Lines
    <3>3. /\ c.base = Ours /\ c.realtime = Ours
          /\ j.protocol = "compatibility-v1" => c.feature = Ours
      BY <2>3 DEF VerifyManagedJournalState, VerifyInstalledRoute
    <3> QED BY <3>2, <3>3, <2>1, <2>3 DEF Knows, Plain, OwnLines
  <2>4. CASE j.active /\ ~VerifyManagedJournalState(c, j)
    <3>1. CASE cf = None
      <4>1. b = Blank /\ c = Blank
        BY <3>1, <2>4, <1>5 DEF BaselineOf, TextOf
      <4>2. b.base # Ours /\ b.marker = FALSE /\ b.feature # Ours /\ b.realtime # Ours
        BY <1>0, <4>1 DEF Blank, NoneApart
      <4> QED BY <4>1, <4>2, <2>1, BlankTyped DEF Plain, OwnLines, Told
    <3>2. CASE cf # None
      <4>1. b = ReplacementBaseline(c, j)
        BY <3>2, <2>4, <1>5 DEF BaselineOf
      <4>2. /\ b.base = (IF c.base = Ours THEN j.previous.base ELSE c.base)
            /\ b.realtime = (IF c.realtime = Ours THEN j.previous.realtime ELSE c.realtime)
            /\ b.marker = FALSE
            /\ b.feature = (IF j.protocol = "compatibility-v1" /\ c.feature = Ours
                            THEN j.previous.feature ELSE c.feature)
            /\ b \in Lines
        BY <4>1, <2>0, <2>4, <1>1, LineParts DEF ReplacementBaseline, Lines
      <4> QED BY <4>2, <2>1, <2>4 DEF Knows, Plain, OwnLines, Told
    <3> QED BY <3>1, <3>2
  <2> QED BY <2>2, <2>3, <2>4
<1> QED BY <1>4, <1>5

(* Both copies are one journal, or none.                                     *)
Agreed(j, c, o, a, m) ==
  /\ NoneApart /\ j \in Journal \cup {None} /\ c \in Lines /\ o \in UserLines
  /\ a \in BOOLEAN /\ m \in BOOLEAN /\ Fit(j, j, c, o, a, m)

(* What two agreeing copies mean.                                            *)
LEMMA FitOne ==
  ASSUME NEW j, j # None, NEW c, NEW o, NEW a \in BOOLEAN, NEW m \in BOOLEAN
  PROVE  Fit(j, j, c, o, a, m) <=>
           /\ Keeps(j, a) /\ OwnLines(c, o)
           /\ (j.active => Knows(j, c, o, a /\ m))
           /\ (c.feature = Ours => j.protocol = "compatibility-v1")
           /\ Plain(c, o, a /\ m) \/ j.active
BY DEF Fit, Twins, Doubt

(* Without any copy.                                                         *)
LEMMA FitNone ==
  ASSUME NEW c, NEW o, NEW a \in BOOLEAN, NEW m \in BOOLEAN
  PROVE  Fit(None, None, c, o, a, m) <=> OwnLines(c, o) /\ Plain(c, o, a /\ m)
BY DEF Fit, Twins, Doubt

(* Without a primary copy.                                                   *)
LEMMA FitHalf ==
  ASSUME NEW n, n # None, NEW c, NEW o, NEW a \in BOOLEAN, NEW m \in BOOLEAN
  PROVE  Fit(None, n, c, o, a, m) <=>
           /\ Keeps(n, a) /\ OwnLines(c, o)
           /\ (n.active => Knows(n, c, o, a))
           /\ (c.feature = Ours => n.protocol = "compatibility-v1")
           /\ Plain(c, o, a) \/ n.active
BY DEF Fit, Twins, Doubt

(* Two copies that differ.                                                   *)
LEMMA FitTwo ==
  ASSUME NEW p, NEW r, p # None, r # None, p # r,
         NEW c, NEW o, NEW a \in BOOLEAN, NEW m \in BOOLEAN
  PROVE  Fit(p, r, c, o, a, m) <=>
           /\ Keeps(p, a) /\ Keeps(r, a) /\ OwnLines(c, o)
           /\ ~Twins(p, r) => /\ p.active => Knows(p, c, o, a)
                              /\ r.active => Knows(r, c, o, a)
           /\ c.feature = Ours =>
                /\ p.protocol = "compatibility-v1" \/ (p.active /\ r.active /\ r.protocol = "compatibility-v1")
                /\ r.protocol = "compatibility-v1" \/ (r.active /\ p.active /\ p.protocol = "compatibility-v1")
           /\ Plain(c, o, a) \/ p.active \/ r.active
<1>1. {p, r} \ {None} = {p, r}
  OBVIOUS
<1>2. Doubt(p, r, a, m) = a
  BY DEF Doubt
<1>3. (\A j \in {p, r} : Keeps(j, a)) <=> Keeps(p, a) /\ Keeps(r, a)
  OBVIOUS
<1>4. (\A j \in {p, r} : j.active => Knows(j, c, o, a))
        <=> (p.active => Knows(p, c, o, a)) /\ (r.active => Knows(r, c, o, a))
  OBVIOUS
<1>5. (\E j \in {p, r} : j.active) <=> p.active \/ r.active
  OBVIOUS
<1>6. (\A j \in {p, r} :
         \/ j.protocol = "compatibility-v1"
         \/ (j.active /\ \E k \in {p, r} : k.active /\ k.protocol = "compatibility-v1"))
      <=> /\ p.protocol = "compatibility-v1" \/ (p.active /\ r.active /\ r.protocol = "compatibility-v1")
          /\ r.protocol = "compatibility-v1" \/ (r.active /\ p.active /\ p.protocol = "compatibility-v1")
  OBVIOUS
<1> QED BY <1>1, <1>2, <1>3, <1>4, <1>5, <1>6 DEF Fit

(* A text without the integration's lines fits any copies that keep none.    *)
LEMMA PlainKnown ==
  ASSUME NEW j, NEW c, NEW o \in UserLines, NEW a, NEW s, Plain(c, o, s),
         c.realtime = Ours => Told(j.previous.realtime, o, a)
  PROVE  Knows(j, c, o, a) /\ c.feature # Ours
BY UserParts DEF Plain, Knows

(* A keeper's journal tells any text.                                        *)
LEMMA KeeperKnows ==
  ASSUME NEW n, NEW c, NEW o, NEW a \in BOOLEAN, NEW m \in BOOLEAN, Keeper(n, o, a, m)
  PROVE  Knows(n, c, o, a /\ m) /\ Knows(n, c, o, a)
BY DEF Keeper, Knows, Told

(* The first write of an installation, and what a rollback of it leaves.     *)
LEMMA FitInstallBegun ==
  ASSUME NEW j, NEW c, NEW o, NEW a, NEW m, Agreed(j, c, o, a, m),
         NEW n, Keeper(n, o, a, m), j # None => n.protocol = j.protocol \/ j.active
  PROVE  /\ Fit(j, n, c, o, a, m)
         /\ (j # None => n.protocol = j.protocol) => Fit(n, n, c, o, a, m)
<1>0. /\ NoneApart /\ j \in Journal \cup {None} /\ c \in Lines /\ o \in UserLines
      /\ a \in BOOLEAN /\ m \in BOOLEAN /\ Fit(j, j, c, o, a, m)
      /\ n # None /\ n \in Journal /\ n.active /\ Keeps(n, a)
  BY DEF Agreed, Keeper, NoneApart
<1>1. Knows(n, c, o, a /\ m) /\ Knows(n, c, o, a)
  BY <1>0, KeeperKnows
<1>2. CASE j = None
  <2>1. OwnLines(c, o) /\ Plain(c, o, a /\ m)
    BY <1>0, <1>2, FitNone
  <2>2. c.feature # Ours
    BY <2>1, <1>0, UserParts DEF Plain
  <2> QED BY <1>0, <1>1, <1>2, <2>1, <2>2, FitHalf, FitOne
<1>3. CASE j # None
  <2>1. /\ Keeps(j, a) /\ OwnLines(c, o)
        /\ (j.active => Knows(j, c, o, a /\ m))
        /\ (c.feature = Ours => j.protocol = "compatibility-v1")
        /\ Plain(c, o, a /\ m) \/ j.active
    <3>1. Fit(j, j, c, o, a, m) /\ a \in BOOLEAN /\ m \in BOOLEAN
      BY <1>0
    <3> QED BY <3>1, <1>3, FitOne
  <2>2. c.feature = Ours => j.active
    BY <2>1, <1>0, UserParts DEF Plain
  <2>3. j.active => Knows(j, c, o, a)
    BY <2>1, <1>0 DEF Knows, Told
  <2>4. j # n => Fit(j, n, c, o, a, m)
    BY <1>0, <1>1, <1>3, <2>1, <2>2, <2>3, FitTwo
  <2>5. n.protocol = j.protocol => Fit(n, n, c, o, a, m)
    BY <1>0, <1>1, <2>1, FitOne
  <2> QED BY <1>0, <1>3, <2>4, <2>5
<1> QED BY <1>2, <1>3

(* The text of an installation.                                              *)
LEMMA FitInstalled ==
  ASSUME NEW j, NEW c, NEW o, NEW a, NEW m, Agreed(j, c, o, a, m),
         NEW n, Keeper(n, o, a, m),
         j # None => n.protocol = j.protocol \/ (j.active /\ c.base = Ours /\ c.realtime = Ours),
         NEW b \in Lines, Plain(b, o, a /\ m)
  PROVE  LET t == Routed(b, n.protocol)
         IN  Fit(j, n, t, o, a, m) /\ Fit(n, n, t, o, a, m)
<1> DEFINE t == Routed(b, n.protocol)
<1>0. /\ NoneApart /\ j \in Journal \cup {None} /\ c \in Lines /\ o \in UserLines
      /\ a \in BOOLEAN /\ m \in BOOLEAN /\ Fit(j, j, c, o, a, m)
      /\ n # None /\ n \in Journal /\ n.active /\ Keeps(n, a)
  BY DEF Agreed, Keeper, NoneApart
<1>1. /\ t.base = Ours /\ t.realtime = Ours /\ t.marker = TRUE
      /\ t.feature = (IF n.protocol = "compatibility-v1" THEN Ours ELSE b.feature)
  BY DEF Routed, Lines
<1>2. Knows(n, t, o, a /\ m) /\ Knows(n, t, o, a)
  BY <1>0, KeeperKnows
<1>3. /\ OwnLines(t, o)
      /\ t.feature = Ours => n.protocol = "compatibility-v1"
  BY <1>0, <1>1, UserParts DEF OwnLines, Plain
<1>4. Fit(n, n, t, o, a, m)
  BY <1>0, <1>2, <1>3, FitOne
<1>5. CASE j = None
  BY <1>0, <1>2, <1>3, <1>4, <1>5, FitHalf
<1>6. CASE j # None
  <2>1. /\ Keeps(j, a)
        /\ (j.active => Knows(j, c, o, a /\ m))
    BY <1>0, <1>6, FitOne
  <2>2. CASE n.protocol = j.protocol
    <3>1. Twins(j, n) \/ ~j.active \/ j = n
      BY <1>0, <1>6, <2>2 DEF Twins
    <3>2. ASSUME j # n
          PROVE  Fit(j, n, t, o, a, m)
      <4>1. /\ ~Twins(j, n) => /\ j.active => Knows(j, t, o, a)
                               /\ n.active => Knows(n, t, o, a)
            /\ Keeps(j, a) /\ Keeps(n, a) /\ OwnLines(t, o) /\ n.active
        BY <1>0, <1>2, <1>3, <2>1, <3>1, <3>2
      <4>2. t.feature = Ours => j.protocol = "compatibility-v1" /\ n.protocol = "compatibility-v1"
        BY <1>3, <2>2
      <4>3. a \in BOOLEAN /\ m \in BOOLEAN /\ n # None
        BY <1>0
      <4> HIDE DEF t
      <4>4. CASE Twins(j, n)
        BY <4>1, <4>2, <4>3, <4>4, <1>6, <3>2, FitTwo
      <4>5. CASE ~Twins(j, n) /\ j.active
        BY <4>1, <4>2, <4>3, <4>5, <1>6, <3>2, FitTwo
      <4>6. CASE ~Twins(j, n) /\ ~j.active
        BY <4>1, <4>2, <4>3, <4>6, <1>6, <3>2, FitTwo
      <4> QED BY <4>4, <4>5, <4>6
    <3> QED BY <1>4, <3>2
  <2>3. CASE n.protocol # j.protocol
    <3>1. j.active /\ c.base = Ours /\ c.realtime = Ours
      BY <1>6, <2>3
    <3>2. t.feature = Ours => j.protocol # "compatibility-v1"
      BY <1>3, <2>3
    <3>3. Knows(j, t, o, a)
      BY <3>1, <3>2, <2>1, <1>0 DEF Knows, Told
    <3>4. ASSUME j # n
          PROVE  Fit(j, n, t, o, a, m)
      <4>1. /\ Knows(j, t, o, a) /\ Knows(n, t, o, a)
            /\ Keeps(j, a) /\ Keeps(n, a) /\ OwnLines(t, o) /\ n.active /\ j.active
        BY <1>0, <1>2, <1>3, <2>1, <3>1, <3>3
      <4>3. a \in BOOLEAN /\ m \in BOOLEAN /\ n # None
        BY <1>0
      <4>4. t.feature = Ours => n.protocol = "compatibility-v1"
        BY <1>3
      <4> HIDE DEF t
      <4> QED BY <4>1, <4>3, <4>4, <1>6, <3>4, FitTwo
    <3> QED BY <1>4, <3>4
  <2> QED BY <2>2, <2>3
<1> QED BY <1>4, <1>5, <1>6

(* The user's text, as a managed one gives it back.                          *)
LEMMA RestoredPlain ==
  ASSUME NEW j, NEW c, NEW o, NEW a, NEW m, Agreed(j, c, o, a, m), j # None,
         VerifyManagedJournalState(c, j)
  PROVE  LET t == IF j.active THEN RestoreManagedRoute(c, j) ELSE c
         IN  t \in Lines /\ Plain(t, o, a /\ m) /\ OwnLines(t, o)
             /\ (j.active => Knows(j, t, o, a))
<1> DEFINE t == IF j.active THEN RestoreManagedRoute(c, j) ELSE c
<1>0. /\ NoneApart /\ j \in Journal /\ c \in Lines /\ o \in UserLines
      /\ a \in BOOLEAN /\ m \in BOOLEAN /\ Fit(j, j, c, o, a, m)
  BY DEF Agreed
<1>1. /\ Keeps(j, a) /\ OwnLines(c, o)
      /\ (j.active => Knows(j, c, o, a /\ m))
      /\ (c.feature = Ours => j.protocol = "compatibility-v1")
      /\ Plain(c, o, a /\ m) \/ j.active
  BY <1>0, FitOne
<1>2. CASE ~j.active
  BY <1>0, <1>1, <1>2
<1>3. CASE j.active
  <2>1. /\ t.base = j.previous.base /\ t.realtime = j.previous.realtime /\ t.marker = FALSE
        /\ t.feature = (IF j.protocol = "compatibility-v1" THEN j.previous.feature ELSE c.feature)
        /\ t \in Lines
    BY <1>0, <1>3, JournalParts, LineParts DEF RestoreManagedRoute, Blank, Lines
  <2>2. /\ c.base = Ours /\ c.realtime = Ours
        /\ j.protocol = "compatibility-v1" => c.feature = Ours
    BY <1>3 DEF VerifyManagedJournalState, VerifyInstalledRoute
  <2>3. Plain(t, o, a /\ m)
    BY <2>1, <2>2, <1>1, <1>3 DEF Knows, Plain, OwnLines
  <2>4. OwnLines(t, o)
    BY <2>3 DEF Plain, OwnLines, Told
  <2>5. Told(j.previous.realtime, o, a)
    BY <2>2, <1>0, <1>1, <1>3 DEF Knows, Told
  <2>6. Knows(j, t, o, a)
    BY <2>3, <2>5, <1>0, PlainKnown
  <2> QED BY <2>1, <2>3, <2>4, <2>6
<1> QED BY <1>2, <1>3

(* The writes of a disconnection.                                            *)
LEMMA FitDisconnected ==
  ASSUME NEW j, NEW c, NEW o, NEW a, NEW m, Agreed(j, c, o, a, m), j # None, j.active,
         VerifyManagedJournalState(c, j)
  PROVE  LET i == [j EXCEPT !.active = FALSE]
             t == RestoreManagedRoute(c, j)
         IN  /\ i \in Journal /\ ~i.active /\ i # None /\ i.protocol = j.protocol
             /\ Fit(j, i, c, o, a, m) /\ Fit(j, i, t, o, a, m) /\ Fit(i, i, t, o, a, m)
<1> DEFINE i == [j EXCEPT !.active = FALSE]
           t == RestoreManagedRoute(c, j)
<1>0. /\ NoneApart /\ j \in Journal /\ c \in Lines /\ o \in UserLines
      /\ a \in BOOLEAN /\ m \in BOOLEAN /\ Fit(j, j, c, o, a, m)
  BY DEF Agreed
<1>1. /\ Keeps(j, a) /\ OwnLines(c, o) /\ Knows(j, c, o, a /\ m)
      /\ (c.feature = Ours => j.protocol = "compatibility-v1")
  BY <1>0, FitOne
<1>2. i \in Journal /\ i.active = FALSE /\ i.protocol = j.protocol /\ i.previous = j.previous /\ i # None
  BY <1>0 DEF Journal, NoneApart
<1>3. t \in Lines /\ Plain(t, o, a /\ m) /\ OwnLines(t, o) /\ Knows(j, t, o, a)
  BY RestoredPlain
<1>4. Keeps(i, a) /\ ~Twins(j, i) /\ i # j
  BY <1>1, <1>2 DEF Keeps, Twins
<1>5. Knows(j, c, o, a)
  BY <1>1, <1>0 DEF Knows, Told
<1>6. t.feature # Ours
  BY <1>3, <1>0, UserParts DEF Plain
<1> HIDE DEF i, t
<1>7. Fit(j, i, c, o, a, m)
  BY <1>0, <1>1, <1>2, <1>4, <1>5, FitTwo
<1>8. Fit(j, i, t, o, a, m)
  BY <1>0, <1>1, <1>2, <1>3, <1>4, <1>6, FitTwo
<1>9. Fit(i, i, t, o, a, m)
  BY <1>0, <1>2, <1>3, <1>4, <1>6, FitOne
<1> QED BY <1>2, <1>7, <1>8, <1>9 DEF i, t

(* The writes of a removal.                                                  *)
LEMMA FitRemoved ==
  ASSUME NEW j, NEW c, NEW o, NEW a, NEW m, Agreed(j, c, o, a, m), j # None,
         VerifyManagedJournalState(c, j)
  PROVE  LET t == IF j.active THEN RestoreManagedRoute(c, j) ELSE c
         IN  Fit(j, j, t, o, a, m) /\ Fit(None, j, t, o, a, m) /\ Fit(None, None, t, o, a, m)
<1> DEFINE t == IF j.active THEN RestoreManagedRoute(c, j) ELSE c
<1>0. /\ NoneApart /\ j \in Journal /\ c \in Lines /\ o \in UserLines
      /\ a \in BOOLEAN /\ m \in BOOLEAN /\ Fit(j, j, c, o, a, m)
  BY DEF Agreed
<1>1. t \in Lines /\ Plain(t, o, a /\ m) /\ OwnLines(t, o) /\ (j.active => Knows(j, t, o, a))
  BY RestoredPlain
<1>2. Keeps(j, a) /\ (j.active => Knows(j, c, o, a /\ m))
  BY <1>0, FitOne
<1>3. t.feature # Ours
  BY <1>1, <1>0, UserParts DEF Plain
<1>4. j.active => Knows(j, t, o, a /\ m)
  <2>1. ASSUME j.active
        PROVE  Knows(j, t, o, a /\ m)
    <3>1. t.realtime = j.previous.realtime /\ c.realtime = Ours
      BY <2>1 DEF RestoreManagedRoute, Blank, VerifyManagedJournalState, VerifyInstalledRoute
    <3>2. Told(j.previous.realtime, o, a /\ m)
      BY <3>1, <2>1, <1>2 DEF Knows
    <3> HIDE DEF t
    <3> QED BY <3>2, <1>0, <1>1, PlainKnown
  <2> QED BY <2>1
<1>5. Plain(t, o, a)
  BY <1>1, <1>0 DEF Plain, Told
<1> HIDE DEF t
<1>6. Fit(j, j, t, o, a, m)
  BY <1>0, <1>1, <1>2, <1>3, <1>4, FitOne
<1>7. Fit(None, j, t, o, a, m)
  BY <1>0, <1>1, <1>2, <1>3, <1>5, FitHalf
<1>8. Fit(None, None, t, o, a, m)
  BY <1>0, <1>1, FitNone
<1> QED BY <1>6, <1>7, <1>8 DEF t

(* What a user edits of one line, of all that he has.                        *)
EditOf(cf, ct, o, q) ==
  \/ cf = None /\ q = Blank
  \/ /\ cf \in Lines /\ q.marker = FALSE /\ ct.hook \in {None, Ours, Edited}
     /\ \/ cf.base = q.base /\ q.base # Ours
           /\ cf.realtime = ct.realtime /\ q.realtime = o.realtime
           /\ cf.feature = ct.feature /\ q.feature = o.feature
        \/ cf.realtime = q.realtime /\ q.realtime # Ours
           /\ cf.base = ct.base /\ q.base = o.base
           /\ cf.feature = ct.feature /\ q.feature = o.feature
        \/ cf.feature = q.feature /\ q.feature # Ours
           /\ cf.base = ct.base /\ q.base = o.base
           /\ cf.realtime = ct.realtime /\ q.realtime = o.realtime
        \/ cf.base = ct.base /\ cf.realtime = ct.realtime /\ cf.feature = ct.feature /\ q = o
     /\ cf.marker = ct.marker \/ cf.marker = FALSE

(* An edit of the user's leaves the fit, whatever the copies are.            *)
LEMMA FitEdited ==
  ASSUME NEW p, NEW r, NEW cf, NEW o, NEW a, NEW m, Stand(p, r, cf, o, a, m),
         NEW e \in Lines \cup {None}, NEW q \in UserLines, EditOf(e, TextOf(cf), o, q)
  PROVE  Fit(p, r, TextOf(e), q, a, m)
<1> DEFINE c == TextOf(cf)
           t == TextOf(e)
<1>0. /\ NoneApart /\ cf \in Lines \cup {None} /\ o \in UserLines
      /\ a \in BOOLEAN /\ m \in BOOLEAN /\ Fit(p, r, c, o, a, m) /\ c \in Lines
  BY TextTyped DEF Stand
<1>1. /\ OwnLines(t, q)
      /\ t.base = Ours => c.base = Ours /\ o.base = q.base
      /\ t.realtime = Ours => c.realtime = Ours /\ o.realtime = q.realtime
      /\ t.feature = Ours => c.feature = Ours /\ o.feature = q.feature
  <2>1. CASE e = None
    BY <1>0, <2>1 DEF EditOf, TextOf, OwnLines, Blank, NoneApart
  <2>2. CASE e # None
    <3>1. OwnLines(c, o)
      BY <1>0 DEF Fit
    <3> QED BY <3>1, <1>0, <2>2, UserParts DEF EditOf, TextOf, OwnLines
  <2> QED BY <2>1, <2>2
<1>2. \A j, s : Knows(j, c, o, s) => Knows(j, t, q, s)
  BY <1>1 DEF Knows, Told
<1>3. \A s : Plain(c, o, s) => Plain(t, q, s)
  <2>1. CASE e = None
    <3>1. t = q
      BY <2>1, <1>0 DEF EditOf, TextOf, NoneApart
    <3> QED BY <3>1, UserParts DEF Plain, Told
  <2>2. CASE e # None
    BY <2>2, <1>0 DEF EditOf, TextOf, Plain, Told
  <2> QED BY <2>1, <2>2
<1> QED BY <1>0, <1>1, <1>2, <1>3 DEF Fit

(* Twins cannot be read.                                                     *)
LEMMA TwinsLost ==
  ASSUME NEW p, NEW r, NEW cf, Twins(p, r)
  PROVE  Lost(p, r, cf)
BY DEF Twins, Lost, Matches, VerifyManagedJournalState, VerifyInstalledRoute

(* The copies p and r are those of a checkpoint, repaired or replaced by an  *)
(* installation that began there.                                            *)
Since(p, r, pk, rk, cf, o, a, m) ==
  LET j == Chosen(pk, rk, cf)
  IN  \/ p = pk /\ r = rk
      \/ p = j /\ r = j
      \/ /\ Keeper(r, o, a, m) /\ p \in {j, r}
         /\ j # None => r.protocol = j.protocol

(* What can be read agrees once it is repaired.                              *)
LEMMA RepairedAgreed ==
  ASSUME NEW p, NEW r, NEW cf, NEW o, NEW a, NEW m, Stand(p, r, cf, o, a, m),
         ~Lost(p, r, cf), p # r => m
  PROVE  Agreed(Chosen(p, r, cf), TextOf(cf), o, a, m)
<1>1. Fit(Chosen(p, r, cf), Chosen(p, r, cf), TextOf(cf), o, a, m)
  BY FitRepaired
<1>2. Chosen(p, r, cf) \in {p, r}
  BY DEF Chosen
<1> QED BY <1>1, <1>2, TextTyped DEF Stand, Agreed, CopyTypes

(* The files of a rollback, restored one after the other: the configuration, *)
(* the recovery copy, the primary copy.                                      *)
LEMMA FitRolledBack ==
  ASSUME NEW pk, NEW rk, NEW cf, NEW o, NEW a, NEW m, Stand(pk, rk, cf, o, a, m),
         ~Lost(pk, rk, cf), pk # rk => m,
         NEW p, NEW r, Since(p, r, pk, rk, cf, o, a, m)
  PROVE  Fit(p, r, TextOf(cf), o, a, m) /\ Fit(p, rk, TextOf(cf), o, a, m)
<1> DEFINE c == TextOf(cf)
           j == Chosen(pk, rk, cf)
<1>0. /\ NoneApart /\ CopyTypes(pk, rk) /\ cf \in Lines \cup {None} /\ o \in UserLines
      /\ a \in BOOLEAN /\ m \in BOOLEAN /\ Fit(pk, rk, c, o, a, m) /\ c \in Lines
  BY TextTyped DEF Stand
<1>1. Agreed(j, c, o, a, m) /\ Fit(j, j, c, o, a, m)
  BY RepairedAgreed DEF Agreed
<1>2. j \in {pk, rk}
  BY DEF Chosen
<1>3. Fit(j, rk, c, o, a, m)
  BY <1>0, <1>1, <1>2
<1>4. CASE p = pk /\ r = rk
  BY <1>0, <1>4
<1>5. CASE p = j /\ r = j
  BY <1>1, <1>3, <1>5
<1>6. CASE Keeper(r, o, a, m) /\ p \in {j, r} /\ (j # None => r.protocol = j.protocol)
  <2>1. Fit(j, r, c, o, a, m) /\ Fit(r, r, c, o, a, m)
    <3> HIDE DEF j, c
    <3> QED BY <1>1, <1>6, FitInstallBegun
  <2>2. r # None /\ r.active /\ Keeps(r, a)
    BY <1>0, <1>6 DEF Keeper, NoneApart
  <2>3. Knows(r, c, o, a) /\ OwnLines(c, o) /\ (c.feature = Ours => r.protocol = "compatibility-v1")
    <3>1. Knows(r, c, o, a)
      BY <1>0, <1>6, KeeperKnows
    <3>2. OwnLines(c, o) /\ (c.feature = Ours => r.protocol = "compatibility-v1")
      BY <1>0, <2>1, <2>2, FitOne
    <3> QED BY <3>1, <3>2
  <2>4. Fit(r, rk, c, o, a, m)
    <3>1. CASE rk = None
      <4>1. Plain(c, o, Doubt(pk, rk, a, m))
        BY <1>0, <3>1 DEF Fit
      <4>2. Plain(c, o, a)
        BY <4>1, <1>0 DEF Plain, Told, Doubt
      <4>3. Doubt(r, rk, a, m) = a /\ ~Twins(r, rk) /\ {r, rk} \ {None} = {r}
        BY <1>0, <2>2, <3>1 DEF Doubt, Twins
      <4>4. c.feature # Ours
        BY <4>2, <1>0, UserParts DEF Plain
      <4> HIDE DEF c
      <4> QED BY <4>2, <4>3, <4>4, <2>2, <2>3 DEF Fit
    <3>2. CASE rk = r
      BY <2>1, <3>2
    <3>3. CASE rk # None /\ rk # r
      <4>1. ~Twins(pk, rk)
        BY TwinsLost
      <4>2. Keeps(rk, a) /\ (rk.active => Knows(rk, c, o, Doubt(pk, rk, a, m)))
        BY <1>0, <3>3, <4>1 DEF Fit
      <4>3. rk.active => Knows(rk, c, o, a)
        BY <4>2, <1>0 DEF Knows, Told, Doubt
      <4>4. c.feature = Ours => rk.protocol = "compatibility-v1" \/ rk.active
        BY <1>0, <3>3 DEF Fit
      <4>5. CASE rk.active
        <5> HIDE DEF c, j
        <5> QED BY <4>2, <4>3, <4>4, <4>5, <2>2, <2>3, <3>3, <1>0, FitTwo
      <4>6. CASE ~rk.active
        <5> HIDE DEF c, j
        <5> QED BY <4>2, <4>3, <4>4, <4>6, <2>2, <2>3, <3>3, <1>0, FitTwo
      <4> QED BY <4>5, <4>6
    <3> QED BY <3>1, <3>2, <3>3
  <2> QED BY <1>3, <1>6, <2>1, <2>4
<1> QED BY <1>4, <1>5, <1>6 DEF Since

-----------------------------------------------------------------------------
(* A command at work: the disks it passes through, forwards or backwards.    *)

(* The first k of the files u are what they were on the disk b.              *)
Restored(d, b, u, k) == [f \in Files |-> IF \E i \in 1..k : u[i] = f THEN b[f] ELSE d[f]]

(* Undoing the files u leads through disks of G back to the disk b.          *)
Returns(d, b, u, G) ==
  /\ \A k \in 0..Len(u) : Restored(d, b, u, k) \in G
  /\ Restored(d, b, u, Len(u)) = b

(* The disk x is d after the first k of the writes w.                        *)
After(x, d, w, k) ==
  /\ \A f \in Files : (\A i \in 1..k : w[i][1] # f) => x[f] = d[f]
  /\ \A i \in 1..k : x[w[i][1]] = w[i][2]

(* The writes w lead from d to e through disks of G.                         *)
Leads(d, w, e, G) ==
  /\ w \in Seq(Orders) /\ w # <<>>
  /\ \A i, k \in 1..Len(w) : w[i][1] = w[k][1] => i = k
  /\ \A k \in 0..Len(w) : \A x \in Disks : After(x, d, w, k) => x \in G
  /\ e \in Disks /\ After(e, d, w, Len(w))

(* So does every batch, and each of them ends in B.                          *)
Paths(bs, d, G, B) ==
  \E s \in Seq(Disks) :
    /\ Len(s) = Len(bs) + 1 /\ s[1] = d
    /\ \A i \in 1..Len(bs) : Leads(s[i], bs[i], s[i + 1], G) /\ s[i + 1] \in B

(* What is still to be written is no file that was written.                  *)
Unwritten(bs, done) ==
  \A i \in 1..Len(bs[1]) : \A k \in 1..Len(done) : bs[1][i][1] # done[k]

(* A command passes through disks of G only, and ends in B.                  *)
JobSafe(jb, d, G, B) ==
  /\ jb.before \in B
  /\ jb.failing => Returns(d, jb.before, jb.undo, G)
  /\ ~jb.failing =>
       /\ Returns(d, jb.before, Reverse(jb.done), G)
       /\ Paths(jb.batches, d, G, B)
       /\ jb.batches # <<>> => Unwritten(jb.batches, jb.done)
       /\ jb.batches = <<>> => jb.done = <<>>

(* The files written, newest first.                                          *)
LEMMA ReverseAppend ==
  ASSUME NEW s \in Seq(Files), NEW f \in Files
  PROVE  /\ Reverse(s) \in Seq(Files) /\ Len(Reverse(s)) = Len(s)
         /\ Len(Reverse(Append(s, f))) = Len(s) + 1
         /\ Reverse(Append(s, f))[1] = f
         /\ \A i \in 1..Len(s) : /\ Reverse(Append(s, f))[i + 1] = Reverse(s)[i]
                                 /\ Reverse(s)[i] = s[Len(s) - i + 1]
<1>1. Append(s, f) \in Seq(Files) /\ Len(Append(s, f)) = Len(s) + 1
  OBVIOUS
<1>2. \A t \in Seq(Files) : /\ Reverse(t) \in Seq(Files) /\ Len(Reverse(t)) = Len(t)
                            /\ \A i \in 1..Len(t) : Reverse(t)[i] = t[Len(t) - i + 1]
  BY DEF Reverse
<1> DEFINE t == Append(s, f)
           n == Len(s)
<1>3. n \in Nat /\ t[n + 1] = f /\ \A i \in 1..n : t[i] = s[i]
  OBVIOUS
<1>4. t \in Seq(Files) /\ Len(t) = n + 1
  BY <1>1
<1>5. \A i \in 1..n : /\ i + 1 \in 1..(n + 1) /\ n - i + 1 \in 1..n
                      /\ (n + 1) - (i + 1) + 1 = n - i + 1
  BY <1>3
<1>6. 1 \in 1..(n + 1) /\ (n + 1) - 1 + 1 = n + 1
  BY <1>3
<1> HIDE DEF t, n
<1>7. /\ Reverse(t) \in Seq(Files) /\ Len(Reverse(t)) = n + 1
      /\ \A i \in 1..(n + 1) : Reverse(t)[i] = t[(n + 1) - i + 1]
  BY <1>2, <1>4
<1>8. Reverse(t)[1] = f
  BY <1>3, <1>6, <1>7
<1>9. \A i \in 1..n : Reverse(t)[i + 1] = s[n - i + 1]
  BY <1>3, <1>5, <1>7
<1>10. \A i \in 1..n : Reverse(s)[i] = s[n - i + 1]
  BY <1>2 DEF n
<1> QED BY <1>2, <1>7, <1>8, <1>9, <1>10 DEF t, n

(* A disk is what its files hold.                                            *)
LEMMA DiskFunction ==
  ASSUME NEW d \in Disks
  PROVE  d \in [Files -> Contents] /\ d = [f \in Files |-> d[f]]
BY DEF Disks

(* Nothing undone.                                                           *)
LEMMA RestoredNothing ==
  ASSUME NEW d \in Disks, NEW b, NEW u
  PROVE  Restored(d, b, u, 0) = d
BY DiskFunction DEF Restored

(* Restoring some files of a disk gives a disk.                              *)
LEMMA RestoredDisk ==
  ASSUME NEW d \in Disks, NEW b \in Disks, NEW u, NEW i
  PROVE  Restored(d, b, u, i) \in Disks
<1> DEFINE x == Restored(d, b, u, i)
<1>1. \A f \in Files : d[f] \in Holds(f) /\ b[f] \in Holds(f)
  BY DEF Disks
<1>2. \A f \in Files : x[f] \in {d[f], b[f]}
  BY DEF Restored
<1>3. x = [f \in Files |-> x[f]]
  BY DEF Restored
<1> HIDE DEF x
<1>4. \A f \in Files : x[f] \in Holds(f)
  BY <1>1, <1>2
<1>5. \A f \in Files : x[f] \in Contents
  BY <1>4 DEF Contents
<1>6. x \in [Files -> Contents]
  BY <1>3, <1>5
<1>7. x \in Disks
  BY <1>4, <1>6 DEF Disks
<1> QED BY <1>7 DEF x

(* Without files to undo, the disk is what it was.                           *)
LEMMA ReturnsNothing ==
  ASSUME NEW d \in Disks, NEW b, NEW G
  PROVE  Returns(d, b, <<>>, G) <=> d = b /\ d \in G
BY RestoredNothing DEF Returns

(* One step back.                                                            *)
LEMMA ReturnsOne ==
  ASSUME NEW d \in Disks, NEW b \in Disks, NEW u \in Seq(Files), u # <<>>, NEW G, Returns(d, b, u, G)
  PROVE  LET e == [d EXCEPT ![Head(u)] = b[Head(u)]]
         IN  Returns(e, b, Tail(u), G) /\ e \in G
<1> DEFINE e == [d EXCEPT ![Head(u)] = b[Head(u)]]
           t == Tail(u)
<1>1. /\ Head(u) = u[1] /\ u[1] \in Files /\ t \in Seq(Files) /\ Len(t) = Len(u) - 1
      /\ Len(u) \in Nat \ {0} /\ \A i \in 1..Len(t) : t[i] = u[i + 1]
  OBVIOUS
<1>2. d \in [Files -> Contents] /\ b \in [Files -> Contents]
  BY DiskFunction
<1>3. ASSUME NEW k \in 0..Len(t)
      PROVE  Restored(e, b, t, k) = Restored(d, b, u, k + 1)
  <2>1. \A f \in Files : (\E i \in 1..(k + 1) : u[i] = f) <=> f = u[1] \/ \E i \in 1..k : t[i] = f
    <3>1. ASSUME NEW f \in Files, NEW i \in 1..(k + 1), u[i] = f, f # u[1]
          PROVE  \E l \in 1..k : t[l] = f
      <4>1. i - 1 \in 1..k /\ t[i - 1] = u[i]
        BY <1>1, <3>1
      <4> QED BY <3>1, <4>1
    <3>2. ASSUME NEW f \in Files, NEW i \in 1..k, t[i] = f
          PROVE  \E l \in 1..(k + 1) : u[l] = f
      <4>1. i + 1 \in 1..(k + 1) /\ t[i] = u[i + 1]
        BY <1>1
      <4> QED BY <3>2, <4>1
    <3> QED BY <3>1, <3>2
  <2>2. \A f \in Files : e[f] = IF f = u[1] THEN b[f] ELSE d[f]
    BY <1>1, <1>2
  <2> QED BY <2>1, <2>2 DEF Restored
<1>4. \A k \in 0..Len(t) : k + 1 \in 0..Len(u) /\ Len(t) + 1 = Len(u)
  BY <1>1
<1>6. e \in [Files -> Contents]
  BY <1>1, <1>2
<1> HIDE DEF e, t
<1>7. Returns(e, b, t, G)
  <2>1. \A k \in 0..Len(t) : Restored(e, b, t, k) \in G
    BY <1>3, <1>4 DEF Returns
  <2>2. Restored(e, b, t, Len(t)) = b
    <3>1. Len(t) \in 0..Len(t) /\ Len(t) + 1 = Len(u)
      BY <1>1, <1>4
    <3> QED BY <3>1, <1>3 DEF Returns
  <2> QED BY <2>1, <2>2 DEF Returns
<1>8. e = Restored(e, b, t, 0)
  BY <1>6 DEF Restored
<1>9. 0 \in 0..Len(t)
  BY <1>1
<1> QED BY <1>7, <1>8, <1>9 DEF Returns, e, t

(* A write of a file that was not written can be undone first.               *)
LEMMA ReturnsAppend ==
  ASSUME NEW d \in Disks, NEW b \in Disks, NEW done \in Seq(Files), NEW G,
         Returns(d, b, Reverse(done), G),
         NEW f \in Files, NEW c, \A k \in 1..Len(done) : done[k] # f,
         [d EXCEPT ![f] = c] \in G, [d EXCEPT ![f] = c] \in Disks
  PROVE  Returns([d EXCEPT ![f] = c], b, Reverse(Append(done, f)), G)
<1> DEFINE e == [d EXCEPT ![f] = c]
           u == Reverse(done)
           v == Reverse(Append(done, f))
<1>1. /\ u \in Seq(Files) /\ Len(u) = Len(done) /\ Len(v) = Len(u) + 1 /\ v[1] = f
      /\ \A i \in 1..Len(u) : v[i + 1] = u[i]
      /\ \A i \in 1..Len(u) : u[i] # f
  <2>1. /\ u \in Seq(Files) /\ Len(u) = Len(done) /\ Len(v) = Len(u) + 1 /\ v[1] = f
        /\ \A i \in 1..Len(u) : v[i + 1] = u[i] /\ u[i] = done[Len(done) - i + 1]
    BY ReverseAppend
  <2>2. \A i \in 1..Len(done) : Len(done) - i + 1 \in 1..Len(done)
    OBVIOUS
  <2> HIDE DEF u, v
  <2> QED BY <2>1, <2>2
<1>2. d \in [Files -> Contents] /\ b \in [Files -> Contents]
  BY DiskFunction
<1>3. \A g \in Files : e[g] = IF g = f THEN c ELSE d[g]
  BY <1>2
<1>4. e \in G /\ e \in Disks
  OBVIOUS
<1> HIDE DEF e, u, v
<1>5. b[f] = d[f]
  <2>1. Restored(d, b, u, Len(u)) = b
    BY DEF Returns, u
  <2>2. Restored(d, b, u, Len(u))[f] = d[f]
    BY <1>1 DEF Restored
  <2> QED BY <2>1, <2>2
<1>6. ASSUME NEW k \in 0..Len(u)
      PROVE  Restored(e, b, v, k + 1) = Restored(d, b, u, k)
  <2>1. \A g \in Files : (\E i \in 1..(k + 1) : v[i] = g) <=> g = f \/ \E i \in 1..k : u[i] = g
    <3>1. ASSUME NEW g \in Files, NEW i \in 1..(k + 1), v[i] = g, g # f
          PROVE  \E l \in 1..k : u[l] = g
      <4>1. i - 1 \in 1..k /\ u[i - 1] = v[i]
        <5>1. i # 1 /\ i \in Nat /\ Len(u) \in Nat
          BY <1>1, <3>1
        <5>2. i - 1 \in 1..Len(u) /\ (i - 1) + 1 = i /\ i - 1 \in 1..k
          BY <5>1
        <5> QED BY <5>2, <1>1
      <4> QED BY <3>1, <4>1
    <3>2. ASSUME NEW g \in Files, NEW i \in 1..k, u[i] = g
          PROVE  \E l \in 1..(k + 1) : v[l] = g
      <4>1. i + 1 \in 1..(k + 1) /\ v[i + 1] = u[i]
        BY <1>1
      <4> QED BY <3>2, <4>1
    <3>3. 1 \in 1..(k + 1)
      BY <1>1
    <3> QED BY <3>1, <3>2, <3>3, <1>1
  <2>2. \A i \in 1..k : u[i] # f
    BY <1>1
  <2> QED BY <2>1, <2>2, <1>3, <1>5 DEF Restored
<1>7. Restored(e, b, v, 0) = e
  BY <1>4, RestoredNothing
<1>8. \A k \in 0..Len(v) : k = 0 \/ \E l \in 0..Len(u) : k = l + 1
  <2>1. Len(u) \in Nat /\ Len(v) = Len(u) + 1
    BY <1>1
  <2>2. \A k \in 0..Len(v) : k = 0 \/ (k - 1 \in 0..Len(u) /\ k = (k - 1) + 1)
    BY <2>1
  <2> QED BY <2>2
<1>9. \A k \in 0..Len(v) : Restored(e, b, v, k) \in G
  BY <1>4, <1>6, <1>7, <1>8 DEF Returns, u
<1>10. Restored(e, b, v, Len(v)) = b
  <2>1. Len(u) \in 0..Len(u) /\ Len(v) = Len(u) + 1
    BY <1>1
  <2> QED BY <2>1, <1>6 DEF Returns, u
<1> QED BY <1>9, <1>10 DEF Returns, e, v

(* What a failed write undoes, and then a second pass over any files.        *)
LEMMA ReturnsTwice ==
  ASSUME NEW d \in Disks, NEW b \in Disks, NEW u \in Seq(Files), NEW t \in Seq(Files), NEW G,
         Returns(d, b, u, G)
  PROVE  Returns(d, b, u \o t, G)
<1> DEFINE v == u \o t
<1>1. /\ v \in Seq(Files) /\ Len(v) = Len(u) + Len(t) /\ Len(u) \in Nat /\ Len(t) \in Nat
      /\ \A i \in 1..Len(u) : v[i] = u[i]
  OBVIOUS
<1> HIDE DEF v
<1>2. ASSUME NEW k \in 0..Len(u)
      PROVE  Restored(d, b, v, k) = Restored(d, b, u, k)
  <2>1. \A i \in 1..k : v[i] = u[i]
    <3>1. \A i \in 1..k : i \in 1..Len(u)
      BY <1>1
    <3> QED BY <1>1, <3>1
  <2>2. \A f : (\E i \in 1..k : v[i] = f) <=> (\E i \in 1..k : u[i] = f)
    BY <2>1
  <2> QED BY <2>2 DEF Restored
<1>3. b \in [Files -> Contents]
  BY DiskFunction
<1>4. ASSUME NEW k \in 0..Len(v), k > Len(u)
      PROVE  Restored(d, b, v, k) = b
  <2>1. \A f \in Files : (\E i \in 1..Len(u) : u[i] = f) => \E i \in 1..k : v[i] = f
    BY <1>1, <1>4
  <2>2. \A f \in Files : (\A i \in 1..Len(u) : u[i] # f) => d[f] = b[f]
    <3>1. \A f \in Files : Restored(d, b, u, Len(u))[f] = b[f]
      BY DEF Returns
    <3> QED BY <3>1 DEF Restored
  <2>3. \A f \in Files : Restored(d, b, v, k)[f] = b[f]
    BY <2>1, <2>2 DEF Restored
  <2>4. Restored(d, b, v, k) = [f \in Files |-> Restored(d, b, v, k)[f]]
    BY DEF Restored
  <2> QED BY <2>3, <2>4, <1>3
<1>5. b \in G
  <2>1. Len(u) \in 0..Len(u)
    BY <1>1
  <2> QED BY <2>1 DEF Returns
<1>6. \A k \in 0..Len(v) : k \in 0..Len(u) \/ k > Len(u)
  BY <1>1
<1>7. \A k \in 0..Len(v) : Restored(d, b, v, k) \in G
  BY <1>2, <1>4, <1>5, <1>6 DEF Returns
<1>8. Restored(d, b, v, Len(v)) = b
  <2>1. Len(v) \in 0..Len(v) /\ Len(u) \in 0..Len(u)
    BY <1>1
  <2>2. Restored(d, b, u, Len(u)) = b
    BY DEF Returns
  <2>3. CASE Len(v) > Len(u)
    BY <2>1, <2>3, <1>4
  <2>4. CASE Len(v) = Len(u)
    BY <2>1, <2>2, <2>4, <1>2
  <2> QED BY <2>1, <2>3, <2>4, <1>1
<1> QED BY <1>7, <1>8 DEF Returns, v

(* One write of a batch.                                                     *)
LEMMA LeadsOne ==
  ASSUME NEW d \in Disks, NEW w, NEW e, NEW G, Leads(d, w, e, G)
  PROVE  LET x == [d EXCEPT ![w[1][1]] = w[1][2]]
         IN  /\ w[1][1] \in Files /\ w[1][2] \in Holds(w[1][1])
             /\ x \in Disks /\ x \in G
             /\ Len(w) \in Nat \ {0}
             /\ Len(w) = 1 => x = e
             /\ Len(w) > 1 => Leads(x, Tail(w), e, G)
<1> DEFINE x == [d EXCEPT ![w[1][1]] = w[1][2]]
           t == Tail(w)
<1>1. w \in Seq(Orders) /\ Len(w) \in Nat \ {0} /\ w[1] \in Orders
  BY DEF Leads
<1>2. w[1][1] \in Files /\ w[1][2] \in Holds(w[1][1])
  BY <1>1, OrderParts
<1>3. x \in Disks
  BY <1>2, PutTyped
<1>4. d \in [Files -> Contents] /\ \A f \in Files : x[f] = IF f = w[1][1] THEN w[1][2] ELSE d[f]
  BY DiskFunction
<1> HIDE DEF x
<1>5. After(x, d, w, 1)
  BY <1>2, <1>4 DEF After
<1>6. 1 \in 0..Len(w)
  BY <1>1
<1>7. x \in G
  BY <1>3, <1>5, <1>6 DEF Leads
<1>8. ASSUME Len(w) = 1
      PROVE  x = e
  <2>1. e \in Disks /\ After(e, d, w, 1)
    BY <1>8 DEF Leads
  <2>2. \A f \in Files : e[f] = x[f]
    BY <2>1, <1>2, <1>4 DEF After
  <2>3. e \in [Files -> Contents] /\ x \in [Files -> Contents]
    BY <2>1, <1>3, DiskFunction
  <2> QED BY <2>2, <2>3
<1>9. ASSUME Len(w) > 1
      PROVE  Leads(x, t, e, G)
  <2>1. /\ t \in Seq(Orders) /\ Len(t) = Len(w) - 1 /\ t # <<>> /\ Len(t) \in Nat
        /\ \A i \in 1..Len(t) : t[i] = w[i + 1] /\ i + 1 \in 1..Len(w) /\ i + 1 # 1
    <3>1. w # <<>>
      BY <1>1
    <3>2. t \in Seq(Orders) /\ Len(t) = Len(w) - 1 /\ \A i \in 1..Len(t) : t[i] = w[i + 1]
      BY <1>1, <3>1
    <3>3. Len(t) \in Nat /\ Len(t) # 0
      BY <3>2, <1>1, <1>9
    <3>4. t # <<>>
      <4> HIDE DEF t
      <4> QED BY <3>3
    <3>5. \A i \in 1..Len(t) : i + 1 \in 1..Len(w) /\ i + 1 # 1
      BY <3>2, <3>3, <1>1
    <3> QED BY <3>2, <3>3, <3>4, <3>5
  <2> HIDE DEF t
  <2>2. \A i, k \in 1..Len(w) : w[i][1] = w[k][1] => i = k
    BY DEF Leads
  <2>3. \A i, k \in 1..Len(t) : t[i][1] = t[k][1] => i = k
    BY <2>1, <2>2
  <2>4. \A i \in 1..Len(t) : t[i][1] # w[1][1] /\ t[i][1] \in Files
    <3>1. 1 \in 1..Len(w)
      BY <1>1
    <3>2. \A i \in 1..Len(t) : t[i] \in Orders
      BY <2>1
    <3> QED BY <2>1, <2>2, <3>1, <3>2, OrderParts
  <2>5. ASSUME NEW k \in 0..Len(t), NEW y, After(y, x, t, k)
        PROVE  After(y, d, w, k + 1)
    <3>1. \A i \in 1..(k + 1) : i = 1 \/ (i - 1 \in 1..k /\ w[i] = t[i - 1])
      <4>1. \A i \in 1..(k + 1) : i = 1 \/ (i - 1 \in 1..k /\ i - 1 \in 1..Len(t) /\ (i - 1) + 1 = i)
        BY <2>1
      <4> QED BY <4>1, <2>1
    <3>2. y[w[1][1]] = w[1][2]
      <4>1. \A i \in 1..k : t[i][1] # w[1][1]
        BY <2>1, <2>4
      <4> QED BY <4>1, <2>5, <1>2, <1>4 DEF After
    <3>3. \A i \in 1..(k + 1) : y[w[i][1]] = w[i][2]
      BY <3>1, <3>2, <2>5 DEF After
    <3>4. ASSUME NEW f \in Files, \A i \in 1..(k + 1) : w[i][1] # f
          PROVE  y[f] = d[f]
      <4>1. \A i \in 1..k : t[i] = w[i + 1] /\ i + 1 \in 1..(k + 1)
        BY <2>1
      <4>2. \A i \in 1..k : t[i][1] # f
        BY <4>1, <3>4
      <4>3. 1 \in 1..(k + 1)
        BY <2>1
      <4> QED BY <4>2, <4>3, <3>4, <2>5, <1>4 DEF After
    <3> QED BY <3>3, <3>4 DEF After
  <2>6. \A k \in 0..Len(t) : k + 1 \in 0..Len(w)
    BY <2>1, <1>1
  <2>7. \A k \in 0..Len(t) : \A y \in Disks : After(y, x, t, k) => y \in G
    BY <2>5, <2>6 DEF Leads
  <2>8. e \in Disks /\ After(e, x, t, Len(t))
    <3>1. e \in Disks /\ After(e, d, w, Len(w))
      BY DEF Leads
    <3>2. \A i \in 1..Len(t) : e[t[i][1]] = t[i][2]
      BY <2>1, <3>1 DEF After
    <3>3. e[w[1][1]] = w[1][2]
      <4>1. 1 \in 1..Len(w)
        BY <1>1
      <4> QED BY <4>1, <3>1 DEF After
    <3>4. ASSUME NEW f \in Files, \A i \in 1..Len(t) : t[i][1] # f
          PROVE  e[f] = x[f]
      <4>1. CASE f = w[1][1]
        BY <4>1, <3>3, <1>4
      <4>2. CASE f # w[1][1]
        <5>1. \A i \in 1..Len(w) : i = 1 \/ (i - 1 \in 1..Len(t) /\ w[i] = t[i - 1])
          <6>1. \A i \in 1..Len(w) : i = 1 \/ (i - 1 \in 1..Len(t) /\ (i - 1) + 1 = i)
            BY <2>1, <1>1
          <6> QED BY <6>1, <2>1
        <5>2. \A i \in 1..Len(w) : w[i][1] # f
          BY <5>1, <4>2, <3>4
        <5> QED BY <5>2, <4>2, <3>1, <1>4 DEF After
      <4> QED BY <4>1, <4>2
    <3> QED BY <3>1, <3>2, <3>4 DEF After
  <2> QED BY <2>1, <2>3, <2>7, <2>8 DEF Leads
<1> QED BY <1>1, <1>2, <1>3, <1>7, <1>8, <1>9 DEF x

(* The next batch.                                                           *)
LEMMA PathsOne ==
  ASSUME NEW d \in Disks, NEW bs \in Seq(Batches), bs # <<>>, NEW G, NEW B, Paths(bs, d, G, B)
  PROVE  LET w == bs[1]
             x == [d EXCEPT ![w[1][1]] = w[1][2]]
         IN  /\ w[1][1] \in Files /\ w[1][2] \in Holds(w[1][1]) /\ x \in Disks /\ x \in G
             /\ w \in Seq(Orders) /\ Len(w) \in Nat \ {0}
             /\ \A i, k \in 1..Len(w) : w[i][1] = w[k][1] => i = k
             /\ Len(w) = 1 => Paths(Tail(bs), x, G, B) /\ x \in B
             /\ Len(w) > 1 => Paths([bs EXCEPT ![1] = Tail(w)], x, G, B)
<1> DEFINE w == bs[1]
           x == [d EXCEPT ![w[1][1]] = w[1][2]]
<1>1. PICK s \in Seq(Disks) :
         /\ Len(s) = Len(bs) + 1 /\ s[1] = d
         /\ \A i \in 1..Len(bs) : Leads(s[i], bs[i], s[i + 1], G) /\ s[i + 1] \in B
  BY DEF Paths
<1>2. Len(bs) \in Nat \ {0} /\ 1 \in 1..Len(bs) /\ 1 + 1 = 2
  OBVIOUS
<1>3. Leads(d, w, s[2], G) /\ s[2] \in B
  BY <1>1, <1>2
<1>4. /\ w[1][1] \in Files /\ w[1][2] \in Holds(w[1][1]) /\ x \in Disks /\ x \in G
      /\ Len(w) \in Nat \ {0}
      /\ Len(w) = 1 => x = s[2]
      /\ Len(w) > 1 => Leads(x, Tail(w), s[2], G)
  <2> HIDE DEF w
  <2> QED BY <1>3, LeadsOne
<1>5. w \in Seq(Orders) /\ \A i, k \in 1..Len(w) : w[i][1] = w[k][1] => i = k
  BY <1>3 DEF Leads
<1> HIDE DEF x, w
<1>6. ASSUME Len(w) = 1
      PROVE  Paths(Tail(bs), x, G, B) /\ x \in B
  <2>1. x = s[2]
    BY <1>4, <1>6
  <2>2. /\ Tail(s) \in Seq(Disks) /\ Len(Tail(s)) = Len(bs) /\ Len(Tail(bs)) = Len(bs) - 1
        /\ \A i \in 1..Len(bs) : Tail(s)[i] = s[i + 1]
        /\ \A i \in 1..(Len(bs) - 1) : Tail(bs)[i] = bs[i + 1]
    <3>1. s # <<>>
      BY <1>1, <1>2
    <3> QED BY <3>1, <1>1, <1>2
  <2>3. \A i \in 1..Len(Tail(bs)) : i + 1 \in 1..Len(bs) /\ i \in 1..Len(bs)
    BY <2>2, <1>2
  <2>4. \A i \in 1..Len(Tail(bs)) :
          Leads(Tail(s)[i], Tail(bs)[i], Tail(s)[i + 1], G) /\ Tail(s)[i + 1] \in B
    BY <2>2, <2>3, <1>1
  <2>5. Len(Tail(s)) = Len(Tail(bs)) + 1 /\ Tail(s)[1] = x
    BY <2>1, <2>2, <1>2
  <2> QED BY <2>1, <2>2, <2>4, <2>5, <1>3 DEF Paths
<1>7. ASSUME Len(w) > 1
      PROVE  Paths([bs EXCEPT ![1] = Tail(w)], x, G, B)
  <2> DEFINE t == [bs EXCEPT ![1] = Tail(w)]
             z == [s EXCEPT ![1] = x]
  <2>1. Leads(x, Tail(w), s[2], G)
    BY <1>4, <1>7
  <2>2. /\ Len(t) = Len(bs) /\ t[1] = Tail(w)
        /\ \A i \in 2..Len(bs) : t[i] = bs[i]
    BY <1>2
  <2>3. /\ z \in Seq(Disks) /\ Len(z) = Len(s) /\ z[1] = x
        /\ \A i \in 2..Len(s) : z[i] = s[i]
    BY <1>1, <1>2, <1>4
  <2> HIDE DEF t, z
  <2>4. \A i \in 1..Len(bs) : i + 1 \in 2..Len(s) /\ (i = 1 \/ i \in 2..Len(bs)) /\ (i # 1 => i \in 2..Len(s))
    BY <1>1, <1>2
  <2>5. \A i \in 1..Len(t) : Leads(z[i], t[i], z[i + 1], G) /\ z[i + 1] \in B
    <3>1. ASSUME NEW i \in 1..Len(bs)
          PROVE  Leads(z[i], t[i], z[i + 1], G) /\ z[i + 1] \in B
      <4>1. z[i + 1] = s[i + 1] /\ s[i + 1] \in B
        BY <2>3, <2>4, <1>1
      <4>2. CASE i = 1
        BY <4>1, <4>2, <2>1, <2>2, <2>3, <1>2
      <4>3. CASE i # 1
        BY <4>1, <4>3, <2>2, <2>3, <2>4, <1>1
      <4> QED BY <4>1, <4>2, <4>3
    <3> QED BY <3>1, <2>2
  <2>6. Len(z) = Len(t) + 1
    BY <1>1, <2>2, <2>3
  <2>7. Paths(t, x, G, B)
    BY <2>3, <2>5, <2>6 DEF Paths
  <2> QED BY <2>7 DEF t
<1> QED BY <1>4, <1>5, <1>6, <1>7 DEF x, w

(* A write before others, of a file that they do not write.                  *)
LEMMA LeadsMore ==
  ASSUME NEW d \in Disks, NEW w \in Seq(Orders), w # <<>>, NEW f, NEW c, w[1] = <<f, c>>,
         NEW G, d \in G, NEW e, Leads([d EXCEPT ![f] = c], Tail(w), e, G),
         \A i \in 2..Len(w) : w[i][1] # f
  PROVE  Leads(d, w, e, G)
<1> DEFINE x == [d EXCEPT ![f] = c]
           t == Tail(w)
<1>1. /\ Len(w) \in Nat \ {0} /\ t \in Seq(Orders) /\ Len(t) = Len(w) - 1
      /\ \A i \in 1..Len(t) : t[i] = w[i + 1]
      /\ w[1] \in Orders
  OBVIOUS
<1>2. f \in Files /\ c \in Holds(f)
  BY <1>1, OrderParts
<1>3. x \in Disks
  BY <1>2, PutTyped
<1>4. \A g \in Files : x[g] = IF g = f THEN c ELSE d[g]
  BY DiskFunction
<1>5. Leads(x, t, e, G)
  OBVIOUS
<1> HIDE DEF x, t
<1>6. w[1][1] = f /\ w[1][2] = c
  OBVIOUS
<1>7. \A i \in 1..Len(w) : i = 1 \/ (i \in 2..Len(w) /\ i - 1 \in 1..Len(t) /\ (i - 1) + 1 = i)
  BY <1>1
<1>8. \A i, k \in 1..Len(w) : w[i][1] = w[k][1] => i = k
  <2>1. ASSUME NEW i \in 1..Len(w), NEW k \in 1..Len(w), w[i][1] = w[k][1], i # k
        PROVE  FALSE
    <3>1. i # 1 /\ k # 1
      BY <1>6, <1>7, <2>1
    <3>2. i - 1 \in 1..Len(t) /\ k - 1 \in 1..Len(t) /\ w[i] = t[i - 1] /\ w[k] = t[k - 1]
      BY <1>1, <1>7, <3>1
    <3>3. i - 1 = k - 1
      BY <3>2, <2>1, <1>5 DEF Leads
    <3> QED BY <3>3, <2>1, <1>1
  <2> QED BY <2>1
<1>9. ASSUME NEW k \in 1..Len(w), NEW y \in Disks, After(y, d, w, k)
      PROVE  After(y, x, t, k - 1)
  <2>1. \A i \in 1..(k - 1) : i \in 1..Len(t) /\ i + 1 \in 1..k /\ i + 1 \in 2..Len(w)
    BY <1>1
  <2>2. \A i \in 1..(k - 1) : y[t[i][1]] = t[i][2]
    BY <2>1, <1>1, <1>9 DEF After
  <2>3. 1 \in 1..k
    BY <1>1
  <2>4. y[f] = c
    BY <2>3, <1>6, <1>9 DEF After
  <2>5. ASSUME NEW g \in Files, \A i \in 1..(k - 1) : t[i][1] # g
        PROVE  y[g] = x[g]
    <3>1. CASE g = f
      BY <3>1, <2>4, <1>4
    <3>2. CASE g # f
      <4>1. \A i \in 1..k : i = 1 \/ (i - 1 \in 1..(k - 1) /\ w[i] = t[i - 1])
        <5>1. \A i \in 1..k : i = 1 \/ (i - 1 \in 1..(k - 1) /\ i - 1 \in 1..Len(t) /\ (i - 1) + 1 = i)
          BY <1>1
        <5> QED BY <5>1, <1>1
      <4>2. \A i \in 1..k : w[i][1] # g
        BY <4>1, <3>2, <2>5, <1>6
      <4> QED BY <4>2, <3>2, <1>4, <1>9 DEF After
    <3> QED BY <3>1, <3>2
  <2> QED BY <2>2, <2>5 DEF After
<1>10. \A k \in 0..Len(w) : \A y \in Disks : After(y, d, w, k) => y \in G
  <2>1. ASSUME NEW y \in Disks, After(y, d, w, 0)
        PROVE  y \in G
    <3>1. \A g \in Files : y[g] = d[g]
      BY <2>1 DEF After
    <3>2. y = d
      BY <3>1, DiskFunction
    <3> QED BY <3>2
  <2>2. ASSUME NEW k \in 1..Len(w), NEW y \in Disks, After(y, d, w, k)
        PROVE  y \in G
    <3>1. After(y, x, t, k - 1) /\ k - 1 \in 0..Len(t)
      BY <2>2, <1>1, <1>9
    <3> QED BY <3>1, <1>5 DEF Leads
  <2>3. \A k \in 0..Len(w) : k = 0 \/ k \in 1..Len(w)
    BY <1>1
  <2> QED BY <2>1, <2>2, <2>3
<1>11. e \in Disks /\ After(e, x, t, Len(t))
  BY <1>5 DEF Leads
<1>12. After(e, d, w, Len(w))
  <2>1. e[f] = c
    <3>1. \A i \in 1..Len(t) : t[i][1] # f
      <4>1. \A i \in 1..Len(t) : i + 1 \in 2..Len(w)
        BY <1>1
      <4> QED BY <4>1, <1>1
    <3> QED BY <3>1, <1>2, <1>4, <1>11 DEF After
  <2>2. \A i \in 1..Len(w) : e[w[i][1]] = w[i][2]
    <3>1. \A i \in 1..Len(w) : i # 1 => w[i] = t[i - 1] /\ i - 1 \in 1..Len(t)
      BY <1>1, <1>7
    <3> QED BY <3>1, <2>1, <1>6, <1>11 DEF After
  <2>3. ASSUME NEW g \in Files, \A i \in 1..Len(w) : w[i][1] # g
        PROVE  e[g] = d[g]
    <3>1. \A i \in 1..Len(t) : i + 1 \in 1..Len(w)
      BY <1>1
    <3>2. \A i \in 1..Len(t) : t[i][1] # g
      BY <3>1, <2>3, <1>1
    <3>3. g # f
      <4>1. 1 \in 1..Len(w)
        BY <1>1
      <4> QED BY <4>1, <2>3, <1>6
    <3> QED BY <3>2, <3>3, <1>4, <1>11 DEF After
  <2> QED BY <2>2, <2>3 DEF After
<1> QED BY <1>8, <1>10, <1>11, <1>12 DEF Leads

(* A single write.                                                           *)
LEMMA LeadsLast ==
  ASSUME NEW d \in Disks, NEW f \in Files, NEW c \in Holds(f), NEW G, d \in G,
         [d EXCEPT ![f] = c] \in G
  PROVE  Leads(d, << <<f, c>> >>, [d EXCEPT ![f] = c], G)
<1> DEFINE x == [d EXCEPT ![f] = c]
           w == << <<f, c>> >>
<1>1. x \in Disks
  BY PutTyped
<1>2. \A g \in Files : x[g] = IF g = f THEN c ELSE d[g]
  BY DiskFunction
<1>3. w \in Seq(Orders) /\ Len(w) = 1 /\ w # <<>> /\ w[1][1] = f /\ w[1][2] = c
  BY OrderTyped
<1>4. x \in G
  OBVIOUS
<1> HIDE DEF x, w
<1>5. After(x, d, w, 1)
  BY <1>2, <1>3 DEF After
<1>6. ASSUME NEW k \in 0..1, NEW y \in Disks, After(y, d, w, k)
      PROVE  y \in G
  <2>1. CASE k = 0
    <3>1. \A g \in Files : y[g] = d[g]
      BY <1>6, <2>1 DEF After
    <3>2. y = d
      BY <3>1, DiskFunction
    <3> QED BY <3>2
  <2>2. CASE k = 1
    <3>1. \A g \in Files : y[g] = x[g]
      BY <1>6, <2>2, <1>2, <1>3 DEF After
    <3>2. y = x
      BY <3>1, <1>1, DiskFunction
    <3> QED BY <3>2, <1>4
  <2> QED BY <2>1, <2>2
<1>7. Leads(d, w, x, G)
  BY <1>1, <1>3, <1>5, <1>6 DEF Leads
<1> QED BY <1>7 DEF w, x

(* Nothing to write.                                                         *)
LEMMA PathsNone ==
  ASSUME NEW d \in Disks, NEW G, NEW B
  PROVE  Paths(<<>>, d, G, B)
<1>1. <<d>> \in Seq(Disks) /\ Len(<<d>>) = Len(<<>>) + 1 /\ <<d>>[1] = d /\ Len(<<>>) = 0
  OBVIOUS
<1>2. \A i \in 1..Len(<<>>) : Leads(<<d>>[i], <<>>[i], <<d>>[i + 1], G) /\ <<d>>[i + 1] \in B
  BY <1>1
<1> QED BY <1>1, <1>2 DEF Paths

(* A batch before others.                                                    *)
LEMMA PathsMore ==
  ASSUME NEW d \in Disks, NEW G, NEW B, NEW e, NEW bs, Len(bs) \in Nat \ {0},
         Leads(d, bs[1], e, G), e \in B,
         NEW cs, Len(cs) = Len(bs) - 1, \A i \in 1..Len(cs) : cs[i] = bs[i + 1],
         Paths(cs, e, G, B)
  PROVE  Paths(bs, d, G, B)
<1>1. PICK s \in Seq(Disks) :
         /\ Len(s) = Len(cs) + 1 /\ s[1] = e
         /\ \A i \in 1..Len(cs) : Leads(s[i], cs[i], s[i + 1], G) /\ s[i + 1] \in B
  BY DEF Paths
<1> DEFINE z == <<d>> \o s
<1>2. /\ z \in Seq(Disks) /\ Len(z) = Len(bs) + 1 /\ z[1] = d
      /\ \A i \in 1..Len(s) : z[i + 1] = s[i]
  BY <1>1
<1>3. Len(s) = Len(bs) /\ Len(s) = Len(cs) + 1 /\ Len(bs) \in Nat
  BY <1>1
<1> HIDE DEF z
<1>4. ASSUME NEW i \in 1..Len(bs)
      PROVE  Leads(z[i], bs[i], z[i + 1], G) /\ z[i + 1] \in B
  <2>1. CASE i = 1
    <3>1. z[2] = s[1]
      BY <2>1, <1>2, <1>3, <1>4
    <3> QED BY <3>1, <2>1, <1>1, <1>2
  <2>2. CASE i # 1
    <3>1. i - 1 \in 1..Len(cs) /\ (i - 1) + 1 = i /\ i - 1 \in 1..Len(s) /\ i \in 1..Len(s)
      BY <2>2, <1>3
    <3>2. z[i] = s[i - 1] /\ z[i + 1] = s[i] /\ bs[i] = cs[i - 1]
      BY <3>1, <1>2
    <3>3. Leads(s[i - 1], cs[i - 1], s[i], G) /\ s[i] \in B
      BY <3>1, <1>1
    <3> QED BY <3>2, <3>3
  <2> QED BY <2>1, <2>2
<1> QED BY <1>2, <1>4 DEF Paths

(* Nothing was written.                                                      *)
LEMMA ReverseNothing == Reverse(<<>>) = <<>>
BY DEF Reverse

(* The parts of a command at work.                                           *)
LEMMA JobParts ==
  ASSUME NEW jb \in Jobs
  PROVE  /\ jb.batches \in Seq(Batches) /\ jb.done \in Seq(Files) /\ jb.before \in Disks
         /\ jb.undo \in Seq(Files) /\ jb.failing \in BOOLEAN /\ jb.repairing \in BOOLEAN
         /\ jb.name \in Commands /\ jb.found \in Disks
BY DEF Jobs

(* A write within a batch makes of the command jb the command j.             *)
Advances(jb, j) ==
  /\ j.name = jb.name /\ j.before = jb.before /\ j.found = jb.found
  /\ j.batches = [jb.batches EXCEPT ![1] = Tail(jb.batches[1])]
  /\ j.done = Append(jb.done, jb.batches[1][1][1])
  /\ j.repairing = jb.repairing /\ j.failing = FALSE

(* The last write of a batch, to the disk x.                                 *)
Turns(jb, x, j) ==
  /\ j.name = jb.name /\ j.batches = Tail(jb.batches) /\ j.done = <<>>
  /\ j.repairing = FALSE /\ j.failing = FALSE
  /\ j.before = IF jb.name = "subagents" /\ ~jb.repairing THEN jb.before ELSE x
  /\ j.found = IF jb.repairing THEN x ELSE jb.found

(* The files of the second pass.                                             *)
Five == <<"recovery", "primary", "cache", "config", "app">>

(* A failed write.                                                           *)
Fails(jb, j) ==
  /\ j.name = jb.name /\ j.before = jb.before /\ j.found = jb.found /\ j.batches = jb.batches
  /\ j.done = jb.done /\ j.repairing = jb.repairing /\ j.failing = TRUE
  /\ j.undo = Reverse(jb.done) \o (IF jb.name = "subagents" /\ ~jb.repairing THEN Five ELSE <<>>)

(* A file that is undone.                                                    *)
Undoes(jb, j) ==
  /\ j.name = jb.name /\ j.before = jb.before /\ j.found = jb.found /\ j.batches = jb.batches
  /\ j.done = jb.done /\ j.repairing = jb.repairing /\ j.failing = jb.failing
  /\ j.undo = Tail(jb.undo)

(* A command that starts where the disk is one of B.                         *)
LEMMA JobStarts ==
  ASSUME NEW d \in Disks, NEW G, NEW B, d \in G, d \in B, NEW jb,
         jb.before = d, jb.done = <<>>, ~jb.failing, Paths(jb.batches, d, G, B)
  PROVE  JobSafe(jb, d, G, B)
<1>1. Returns(d, d, Reverse(<<>>), G)
  BY ReverseNothing, ReturnsNothing
<1>2. jb.batches # <<>> => Unwritten(jb.batches, jb.done)
  BY DEF Unwritten
<1> QED BY <1>1, <1>2 DEF JobSafe

(* A command at work is on a disk of G.                                      *)
LEMMA JobOn ==
  ASSUME NEW d \in Disks, NEW G, NEW B, NEW jb \in Jobs, JobSafe(jb, d, G, B)
  PROVE  d \in G
<1>1. ASSUME NEW u \in Seq(Files), Returns(d, jb.before, u, G)
      PROVE  d \in G
  <2>1. 0 \in 0..Len(u)
    BY <1>1
  <2> QED BY <2>1, <1>1, RestoredNothing DEF Returns
<1>2. Reverse(jb.done) \in Seq(Files)
  BY JobParts DEF Reverse
<1> QED BY <1>1, <1>2, JobParts DEF JobSafe

(* More disks do no harm.                                                    *)
LEMMA JobWider ==
  ASSUME NEW d, NEW G, NEW B, NEW H, NEW C, G \subseteq H, B \subseteq C, NEW jb, JobSafe(jb, d, G, B)
  PROVE  JobSafe(jb, d, H, C)
<1>1. \A b, u : Returns(d, b, u, G) => Returns(d, b, u, H)
  BY DEF Returns
<1>2. \A x, w, e : Leads(x, w, e, G) => Leads(x, w, e, H)
  BY DEF Leads
<1>3. \A bs : Paths(bs, d, G, B) => Paths(bs, d, H, C)
  BY <1>2 DEF Paths
<1> QED BY <1>1, <1>3 DEF JobSafe

(* After a write within a batch the rest of it is still unwritten.           *)
LEMMA UnwrittenOn ==
  ASSUME NEW bs \in Seq(Batches), bs # <<>>, NEW done \in Seq(Files), Unwritten(bs, done),
         NEW w, w = bs[1], Len(w) > 1, w \in Seq(Orders), NEW f, f = w[1][1], f \in Files,
         \A i, k \in 1..Len(w) : w[i][1] = w[k][1] => i = k,
         NEW cs, cs[1] = Tail(w)
  PROVE  Unwritten(cs, Append(done, f)) /\ \A k \in 1..Len(done) : done[k] # f
<1>1. 1 \in 1..Len(w)
  OBVIOUS
<1>2. \A k \in 1..Len(done) : done[k] # f
  BY <1>1 DEF Unwritten
<1>3. ASSUME NEW i \in 1..Len(Tail(w)), NEW k \in 1..Len(Append(done, f))
      PROVE  Tail(w)[i][1] # Append(done, f)[k]
  <2>1. Tail(w)[i] = w[i + 1] /\ i + 1 \in 1..Len(w) /\ i + 1 # 1
    OBVIOUS
  <2>2. Append(done, f)[k] = f \/ (k \in 1..Len(done) /\ Append(done, f)[k] = done[k])
    OBVIOUS
  <2>3. w[i + 1][1] # f
    BY <2>1, <1>1
  <2>4. \A l \in 1..Len(done) : w[i + 1][1] # done[l]
    BY <2>1 DEF Unwritten
  <2> QED BY <2>1, <2>2, <2>3, <2>4
<1> QED BY <1>2, <1>3 DEF Unwritten

(* One write of a command.                                                   *)
LEMMA JobWrites ==
  ASSUME NEW d \in Disks, NEW G, NEW B, NEW jb \in Jobs, JobSafe(jb, d, G, B),
         ~jb.failing, jb.batches # <<>>, B \subseteq G, jb.name # "subagents", NEW j
  PROVE  LET w == jb.batches[1]
             x == [d EXCEPT ![w[1][1]] = w[1][2]]
         IN  /\ x \in Disks
             /\ Len(w) > 1 /\ Advances(jb, j) => JobSafe(j, x, G, B)
             /\ ~(Len(w) > 1) /\ Turns(jb, x, j) => JobSafe(j, x, G, B)
<1> DEFINE w == jb.batches[1]
           f == w[1][1]
           c == w[1][2]
           x == [d EXCEPT ![f] = c]
<1>1. /\ jb.batches \in Seq(Batches) /\ jb.done \in Seq(Files) /\ jb.before \in Disks
  BY JobParts
<1>2. /\ Returns(d, jb.before, Reverse(jb.done), G) /\ Paths(jb.batches, d, G, B)
      /\ Unwritten(jb.batches, jb.done) /\ jb.before \in B
  BY DEF JobSafe
<1>3. /\ f \in Files /\ c \in Holds(f) /\ x \in Disks /\ x \in G
      /\ w \in Seq(Orders) /\ Len(w) \in Nat \ {0}
      /\ \A i, k \in 1..Len(w) : w[i][1] = w[k][1] => i = k
      /\ Len(w) = 1 => Paths(Tail(jb.batches), x, G, B) /\ x \in B
      /\ Len(w) > 1 => Paths([jb.batches EXCEPT ![1] = Tail(w)], x, G, B)
  BY <1>1, <1>2, PathsOne
<1>4. ASSUME Len(w) > 1, Advances(jb, j)
      PROVE  JobSafe(j, x, G, B)
  <2> DEFINE bs == [jb.batches EXCEPT ![1] = Tail(w)]
  <2>1. j.before = jb.before /\ j.batches = bs /\ j.done = Append(jb.done, f) /\ j.failing = FALSE
    BY <1>4 DEF Advances
  <2>2. bs # <<>> /\ bs[1] = Tail(w) /\ 1 \in 1..Len(w)
    BY <1>1, <1>3
  <2> HIDE DEF x, f, c, bs
  <2>3. Unwritten(bs, Append(jb.done, f)) /\ \A k \in 1..Len(jb.done) : jb.done[k] # f
    BY <1>1, <1>2, <1>3, <1>4, <2>2, UnwrittenOn DEF f, Unwritten
  <2>4. Returns(x, jb.before, Reverse(Append(jb.done, f)), G)
    BY <1>1, <1>2, <1>3, <2>3, ReturnsAppend DEF x
  <2>7. Paths(bs, x, G, B)
    BY <1>3, <1>4 DEF bs
  <2> QED BY <1>2, <2>1, <2>2, <2>3, <2>4, <2>7 DEF JobSafe
<1>5. ASSUME ~(Len(w) > 1), Turns(jb, x, j)
      PROVE  JobSafe(j, x, G, B)
  <2>1. /\ j.before = x /\ j.batches = Tail(jb.batches) /\ j.done = <<>> /\ ~j.failing
    BY <1>5 DEF Turns
  <2> HIDE DEF x, w, f, c
  <2>2. Len(w) = 1
    <3>1. Len(w) \in Nat \ {0}
      BY <1>3
    <3>2. \A n \in Nat \ {0} : ~(n > 1) => n = 1
      OBVIOUS
    <3> QED BY <3>1, <3>2, <1>5
  <2> QED BY <2>1, <2>2, <1>3, JobStarts DEF w
<1> QED BY <1>3, <1>4, <1>5

(* A failed write.                                                           *)
LEMMA JobFails ==
  ASSUME NEW d \in Disks, NEW G, NEW B, NEW jb \in Jobs, JobSafe(jb, d, G, B), ~jb.failing,
         NEW j, Fails(jb, j), jb.name # "subagents"
  PROVE  JobSafe(j, d, G, B)
<1> DEFINE u == Reverse(jb.done)
<1>1. u \in Seq(Files) /\ \A v \in Seq(Files) : v \o <<>> = v
  BY JobParts DEF Reverse
<1>2. j.before = jb.before /\ j.undo = u /\ j.failing = TRUE
  <2>1. j.before = jb.before /\ j.undo = u \o <<>> /\ j.failing = TRUE
    BY DEF Fails
  <2> QED BY <1>1, <2>1
<1>3. Returns(d, jb.before, u, G) /\ jb.before \in B
  BY DEF JobSafe
<1> QED BY <1>2, <1>3 DEF JobSafe

(* One file undone.                                                          *)
LEMMA JobUndoes ==
  ASSUME NEW d \in Disks, NEW G, NEW B, NEW jb \in Jobs, JobSafe(jb, d, G, B),
         jb.failing, jb.undo # <<>>, NEW j, Undoes(jb, j)
  PROVE  LET x == [d EXCEPT ![Head(jb.undo)] = jb.before[Head(jb.undo)]]
         IN  JobSafe(j, x, G, B)
<1> DEFINE x == [d EXCEPT ![Head(jb.undo)] = jb.before[Head(jb.undo)]]
<1>1. j.before = jb.before /\ j.undo = Tail(jb.undo) /\ j.failing = jb.failing
  BY DEF Undoes
<1>2. Returns(d, jb.before, jb.undo, G) /\ jb.before \in B
  BY DEF JobSafe
<1>3. Returns(x, jb.before, Tail(jb.undo), G)
  BY <1>2, JobParts, ReturnsOne
<1> HIDE DEF x
<1>4. JobSafe(j, x, G, B)
  BY <1>1, <1>2, <1>3 DEF JobSafe
<1> QED BY <1>4 DEF x

(* A command that ends leaves what it found or what it wrote.                *)
LEMMA JobEnds ==
  ASSUME NEW d \in Disks, NEW G, NEW B, NEW jb \in Jobs, JobSafe(jb, d, G, B),
         IF jb.failing THEN jb.undo = <<>> ELSE jb.batches = <<>>
  PROVE  d = jb.before /\ d \in B
<1>1. jb.before \in B
  BY DEF JobSafe
<1>2. Returns(d, jb.before, <<>>, G)
  BY JobParts, ReverseNothing DEF JobSafe
<1> QED BY <1>1, <1>2, ReturnsNothing

-----------------------------------------------------------------------------
(* A change of the protocol: two batches of its own, and what they began     *)
(* with is restored as a whole.                                              *)

(* The batch w is on its way from b to e, with the files done written.       *)
Partial(d, b, w, done, e, G) ==
  /\ Returns(d, b, Reverse(done), G) /\ Leads(d, w, e, G) /\ Unwritten(<<w>>, done)

(* One write is left, to a disk of B; x can be brought back to b.            *)
Finished(x, b, v, G, B) ==
  \E e \in B : Leads(x, v, e, G) /\ Len(v) = 1 /\ Returns(x, b, Five, G)

(* Both batches are left.                                                    *)
Planned(x, w, v, G, B) ==
  \E y \in Disks : Leads(x, w, y, G) /\ Finished(y, x, v, G, B)

(* The command passes through disks of G only, and ends in B.                *)
SwitchSafe(jb, d, G, B) ==
  /\ jb.before \in B
  /\ jb.failing => Returns(d, jb.before, jb.undo, G)
  /\ ~jb.failing =>
       \/ /\ jb.repairing /\ Len(jb.batches) = 3
          /\ \E x \in B : /\ Partial(d, jb.before, jb.batches[1], jb.done, x, G)
                         /\ Planned(x, jb.batches[2], jb.batches[3], G, B)
       \/ /\ ~jb.repairing /\ Len(jb.batches) = 2
          /\ \E x \in Disks : /\ Partial(d, jb.before, jb.batches[1], jb.done, x, G)
                             /\ Finished(x, jb.before, jb.batches[2], G, B)
       \/ /\ ~jb.repairing /\ Len(jb.batches) = 1 /\ jb.done = <<>>
          /\ Finished(d, jb.before, jb.batches[1], G, B)
       \/ jb.batches = <<>> /\ jb.done = <<>> /\ d \in B

(* A batch begins.                                                           *)
LEMMA PartialBegins ==
  ASSUME NEW d \in Disks, NEW w, NEW e, NEW G, d \in G, Leads(d, w, e, G)
  PROVE  Partial(d, d, w, <<>>, e, G)
<1>1. Returns(d, d, Reverse(<<>>), G)
  BY ReverseNothing, ReturnsNothing
<1>2. Unwritten(<<w>>, <<>>)
  BY DEF Unwritten
<1> QED BY <1>1, <1>2 DEF Partial

(* A batch goes on.                                                          *)
LEMMA PartialGoes ==
  ASSUME NEW d \in Disks, NEW b \in Disks, NEW w \in Batches, NEW done \in Seq(Files),
         NEW e, NEW G, Partial(d, b, w, done, e, G)
  PROVE  LET f == w[1][1]
             x == [d EXCEPT ![f] = w[1][2]]
         IN  /\ x \in Disks /\ x \in G /\ Len(w) \in Nat \ {0}
             /\ Len(w) = 1 => x = e
             /\ Len(w) > 1 => Partial(x, b, Tail(w), Append(done, f), e, G)
<1> DEFINE f == w[1][1]
           c == w[1][2]
           x == [d EXCEPT ![f] = c]
<1>1. Returns(d, b, Reverse(done), G) /\ Leads(d, w, e, G) /\ Unwritten(<<w>>, done)
  BY DEF Partial
<1>2. /\ f \in Files /\ c \in Holds(f) /\ x \in Disks /\ x \in G /\ Len(w) \in Nat \ {0}
      /\ Len(w) = 1 => x = e
      /\ Len(w) > 1 => Leads(x, Tail(w), e, G)
  BY <1>1, LeadsOne
<1>3. w \in Seq(Orders) /\ \A i, k \in 1..Len(w) : w[i][1] = w[k][1] => i = k
  BY <1>1 DEF Leads
<1>4. ASSUME Len(w) > 1
      PROVE  Partial(x, b, Tail(w), Append(done, f), e, G)
  <2>1. <<w>> \in Seq(Batches) /\ <<w>> # <<>> /\ <<w>>[1] = w /\ <<Tail(w)>>[1] = Tail(w)
    OBVIOUS
  <2> HIDE DEF x, f, c
  <2>2. Unwritten(<<Tail(w)>>, Append(done, f)) /\ \A k \in 1..Len(done) : done[k] # f
    BY <1>1, <1>2, <1>3, <1>4, <2>1, UnwrittenOn DEF f
  <2>3. Returns(x, b, Reverse(Append(done, f)), G)
    BY <1>1, <1>2, <2>2, ReturnsAppend DEF x
  <2> QED BY <1>2, <1>4, <2>2, <2>3 DEF Partial
<1> QED BY <1>2, <1>4

(* Such a command is on a disk of G.                                         *)
LEMMA SwitchOn ==
  ASSUME NEW d \in Disks, NEW G, NEW B, B \subseteq G, NEW jb \in Jobs, SwitchSafe(jb, d, G, B)
  PROVE  d \in G
<1>1. ASSUME NEW b, NEW u \in Seq(Files), Returns(d, b, u, G)
      PROVE  d \in G
  <2>1. 0 \in 0..Len(u)
    BY <1>1
  <2> QED BY <2>1, <1>1, RestoredNothing DEF Returns
<1>2. Reverse(jb.done) \in Seq(Files) /\ jb.undo \in Seq(Files) /\ Five \in Seq(Files)
  BY JobParts DEF Reverse, Five, Files
<1>3. \A b, w, e : Partial(d, b, w, jb.done, e, G) => d \in G
  BY <1>1, <1>2 DEF Partial
<1>4. \A b, v : Finished(d, b, v, G, B) => d \in G
  BY <1>1, <1>2 DEF Finished
<1>5. CASE jb.failing
  BY <1>1, <1>2, <1>5 DEF SwitchSafe
<1>6. CASE ~jb.failing
  BY <1>3, <1>4, <1>6 DEF SwitchSafe
<1> QED BY <1>5, <1>6

(* More disks do no harm.                                                    *)
LEMMA SwitchWider ==
  ASSUME NEW d, NEW G, NEW B, NEW H, NEW C, G \subseteq H, B \subseteq C, NEW jb, SwitchSafe(jb, d, G, B)
  PROVE  SwitchSafe(jb, d, H, C)
<1>1. \A x, b, u : Returns(x, b, u, G) => Returns(x, b, u, H)
  BY DEF Returns
<1>2. \A x, w, e : Leads(x, w, e, G) => Leads(x, w, e, H)
  BY DEF Leads
<1>3. \A x, b, w, done, e : Partial(x, b, w, done, e, G) => Partial(x, b, w, done, e, H)
  BY <1>1, <1>2 DEF Partial
<1>4. \A x, b, v : Finished(x, b, v, G, B) => Finished(x, b, v, H, C)
  BY <1>1, <1>2 DEF Finished
<1>5. \A x, w, v : Planned(x, w, v, G, B) => Planned(x, w, v, H, C)
  BY <1>2, <1>4 DEF Planned
<1> QED BY <1>1, <1>3, <1>4, <1>5 DEF SwitchSafe

(* The batches after a write within the first of them, and after its last.   *)
LEMMA BatchesLeft ==
  ASSUME NEW bs \in Seq(Batches), bs # <<>>, NEW v, NEW cs, cs = [bs EXCEPT ![1] = v]
  PROVE  /\ Len(bs) \in Nat \ {0} /\ Tail(bs) \in Seq(Batches) /\ Len(Tail(bs)) = Len(bs) - 1
         /\ Len(bs) = 1 => Tail(bs) = <<>>
         /\ Len(bs) = 2 => Len(Tail(bs)) = 1 /\ Tail(bs)[1] = bs[2]
         /\ Len(bs) = 3 => Len(Tail(bs)) = 2 /\ Tail(bs)[1] = bs[2] /\ Tail(bs)[2] = bs[3]
         /\ Len(cs) = Len(bs) /\ cs[1] = v
         /\ Len(bs) = 2 => cs[2] = bs[2]
         /\ Len(bs) = 3 => cs[2] = bs[2] /\ cs[3] = bs[3]
<1>1. /\ Len(bs) \in Nat \ {0} /\ Tail(bs) \in Seq(Batches) /\ Len(Tail(bs)) = Len(bs) - 1
      /\ \A i \in 1..(Len(bs) - 1) : Tail(bs)[i] = bs[i + 1]
  OBVIOUS
<1>2. Len(bs) = 1 => Tail(bs) = <<>>
  <2> DEFINE t == Tail(bs)
  <2>1. t \in Seq(Batches) /\ (Len(bs) = 1 => Len(t) = 0)
    BY <1>1
  <2> HIDE DEF t
  <2>2. Len(t) = 0 => t = <<>>
    BY <2>1, EmptySeq
  <2> QED BY <2>1, <2>2 DEF t
<1>3. Len(bs) = 2 => Len(Tail(bs)) = 1 /\ Tail(bs)[1] = bs[2]
  BY <1>1
<1>4. Len(bs) = 3 => Len(Tail(bs)) = 2 /\ Tail(bs)[1] = bs[2] /\ Tail(bs)[2] = bs[3]
  BY <1>1
<1>5. DOMAIN bs = 1..Len(bs) /\ DOMAIN cs = DOMAIN bs
  OBVIOUS
<1>6. Len(cs) = Len(bs)
  BY <1>1, <1>5
<1>7. cs[1] = v
  BY <1>1, <1>5
<1>8. Len(bs) = 2 => cs[2] = bs[2]
  BY <1>5
<1>9. Len(bs) = 3 => cs[2] = bs[2] /\ cs[3] = bs[3]
  BY <1>5
<1> QED BY <1>1, <1>2, <1>3, <1>4, <1>6, <1>7, <1>8, <1>9

(* A batch without another write has one.                                    *)
LEMMA LastOne ==
  ASSUME NEW n \in Nat \ {0}, ~(n > 1)
  PROVE  n = 1
OBVIOUS

(* One of its writes.                                                        *)
LEMMA SwitchWrites ==
  ASSUME NEW d \in Disks, NEW G, NEW B, NEW jb \in Jobs, SwitchSafe(jb, d, G, B),
         ~jb.failing, jb.batches # <<>>, B \subseteq G, B \subseteq Disks, jb.name = "subagents", NEW j
  PROVE  LET w == jb.batches[1]
             x == [d EXCEPT ![w[1][1]] = w[1][2]]
         IN  /\ x \in Disks
             /\ Len(w) > 1 /\ Advances(jb, j) => SwitchSafe(j, x, G, B)
             /\ ~(Len(w) > 1) /\ Turns(jb, x, j) => SwitchSafe(j, x, G, B)
<1> DEFINE bs == jb.batches
           w == bs[1]
           f == w[1][1]
           x == [d EXCEPT ![f] = w[1][2]]
           b == jb.before
<1>1. /\ bs \in Seq(Batches) /\ jb.done \in Seq(Files) /\ b \in Disks /\ bs # <<>>
      /\ w \in Batches /\ b \in B
  <2>1. bs \in Seq(Batches) /\ jb.done \in Seq(Files) /\ b \in Disks /\ bs # <<>>
    BY JobParts
  <2>2. w \in Batches
    BY <2>1
  <2> QED BY <2>1, <2>2 DEF SwitchSafe
<1> DEFINE cs == [bs EXCEPT ![1] = Tail(w)]
<1> HIDE DEF bs, w, f, x, b
<1>2. /\ Len(bs) \in Nat \ {0}
      /\ Len(bs) = 1 => Tail(bs) = <<>>
      /\ Len(bs) = 2 => Len(Tail(bs)) = 1 /\ Tail(bs)[1] = bs[2]
      /\ Len(bs) = 3 => Len(Tail(bs)) = 2 /\ Tail(bs)[1] = bs[2] /\ Tail(bs)[2] = bs[3]
      /\ Len(cs) = Len(bs) /\ cs[1] = Tail(w)
      /\ Len(bs) = 2 => cs[2] = bs[2]
      /\ Len(bs) = 3 => cs[2] = bs[2] /\ cs[3] = bs[3]
  BY <1>1, BatchesLeft
<1> HIDE DEF cs
<1>3. CASE jb.repairing
  <2>1. PICK y \in B : Partial(d, b, w, jb.done, y, G) /\ Planned(y, bs[2], bs[3], G, B) /\ Len(bs) = 3
    BY <1>1, <1>3 DEF SwitchSafe, bs, w, b
  <2>2. /\ x \in Disks /\ x \in G /\ Len(w) \in Nat \ {0} /\ (Len(w) = 1 => x = y)
        /\ Len(w) > 1 => Partial(x, b, Tail(w), Append(jb.done, f), y, G)
    BY <1>1, <2>1, PartialGoes DEF x, f
  <2>3. ASSUME Len(w) > 1, Advances(jb, j)
        PROVE  SwitchSafe(j, x, G, B)
    <3>1. /\ j.before = b /\ j.done = Append(jb.done, f) /\ j.repairing /\ j.failing = FALSE
          /\ j.batches = cs
      BY <1>3, <2>3 DEF Advances, b, f, w, bs, cs
    <3>2. Len(j.batches) = 3 /\ j.batches[1] = Tail(w) /\ j.batches[2] = bs[2] /\ j.batches[3] = bs[3]
      BY <1>2, <2>1, <3>1
    <3> QED BY <1>1, <2>1, <2>2, <2>3, <3>1, <3>2 DEF SwitchSafe
  <2>4. ASSUME ~(Len(w) > 1), Turns(jb, x, j)
        PROVE  SwitchSafe(j, x, G, B)
    <3>1. x = y
      <4>1. Len(w) = 1
        BY <2>2, <2>4, LastOne
      <4> QED BY <2>2, <4>1
    <3>2. /\ j.before = x /\ j.done = <<>> /\ j.repairing = FALSE /\ j.failing = FALSE
          /\ j.batches = Tail(bs)
      BY <1>3, <2>4 DEF Turns, bs
    <3>3. Len(j.batches) = 2 /\ j.batches[1] = bs[2] /\ j.batches[2] = bs[3]
      BY <1>2, <2>1, <3>2
    <3>4. PICK z \in Disks : Leads(x, bs[2], z, G) /\ Finished(z, x, bs[3], G, B)
      BY <2>1, <3>1 DEF Planned
    <3>5. Partial(x, x, bs[2], <<>>, z, G)
      BY <2>2, <3>4, PartialBegins
    <3> QED BY <2>1, <3>1, <3>2, <3>3, <3>4, <3>5 DEF SwitchSafe
  <2> QED BY <2>2, <2>3, <2>4 DEF x, f, w, bs
<1>4. CASE ~jb.repairing /\ Len(bs) = 2
  <2>1. PICK y \in Disks : Partial(d, b, w, jb.done, y, G) /\ Finished(y, b, bs[2], G, B)
    BY <1>1, <1>4 DEF SwitchSafe, bs, w, b
  <2>2. /\ x \in Disks /\ Len(w) \in Nat \ {0} /\ (Len(w) = 1 => x = y)
        /\ Len(w) > 1 => Partial(x, b, Tail(w), Append(jb.done, f), y, G)
    BY <1>1, <2>1, PartialGoes DEF x, f
  <2>3. ASSUME Len(w) > 1, Advances(jb, j)
        PROVE  SwitchSafe(j, x, G, B)
    <3>1. /\ j.before = b /\ j.done = Append(jb.done, f) /\ ~j.repairing /\ j.failing = FALSE
          /\ j.batches = cs
      BY <1>4, <2>3 DEF Advances, b, f, w, bs, cs
    <3>2. Len(j.batches) = 2 /\ j.batches[1] = Tail(w) /\ j.batches[2] = bs[2]
      BY <1>2, <1>4, <3>1
    <3> QED BY <1>1, <2>1, <2>2, <2>3, <3>1, <3>2 DEF SwitchSafe
  <2>4. ASSUME ~(Len(w) > 1), Turns(jb, x, j)
        PROVE  SwitchSafe(j, x, G, B)
    <3>1. x = y
      <4>1. Len(w) = 1
        BY <2>2, <2>4, LastOne
      <4> QED BY <2>2, <4>1
    <3>2. /\ j.before = b /\ j.done = <<>> /\ j.repairing = FALSE /\ j.failing = FALSE
          /\ j.batches = Tail(bs)
      BY <1>4, <2>4 DEF Turns, bs, b
    <3>3. Len(j.batches) = 1 /\ j.batches[1] = bs[2]
      BY <1>2, <1>4, <3>2
    <3> QED BY <1>1, <2>1, <3>1, <3>2, <3>3 DEF SwitchSafe
  <2> QED BY <2>2, <2>3, <2>4 DEF x, f, w, bs
<1>5. CASE ~jb.repairing /\ Len(bs) = 1
  <2>1. PICK y \in B : Leads(d, w, y, G) /\ Len(w) = 1
    BY <1>1, <1>5 DEF SwitchSafe, Finished, bs, w
  <2>2. x \in Disks /\ x = y
    BY <2>1, LeadsOne DEF x, f
  <2>4. ASSUME Turns(jb, x, j)
        PROVE  SwitchSafe(j, x, G, B)
    <3>1. /\ j.before = b /\ j.done = <<>> /\ j.failing = FALSE /\ j.batches = Tail(bs)
      BY <1>5, <2>4 DEF Turns, bs, b
    <3>2. j.batches = <<>>
      BY <1>2, <1>5, <3>1
    <3> QED BY <1>1, <2>1, <2>2, <3>1, <3>2 DEF SwitchSafe
  <2> QED BY <2>1, <2>2, <2>4 DEF x, f, w, bs
<1> QED BY <1>1, <1>3, <1>4, <1>5 DEF SwitchSafe, bs

(* A failed write: of the journals it repairs, or of its own.                *)
LEMMA SwitchFails ==
  ASSUME NEW d \in Disks, NEW G, NEW B, B \subseteq G, NEW jb \in Jobs, SwitchSafe(jb, d, G, B),
         ~jb.failing, jb.batches # <<>>, NEW j, Fails(jb, j), jb.name = "subagents"
  PROVE  SwitchSafe(j, d, G, B)
<1> DEFINE u == Reverse(jb.done)
           b == jb.before
<1>1. /\ u \in Seq(Files) /\ Five \in Seq(Files) /\ b \in Disks /\ b \in B
      /\ \A v \in Seq(Files) : v \o <<>> = v /\ <<>> \o v = v
  BY JobParts DEF Reverse, Five, Files, SwitchSafe
<1>2. j.before = b /\ j.failing = TRUE /\ j.undo = u \o (IF ~jb.repairing THEN Five ELSE <<>>)
  BY DEF Fails
<1> HIDE DEF u, b
<1>3. CASE jb.repairing
  <2>1. Returns(d, b, u, G)
    BY <1>3 DEF SwitchSafe, Partial, u, b
  <2>2. j.undo = u
    BY <1>1, <1>2, <1>3
  <2> QED BY <1>1, <1>2, <2>1, <2>2 DEF SwitchSafe
<1>4. CASE ~jb.repairing
  <2>1. j.undo = u \o Five
    BY <1>2, <1>4
  <2>2. Returns(d, b, u, G) \/ (u = <<>> /\ Returns(d, b, Five, G))
    <3>1. jb.done = <<>> => u = <<>>
      BY ReverseNothing DEF u
    <3> QED BY <1>4, <3>1 DEF SwitchSafe, Partial, Finished, u, b
  <2>3. Returns(d, b, u \o Five, G)
    <3>1. CASE Returns(d, b, u, G)
      BY <1>1, <3>1, ReturnsTwice
    <3>2. CASE u = <<>> /\ Returns(d, b, Five, G)
      BY <1>1, <3>2
    <3> QED BY <2>2, <3>1, <3>2
  <2> QED BY <1>1, <1>2, <2>1, <2>3 DEF SwitchSafe
<1> QED BY <1>3, <1>4

(* One file undone.                                                          *)
LEMMA SwitchUndoes ==
  ASSUME NEW d \in Disks, NEW G, NEW B, NEW jb \in Jobs, SwitchSafe(jb, d, G, B),
         jb.failing, jb.undo # <<>>, NEW j, Undoes(jb, j)
  PROVE  LET x == [d EXCEPT ![Head(jb.undo)] = jb.before[Head(jb.undo)]]
         IN  SwitchSafe(j, x, G, B)
<1> DEFINE x == [d EXCEPT ![Head(jb.undo)] = jb.before[Head(jb.undo)]]
<1>1. j.before = jb.before /\ j.undo = Tail(jb.undo) /\ j.failing = jb.failing
  BY DEF Undoes
<1>2. Returns(d, jb.before, jb.undo, G) /\ jb.before \in B
  BY DEF SwitchSafe
<1>3. Returns(x, jb.before, Tail(jb.undo), G)
  BY <1>2, JobParts, ReturnsOne
<1> HIDE DEF x
<1>4. SwitchSafe(j, x, G, B)
  BY <1>1, <1>2, <1>3 DEF SwitchSafe
<1> QED BY <1>4 DEF x

(* It ends where it began, or on what it wrote.                              *)
LEMMA SwitchEnds ==
  ASSUME NEW d \in Disks, NEW G, NEW B, NEW jb \in Jobs, SwitchSafe(jb, d, G, B),
         IF jb.failing THEN jb.undo = <<>> ELSE jb.batches = <<>>
  PROVE  d \in B /\ (jb.failing => d = jb.before)
<1>1. CASE jb.failing
  BY <1>1, ReturnsNothing DEF SwitchSafe
<1>2. CASE ~jb.failing
  <2>1. jb.batches = <<>> /\ Len(<<>>) = 0
    BY <1>2
  <2> QED BY <1>2, <2>1 DEF SwitchSafe
<1> QED BY <1>1, <1>2

(* A command of either kind, of whose intermediate disks T may be a few more. *)
JobFits(jb, d, G, T, B) ==
  IF jb.name = "subagents" THEN SwitchSafe(jb, d, G \cup T, B) ELSE JobSafe(jb, d, G, B)

(* One write of either.                                                      *)
LEMMA FitsWrites ==
  ASSUME NEW d \in Disks, NEW G, NEW T, NEW B, NEW jb \in Jobs, JobFits(jb, d, G, T, B),
         ~jb.failing, jb.batches # <<>>, B \subseteq G, B \subseteq Disks, NEW j
  PROVE  LET w == jb.batches[1]
             x == [d EXCEPT ![w[1][1]] = w[1][2]]
         IN  /\ Len(w) > 1 /\ Advances(jb, j) => JobFits(j, x, G, T, B)
             /\ ~(Len(w) > 1) /\ Turns(jb, x, j) => JobFits(j, x, G, T, B)
<1> DEFINE w == jb.batches[1]
           x == [d EXCEPT ![w[1][1]] = w[1][2]]
           H == G \cup T
<1>1. B \subseteq H
  OBVIOUS
<1>2. Advances(jb, j) \/ Turns(jb, x, j) => j.name = jb.name
  BY DEF Advances, Turns
<1>3. CASE jb.name = "subagents"
  <2>1. SwitchSafe(jb, d, H, B)
    BY <1>3 DEF JobFits
  <2> HIDE DEF H
  <2>2. /\ Len(w) > 1 /\ Advances(jb, j) => SwitchSafe(j, x, H, B)
        /\ ~(Len(w) > 1) /\ Turns(jb, x, j) => SwitchSafe(j, x, H, B)
    BY <1>1, <1>3, <2>1, SwitchWrites
  <2> QED BY <1>2, <1>3, <2>2 DEF JobFits, H
<1>4. CASE jb.name # "subagents"
  <2>1. JobSafe(jb, d, G, B)
    BY <1>4 DEF JobFits
  <2>2. /\ Len(w) > 1 /\ Advances(jb, j) => JobSafe(j, x, G, B)
        /\ ~(Len(w) > 1) /\ Turns(jb, x, j) => JobSafe(j, x, G, B)
    BY <1>4, <2>1, JobWrites
  <2> QED BY <1>2, <1>4, <2>2 DEF JobFits
<1> QED BY <1>3, <1>4

(* A failed write of either.                                                 *)
LEMMA FitsFails ==
  ASSUME NEW d \in Disks, NEW G, NEW T, NEW B, B \subseteq G, NEW jb \in Jobs, JobFits(jb, d, G, T, B),
         ~jb.failing, jb.batches # <<>>, NEW j, Fails(jb, j)
  PROVE  JobFits(j, d, G, T, B)
<1>1. j.name = jb.name
  BY DEF Fails
<1>2. CASE jb.name = "subagents"
  BY <1>1, <1>2, SwitchFails DEF JobFits
<1>3. CASE jb.name # "subagents"
  BY <1>1, <1>3, JobFails DEF JobFits
<1> QED BY <1>2, <1>3

(* A file that either undoes.                                                *)
LEMMA FitsUndoes ==
  ASSUME NEW d \in Disks, NEW G, NEW T, NEW B, NEW jb \in Jobs, JobFits(jb, d, G, T, B),
         jb.failing, jb.undo # <<>>, NEW j, Undoes(jb, j)
  PROVE  LET x == [d EXCEPT ![Head(jb.undo)] = jb.before[Head(jb.undo)]]
         IN  JobFits(j, x, G, T, B)
<1>1. j.name = jb.name
  BY DEF Undoes
<1>2. CASE jb.name = "subagents"
  BY <1>1, <1>2, SwitchUndoes DEF JobFits
<1>3. CASE jb.name # "subagents"
  BY <1>1, <1>3, JobUndoes DEF JobFits
<1> QED BY <1>2, <1>3

(* More disks do neither harm.                                               *)
LEMMA FitsWider ==
  ASSUME NEW d, NEW G, NEW T, NEW B, NEW H, NEW C, G \subseteq H, B \subseteq C, NEW jb,
         JobFits(jb, d, G, T, B)
  PROVE  JobFits(jb, d, H, T, C)
<1>1. G \cup T \subseteq H \cup T
  OBVIOUS
<1> QED BY <1>1, JobWider, SwitchWider DEF JobFits

(* Either is on a disk of G, or on one of T.                                 *)
LEMMA FitsOn ==
  ASSUME NEW d \in Disks, NEW G, NEW T, NEW B, B \subseteq G, NEW jb \in Jobs, JobFits(jb, d, G, T, B)
  PROVE  d \in G \/ (jb.name = "subagents" /\ d \in T)
<1>1. CASE jb.name = "subagents"
  <2>1. d \in G \cup T
    BY <1>1, SwitchOn DEF JobFits
  <2> QED BY <1>1, <2>1
<1>2. CASE jb.name # "subagents"
  BY <1>2, JobOn DEF JobFits
<1> QED BY <1>1, <1>2

(* Either ends well.                                                         *)
LEMMA FitsEnd ==
  ASSUME NEW d \in Disks, NEW G, NEW T, NEW B, NEW jb \in Jobs, JobFits(jb, d, G, T, B),
         IF jb.failing THEN jb.undo = <<>> ELSE jb.batches = <<>>
  PROVE  d \in B /\ (jb.failing => d = jb.before)
<1>1. CASE jb.name = "subagents"
  BY <1>1, SwitchEnds DEF JobFits
<1>2. CASE jb.name # "subagents"
  BY <1>2, JobEnds DEF JobFits
<1> QED BY <1>1, <1>2

-----------------------------------------------------------------------------
(* The files of a disk, and the setup they belong to.                        *)

(* The files of a disk fit together.                                         *)
Safe(d, o, a, m) ==
  /\ Fit(d["primary"], d["recovery"], TextOf(d["config"]), o, a, m)
  /\ d["app"] = None => d["primary"] = None /\ d["recovery"] = None

(* They agree, as they do while nothing died: e is the count of edits.       *)
Agree(d, e) ==
  /\ d["primary"] = d["recovery"]
  /\ d["primary"] # None => d["app"] # None /\ d["app"].protocol = d["primary"].protocol
  /\ e = 0 => d["cache"] \in {None, RouteOf(TextOf(d["config"]))}

(* The disk k, but for a repair of its copies.                               *)
Held(d, k) ==
  LET j == Chosen(k["primary"], k["recovery"], k["config"])
  IN  /\ d["app"] = k["app"] /\ d["config"] = k["config"]
      /\ \/ d["primary"] = k["primary"] /\ d["recovery"] = k["recovery"]
         \/ d["primary"] = j /\ d["recovery"] = j

(* What a setup t may have made of its checkpoint.                           *)
Bound(d, t, o, a, m) ==
  t # None /\ t.name = "setup" =>
    LET k == t.checkpoint
    IN  /\ t.at \in {"preflight", "stop"} => Held(d, k)
        /\ t.at \in {"command", "start", "commit", "rollback"} =>
             /\ Since(d["primary"], d["recovery"], k["primary"], k["recovery"], k["config"], o, a, m)
             /\ d["app"] = None => k["app"] = None

(* The disks a command may pass through, and those it may end on.            *)
Safes(t, o, a, m) == {d \in Disks : Safe(d, o, a, m) /\ Bound(d, t, o, a, m)}
Settled(t, o, a, m, e) == {d \in Safes(t, o, a, m) : ~m => Agree(d, e)}

(* No setup is under way.                                                    *)
Free(t) == ~(t # None /\ t.name = "setup")

(* What is known of the user's lines.                                        *)
Users(o, a, m) ==
  /\ NoneApart /\ None \notin AppConfig /\ None \notin {"bridge", "own"}
  /\ o \in UserLines /\ a \in BOOLEAN /\ m \in BOOLEAN /\ (o.realtime = Ours => a)

(* A disk with both copies repaired.                                         *)
Mended(d) ==
  LET j == Chosen(d["primary"], d["recovery"], d["config"])
  IN  [d EXCEPT !["recovery"] = j, !["primary"] = j]

(* The operators of the component are those above, at its own disk.          *)
LEMMA Reading ==
  /\ Unreadable <=> Lost(disk["primary"], disk["recovery"], disk["config"])
  /\ ReadJournal = Chosen(disk["primary"], disk["recovery"], disk["config"])
  /\ Text = TextOf(disk["config"])
  /\ Baseline = BaselineOf(disk["primary"], disk["recovery"], disk["config"])
<1>1. \A j : JournalMatchesConfig(j) = Matches(disk["config"], j)
  BY DEF JournalMatchesConfig, Matches
<1>2. Unreadable <=> Lost(disk["primary"], disk["recovery"], disk["config"])
  BY <1>1 DEF Unreadable, Lost
<1>3. ReadJournal = Chosen(disk["primary"], disk["recovery"], disk["config"])
  BY <1>1 DEF ReadJournal, Chosen
<1>4. Text = TextOf(disk["config"])
  BY DEF Text, TextOf
<1>5. Baseline = BaselineOf(disk["primary"], disk["recovery"], disk["config"])
  BY <1>3, <1>4 DEF Baseline, BaselineOf
<1> QED BY <1>2, <1>3, <1>4, <1>5

(* The copy that is chosen.                                                  *)
LEMMA ChosenOne ==
  ASSUME NEW p, NEW r, NEW cf
  PROVE  Chosen(p, r, cf) \in {p, r} /\ (Chosen(p, r, cf) = None /\ ~Lost(p, r, cf) => p = None /\ r = None)
BY DEF Chosen, Lost

(* What a journal gives back is a text.                                      *)
LEMMA RestoredTyped ==
  ASSUME NEW c \in Lines, NEW j \in Journal
  PROVE  RestoreManagedRoute(c, j) \in Lines /\ ReplacementBaseline(c, j) \in Lines
<1>1. RestoreManagedRoute(c, j) \in Lines
  BY LineParts, JournalParts DEF RestoreManagedRoute, Blank, Lines
<1>2. ReplacementBaseline(c, j) \in Lines
  BY LineParts, JournalParts DEF ReplacementBaseline, Lines
<1> QED BY <1>1, <1>2

(* So is what an installation starts from.                                   *)
LEMMA BaselineTyped ==
  ASSUME NEW p \in Journal \cup {None}, NEW r \in Journal \cup {None}, NEW cf \in Lines \cup {None}
  PROVE  Chosen(p, r, cf) \in Journal \cup {None} /\ BaselineOf(p, r, cf) \in Lines
<1>1. Chosen(p, r, cf) \in Journal \cup {None} /\ TextOf(cf) \in Lines
  BY ChosenOne, TextTyped
<1>2. CASE Chosen(p, r, cf) = None
  BY <1>1, <1>2 DEF BaselineOf
<1>3. CASE Chosen(p, r, cf) # None
  <2>1. Chosen(p, r, cf) \in Journal
    BY <1>1, <1>3
  <2> QED BY <1>1, <1>3, <2>1, RestoredTyped, BlankTyped DEF BaselineOf
<1> QED BY <1>1, <1>2, <1>3

(* What an installation writes.                                              *)
LEMMA InstallTyped ==
  ASSUME NEW c \in Lines, NEW p \in Protocols
  PROVE  /\ Routed(c, p) \in Lines /\ JournalFor(c, p) \in Journal
         /\ JournalFor(c, p).active /\ JournalFor(c, p).protocol = p
<1>1. Routed(c, p) \in Lines
  BY LineParts DEF Routed, Lines
<1>2. JournalFor(c, p) \in Journal
  BY LineParts DEF JournalFor, Journal, Blank, Lines
<1> QED BY <1>1, <1>2 DEF JournalFor

(* Four writes are a batch.                                                  *)
LEMMA WritesTyped ==
  ASSUME NEW j \in Journal, NEW c \in Lines
  PROVE  Writes(j, c) \in Batches
<1>1. <<"recovery", j>> \in Orders /\ <<"config", c>> \in Orders /\ <<"primary", j>> \in Orders
      /\ <<"cache", None>> \in Orders
  BY OrderTyped, HoldsParts DEF Files
<1> QED BY <1>1 DEF Writes, Batches

(* Some writes are one batch, or none.                                       *)
LEMMA BatchTyped ==
  ASSUME NEW w \in Seq(Orders)
  PROVE  Batch(w) \in Seq(Batches)
<1>1. w # <<>> => w \in Batches
  BY DEF Batches
<1>2. w # <<>> => <<w>> \in Seq(Batches)
  BY <1>1
<1>3. CASE w = <<>>
  BY <1>3 DEF Batch
<1>4. CASE w # <<>>
  BY <1>2, <1>4 DEF Batch
<1> QED BY <1>3, <1>4

(* The repair every command begins with.                                     *)
LEMMA RepairTyped ==
  ASSUME disk \in Disks
  PROVE  RepairBatch \in Seq(Orders) /\ Batch(RepairBatch) \in Seq(Batches)
<1>1. ReadJournal \in Journal \cup {None}
  BY Reading, BaselineTyped, DiskParts
<1>2. <<"recovery", ReadJournal>> \in Orders /\ <<"primary", ReadJournal>> \in Orders
  BY <1>1, OrderTyped, HoldsParts DEF Files
<1>3. Repair("recovery") \in Seq(Orders) /\ Repair("primary") \in Seq(Orders)
  BY <1>2 DEF Repair
<1>4. RepairBatch \in Seq(Orders)
  BY <1>3 DEF RepairBatch
<1> QED BY <1>4, BatchTyped

(* A repaired disk, file by file.                                            *)
LEMMA MendedParts ==
  ASSUME NEW d \in Disks
  PROVE  LET j == Chosen(d["primary"], d["recovery"], d["config"])
         IN  /\ Mended(d) \in Disks
             /\ Mended(d)["recovery"] = j /\ Mended(d)["primary"] = j
             /\ Mended(d)["config"] = d["config"] /\ Mended(d)["app"] = d["app"]
             /\ Mended(d)["cache"] = d["cache"]
             /\ d["primary"] = d["recovery"] => Mended(d) = d
<1> DEFINE j == Chosen(d["primary"], d["recovery"], d["config"])
<1>1. j \in Journal \cup {None}
  BY BaselineTyped, DiskParts
<1> HIDE DEF j
<1>2. [d EXCEPT !["recovery"] = j] \in Disks
  BY <1>1, PutTyped, HoldsParts DEF Files
<1>3. [[d EXCEPT !["recovery"] = j] EXCEPT !["primary"] = j] \in Disks
  BY <1>1, <1>2, PutTyped, HoldsParts DEF Files
<1>4. /\ Mended(d)["recovery"] = j /\ Mended(d)["primary"] = j
      /\ Mended(d)["config"] = d["config"] /\ Mended(d)["app"] = d["app"]
      /\ Mended(d)["cache"] = d["cache"]
  BY DiskFunction DEF Mended, Files, j
<1>5. d["primary"] = d["recovery"] => j = d["recovery"]
  BY DEF Chosen, j
<1>6. d["primary"] = d["recovery"] => Mended(d) = d
  BY <1>5, DiskFunction DEF Mended, Files, j
<1> QED BY <1>3, <1>4, <1>6 DEF Mended, j

(* A repair leaves the files fitting.                                        *)
LEMMA MendedSafe ==
  ASSUME NEW d \in Disks, NEW o, NEW a, NEW m, Users(o, a, m), Safe(d, o, a, m),
         ~Lost(d["primary"], d["recovery"], d["config"]), d["primary"] # d["recovery"] => m
  PROVE  Safe(Mended(d), o, a, m)
<1>1. Stand(d["primary"], d["recovery"], d["config"], o, a, m)
  BY DiskParts DEF Safe, Users, Stand, CopyTypes
<1>2. Fit(Mended(d)["primary"], Mended(d)["recovery"], TextOf(Mended(d)["config"]), o, a, m)
  BY <1>1, FitRepaired, MendedParts
<1>3. d["app"] = None => Mended(d)["primary"] = None
  BY MendedParts, ChosenOne DEF Safe
<1> QED BY <1>2, <1>3, MendedParts DEF Safe

(* The repair is no batch, or one that leads to the repaired disk.           *)
LEMMA MendedLeads ==
  ASSUME disk \in Disks, NEW G, disk \in G, Mended(disk) \in G
  PROVE  \/ RepairBatch = <<>> /\ Batch(RepairBatch) = <<>> /\ Mended(disk) = disk
         \/ /\ RepairBatch # <<>> /\ Batch(RepairBatch) = <<RepairBatch>>
            /\ Leads(disk, RepairBatch, Mended(disk), G)
<1> DEFINE p == disk["primary"]
           r == disk["recovery"]
           j == ReadJournal
<1>1. j \in {p, r} /\ j \in Journal \cup {None}
  BY Reading, ChosenOne, BaselineTyped, DiskParts
<1>2. CASE p = r
  <2>1. Mended(disk) = disk /\ RepairBatch = <<>>
    BY <1>1, <1>2, MendedParts DEF RepairBatch, Repair
  <2> QED BY <2>1 DEF Batch
<1>3. ASSUME NEW f \in {"recovery", "primary"}, NEW g \in {"recovery", "primary"}, g # f,
             disk[f] # j, disk[g] = j
      PROVE  /\ RepairBatch # <<>> /\ Batch(RepairBatch) = <<RepairBatch>>
             /\ Leads(disk, RepairBatch, Mended(disk), G)
  <2>1. RepairBatch = << <<f, j>> >>
    <3>1. Repair(f) = << <<f, j>> >> /\ Repair(g) = <<>>
      BY <1>3 DEF Repair
    <3>2. \A s : s = << <<f, j>> >> => s \o <<>> = s /\ <<>> \o s = s
      OBVIOUS
    <3>3. \/ f = "recovery" /\ g = "primary"
          \/ f = "primary" /\ g = "recovery"
      BY <1>3
    <3>4. CASE f = "recovery" /\ g = "primary"
      BY <3>1, <3>2, <3>4 DEF RepairBatch
    <3>5. CASE f = "primary" /\ g = "recovery"
      BY <3>1, <3>2, <3>5 DEF RepairBatch
    <3> QED BY <3>3, <3>4, <3>5
  <2>2. Mended(disk) = [disk EXCEPT ![f] = j]
    <3>1. Mended(disk) = [disk EXCEPT !["recovery"] = j, !["primary"] = j]
      BY Reading DEF Mended
    <3>2. disk \in [Files -> Contents]
      BY DiskFunction
    <3> QED BY <3>1, <3>2, <1>3 DEF Files
  <2>3. f \in Files /\ j \in Holds(f)
    BY <1>1, HoldsParts DEF Files
  <2>4. Leads(disk, << <<f, j>> >>, Mended(disk), G)
    BY <2>2, <2>3, LeadsLast
  <2>5. << <<f, j>> >> # <<>>
    OBVIOUS
  <2> HIDE DEF j
  <2>6. RepairBatch # <<>>
    BY <2>1, <2>5
  <2>7. Batch(RepairBatch) = <<RepairBatch>>
    BY <2>6 DEF Batch
  <2> QED BY <2>1, <2>4, <2>6, <2>7
<1>4. CASE p # r
  BY <1>1, <1>3, <1>4
<1> QED BY <1>2, <1>4

(* A command repairs the copies before it writes anything else.              *)
LEMMA PathsMended ==
  ASSUME disk \in Disks, NEW G, NEW B, disk \in G, disk \in B,
         Mended(disk) \in G, Mended(disk) \in B,
         NEW bs \in Seq(Batches), Paths(bs, Mended(disk), G, B)
  PROVE  Paths(Batch(RepairBatch) \o bs, disk, G, B)
<1>1. CASE RepairBatch = <<>> /\ Batch(RepairBatch) = <<>> /\ Mended(disk) = disk
  <2>1. <<>> \o bs = bs
    OBVIOUS
  <2> QED BY <1>1, <2>1, Zenon
<1>2. CASE /\ RepairBatch # <<>> /\ Batch(RepairBatch) = <<RepairBatch>>
           /\ Leads(disk, RepairBatch, Mended(disk), G)
  <2> DEFINE w == RepairBatch
             cs == <<w>> \o bs
  <2>1. Len(cs) \in Nat \ {0} /\ cs[1] = w /\ Len(bs) = Len(cs) - 1
        /\ \A i \in 1..Len(bs) : bs[i] = cs[i + 1]
    OBVIOUS
  <2>2. Leads(disk, w, Mended(disk), G) /\ Batch(RepairBatch) = <<w>>
    BY <1>2
  <2> HIDE DEF w
  <2>3. Paths(cs, disk, G, B)
    <3> HIDE DEF cs
    <3> QED BY <2>1, <2>2, PathsMore
  <2> QED BY <2>2, <2>3
<1> QED BY <1>1, <1>2, MendedLeads

(* So does a change of the protocol.                                         *)
LEMMA SwitchMended ==
  ASSUME disk \in Disks, NEW G, NEW B, disk \in B, Mended(disk) \in B, B \subseteq G,
         NEW w \in Batches, NEW v \in Batches, Planned(Mended(disk), w, v, G, B),
         NEW jb, jb.before = disk, jb.batches = Batch(RepairBatch) \o <<w, v>>, jb.done = <<>>,
         ~jb.failing, jb.repairing = (RepairBatch # <<>>)
  PROVE  SwitchSafe(jb, disk, G, B)
<1>1. PICK y \in Disks : Leads(Mended(disk), w, y, G) /\ Finished(y, Mended(disk), v, G, B)
  BY DEF Planned
<1>2. CASE RepairBatch = <<>> /\ Batch(RepairBatch) = <<>> /\ Mended(disk) = disk
  <2>0. <<>> \o <<w, v>> = <<w, v>>
    OBVIOUS
  <2>3. jb.batches = <<w, v>>
    BY <1>2, <2>0, Zenon
  <2>1. jb.batches = <<w, v>> /\ Len(<<w, v>>) = 2 /\ <<w, v>>[1] = w /\ <<w, v>>[2] = v
    BY <2>3
  <2>2. Partial(disk, disk, w, <<>>, y, G)
    BY <1>1, <1>2, PartialBegins
  <2> QED BY <1>1, <1>2, <2>1, <2>2 DEF SwitchSafe
<1>3. CASE /\ RepairBatch # <<>> /\ Batch(RepairBatch) = <<RepairBatch>>
           /\ Leads(disk, RepairBatch, Mended(disk), G)
  <2> DEFINE r == RepairBatch
             bs == jb.batches
             cs == <<r>> \o <<w, v>>
  <2>1. r \in Batches
    BY <1>3 DEF Leads, Batches
  <2>2. bs = cs
    BY <1>3, Zenon
  <2>b. <<r>> \in Seq(Batches) /\ <<w, v>> \in Seq(Batches)
    BY <2>1
  <2>c. Len(cs) = 3 /\ cs[1] = r /\ cs[2] = w /\ cs[3] = v
    BY <2>b, ConcatProperties
  <2>3. Len(bs) = 3 /\ bs[1] = RepairBatch /\ bs[2] = w /\ bs[3] = v
    <3> HIDE DEF cs
    <3> QED BY <2>2, <2>c
  <2>4. Partial(disk, disk, RepairBatch, <<>>, Mended(disk), G)
    BY <1>3, PartialBegins
  <2> QED BY <1>3, <2>3, <2>4 DEF SwitchSafe
<1> QED BY <1>2, <1>3, MendedLeads

(* A write before 1 more.                                                    *)
LEMMA LeadsTwo ==
  ASSUME NEW x \in Disks, NEW G, x \in G, NEW y, NEW a \in Orders, NEW b \in Orders,
         b[1] # a[1],
         Leads([x EXCEPT ![a[1]] = a[2]], <<b>>, y, G)
  PROVE  Leads(x, <<a, b>>, y, G)
<1> DEFINE w == <<a, b>>
<1>1. /\ w \in Seq(Orders) /\ w # <<>> /\ Len(w) = 2 /\ Tail(w) = <<b>>
      /\ w[1] = a /\ w[2] = b
  OBVIOUS
<1>2. a = <<a[1], a[2]>>
  BY OrderParts
<1> HIDE DEF w
<1>3. \A i \in 2..Len(w) : i = 2
  BY <1>1
<1>4. \A i \in 2..Len(w) : w[i][1] # a[1]
  BY <1>1, <1>3
<1>5. Leads([x EXCEPT ![a[1]] = a[2]], Tail(w), y, G) /\ w[1] = <<a[1], a[2]>>
  BY <1>1, <1>2
<1>6. Leads(x, w, y, G)
  BY <1>1, <1>4, <1>5, LeadsMore
<1> QED BY <1>6 DEF w

(* A write before 2 more.                                                    *)
LEMMA LeadsThree ==
  ASSUME NEW x \in Disks, NEW G, x \in G, NEW y, NEW a \in Orders, NEW b \in Orders, NEW c \in Orders,
         b[1] # a[1], c[1] # a[1],
         Leads([x EXCEPT ![a[1]] = a[2]], <<b, c>>, y, G)
  PROVE  Leads(x, <<a, b, c>>, y, G)
<1> DEFINE w == <<a, b, c>>
<1>1. /\ w \in Seq(Orders) /\ w # <<>> /\ Len(w) = 3 /\ Tail(w) = <<b, c>>
      /\ w[1] = a /\ w[2] = b /\ w[3] = c
  OBVIOUS
<1>2. a = <<a[1], a[2]>>
  BY OrderParts
<1> HIDE DEF w
<1>3. \A i \in 2..Len(w) : i = 2 \/ i = 3
  BY <1>1
<1>4. \A i \in 2..Len(w) : w[i][1] # a[1]
  BY <1>1, <1>3
<1>5. Leads([x EXCEPT ![a[1]] = a[2]], Tail(w), y, G) /\ w[1] = <<a[1], a[2]>>
  BY <1>1, <1>2
<1>6. Leads(x, w, y, G)
  BY <1>1, <1>4, <1>5, LeadsMore
<1> QED BY <1>6 DEF w

(* A write before 3 more.                                                    *)
LEMMA LeadsFour ==
  ASSUME NEW x \in Disks, NEW G, x \in G, NEW y, NEW a \in Orders, NEW b \in Orders, NEW c \in Orders, NEW d \in Orders,
         b[1] # a[1], c[1] # a[1], d[1] # a[1],
         Leads([x EXCEPT ![a[1]] = a[2]], <<b, c, d>>, y, G)
  PROVE  Leads(x, <<a, b, c, d>>, y, G)
<1> DEFINE w == <<a, b, c, d>>
<1>1. /\ w \in Seq(Orders) /\ w # <<>> /\ Len(w) = 4 /\ Tail(w) = <<b, c, d>>
      /\ w[1] = a /\ w[2] = b /\ w[3] = c /\ w[4] = d
  OBVIOUS
<1>2. a = <<a[1], a[2]>>
  BY OrderParts
<1> HIDE DEF w
<1>3. \A i \in 2..Len(w) : i = 2 \/ i = 3 \/ i = 4
  BY <1>1
<1>4. \A i \in 2..Len(w) : w[i][1] # a[1]
  BY <1>1, <1>3
<1>5. Leads([x EXCEPT ![a[1]] = a[2]], Tail(w), y, G) /\ w[1] = <<a[1], a[2]>>
  BY <1>1, <1>2
<1>6. Leads(x, w, y, G)
  BY <1>1, <1>4, <1>5, LeadsMore
<1> QED BY <1>6 DEF w

(* The writes of an installation or a disconnection.                         *)
LEMMA LeadsWrites ==
  ASSUME NEW x \in Disks, NEW G, x \in G, NEW n \in Journal, NEW t \in Lines,
         NEW x1, x1 = [x EXCEPT !["recovery"] = n], x1 \in G,
         NEW x2, x2 = [x1 EXCEPT !["config"] = t], x2 \in G,
         NEW x3, x3 = [x2 EXCEPT !["primary"] = n], x3 \in G,
         NEW x4, x4 = [x3 EXCEPT !["cache"] = None], x4 \in G
  PROVE  Leads(x, Writes(n, t), x4, G)
<1> DEFINE a == <<"recovery", n>>
           b == <<"config", t>>
           c == <<"primary", n>>
           d == <<"cache", None>>
<1>1. a \in Orders /\ b \in Orders /\ c \in Orders /\ d \in Orders
  BY OrderTyped, HoldsParts DEF Files
<1>2. /\ a[1] = "recovery" /\ a[2] = n /\ b[1] = "config" /\ b[2] = t
      /\ c[1] = "primary" /\ c[2] = n /\ d[1] = "cache" /\ d[2] = None
      /\ d = <<d[1], d[2]>>
  OBVIOUS
<1>3. x1 \in Disks /\ x2 \in Disks /\ x3 \in Disks
  BY PutTyped, HoldsParts DEF Files
<1>4. d[1] \in Files /\ d[2] \in Holds(d[1])
  BY <1>1, OrderParts
<1> HIDE DEF a, b, c, d
<1>5. Leads(x3, <<d>>, x4, G)
  BY <1>2, <1>3, <1>4, LeadsLast
<1>6. Leads(x2, <<c, d>>, x4, G)
  BY <1>1, <1>2, <1>3, <1>5, LeadsTwo
<1>7. Leads(x1, <<b, c, d>>, x4, G)
  BY <1>1, <1>2, <1>3, <1>6, LeadsThree
<1>8. Leads(x, <<a, b, c, d>>, x4, G)
  BY <1>1, <1>2, <1>7, LeadsFour
<1> QED BY <1>8 DEF Writes, a, b, c, d

(* The writes of a removal.                                                  *)
LEMMA LeadsRemoval ==
  ASSUME NEW x \in Disks, NEW G, x \in G, NEW t \in Lines,
         NEW x1, x1 = [x EXCEPT !["config"] = t], x1 \in G,
         NEW x2, x2 = [x1 EXCEPT !["cache"] = None], x2 \in G,
         NEW x3, x3 = [x2 EXCEPT !["primary"] = None], x3 \in G,
         NEW x4, x4 = [x3 EXCEPT !["recovery"] = None], x4 \in G
  PROVE  Leads(x, << <<"config", t>>, <<"cache", None>>, <<"primary", None>>, <<"recovery", None>> >>, x4, G)
<1> DEFINE a == <<"config", t>>
           b == <<"cache", None>>
           c == <<"primary", None>>
           d == <<"recovery", None>>
<1>1. a \in Orders /\ b \in Orders /\ c \in Orders /\ d \in Orders
  BY OrderTyped, HoldsParts DEF Files
<1>2. /\ a[1] = "config" /\ a[2] = t /\ b[1] = "cache" /\ b[2] = None
      /\ c[1] = "primary" /\ c[2] = None /\ d[1] = "recovery" /\ d[2] = None
      /\ d = <<d[1], d[2]>>
  OBVIOUS
<1>3. x1 \in Disks /\ x2 \in Disks /\ x3 \in Disks
  BY PutTyped, HoldsParts DEF Files
<1>4. d[1] \in Files /\ d[2] \in Holds(d[1])
  BY <1>1, OrderParts
<1> HIDE DEF a, b, c, d
<1>5. Leads(x3, <<d>>, x4, G)
  BY <1>2, <1>3, <1>4, LeadsLast
<1>6. Leads(x2, <<c, d>>, x4, G)
  BY <1>1, <1>2, <1>3, <1>5, LeadsTwo
<1>7. Leads(x1, <<b, c, d>>, x4, G)
  BY <1>1, <1>2, <1>3, <1>6, LeadsThree
<1>8. Leads(x, <<a, b, c, d>>, x4, G)
  BY <1>1, <1>2, <1>7, LeadsFour
<1> QED BY <1>8 DEF a, b, c, d

-----------------------------------------------------------------------------
(* The commands: each of them passes through safe disks.                     *)

(* A single batch.                                                           *)
LEMMA PathsSingle ==
  ASSUME NEW d \in Disks, NEW G, NEW B, NEW w, NEW y \in Disks, Leads(d, w, y, G), y \in B
  PROVE  Paths(<<w>>, d, G, B)
<1> DEFINE bs == <<w>>
<1>1. Len(bs) = 1 /\ bs[1] = w /\ Len(<<>>) = 0
  OBVIOUS
<1> HIDE DEF bs
<1>2. Len(bs) \in Nat \ {0} /\ Len(<<>>) = Len(bs) - 1 /\ \A i \in 1..Len(<<>>) : <<>>[i] = bs[i + 1]
  BY <1>1
<1>3. Leads(d, bs[1], y, G) /\ Paths(<<>>, y, G, B)
  BY <1>1, PathsNone
<1>4. Paths(bs, d, G, B)
  BY <1>2, <1>3, PathsMore
<1> QED BY <1>4 DEF bs

(* Two batches.                                                              *)
LEMMA PathsDouble ==
  ASSUME NEW d \in Disks, NEW G, NEW B, NEW w, NEW y \in Disks, Leads(d, w, y, G), y \in B,
         NEW v, NEW z \in Disks, Leads(y, v, z, G), z \in B
  PROVE  Paths(<<w, v>>, d, G, B)
<1> DEFINE bs == <<w, v>>
           cs == <<v>>
<1>1. Len(bs) = 2 /\ bs[1] = w /\ bs[2] = v /\ Len(cs) = 1 /\ cs[1] = v
  OBVIOUS
<1>2. Paths(cs, y, G, B)
  BY PathsSingle
<1> HIDE DEF bs, cs
<1>3. Len(bs) \in Nat \ {0} /\ Len(cs) = Len(bs) - 1 /\ \A i \in 1..Len(cs) : cs[i] = bs[i + 1]
  BY <1>1
<1>4. Leads(d, bs[1], y, G)
  BY <1>1
<1>5. Paths(bs, d, G, B)
  BY <1>2, <1>3, <1>4, PathsMore
<1> QED BY <1>5 DEF bs

(* A disk whose copies are one.                                              *)
LEMMA AgreedDisk ==
  ASSUME NEW d \in Disks, NEW o, NEW a, NEW m, Users(o, a, m), Safe(d, o, a, m),
         d["primary"] = d["recovery"]
  PROVE  Agreed(d["primary"], TextOf(d["config"]), o, a, m)
<1>1. d["primary"] \in Journal \cup {None} /\ TextOf(d["config"]) \in Lines
  BY DiskParts, TextTyped
<1>2. Fit(d["primary"], d["primary"], TextOf(d["config"]), o, a, m)
  BY DEF Safe
<1> QED BY <1>1, <1>2 DEF Agreed, Users

(* A disk that may be written, and one that a command may end on.            *)
LEMMA SettledIn ==
  ASSUME NEW t, NEW o, NEW a, NEW m, NEW e, NEW d \in Disks, Safe(d, o, a, m), Bound(d, t, o, a, m)
  PROVE  d \in Safes(t, o, a, m) /\ ((~m => Agree(d, e)) => d \in Settled(t, o, a, m, e))
BY DEF Safes, Settled

(* Outside a setup nothing is bound.                                         *)
LEMMA FreeBound ==
  ASSUME NEW t, Free(t), NEW o, NEW a, NEW m, NEW d
  PROVE  Bound(d, t, o, a, m)
BY DEF Bound, Free

(* What is known of a disk that may be written.                              *)
LEMMA SettledParts ==
  ASSUME NEW t, NEW o, NEW a, NEW m, NEW e, Users(o, a, m), NEW d, d \in Settled(t, o, a, m, e)
  PROVE  /\ d \in Disks /\ d \in Safes(t, o, a, m) /\ Safe(d, o, a, m) /\ Bound(d, t, o, a, m)
         /\ ~m => Agree(d, e)
         /\ d["primary"] # d["recovery"] => m
         /\ Stand(d["primary"], d["recovery"], d["config"], o, a, m)
<1>1. /\ d \in Disks /\ d \in Safes(t, o, a, m) /\ Safe(d, o, a, m) /\ Bound(d, t, o, a, m)
      /\ ~m => Agree(d, e)
  BY DEF Settled, Safes
<1>2. d["primary"] # d["recovery"] => m
  BY <1>1 DEF Agree
<1>3. Stand(d["primary"], d["recovery"], d["config"], o, a, m)
  BY <1>1, DiskParts DEF Safe, Users, Stand, CopyTypes
<1> QED BY <1>1, <1>2, <1>3

(* The repaired disk of a command.                                           *)
LEMMA MendedSettled ==
  ASSUME NEW t, NEW o, NEW a, NEW m, NEW e, Users(o, a, m),
         disk \in Settled(t, o, a, m, e), ~Unreadable, Bound(Mended(disk), t, o, a, m)
  PROVE  /\ Mended(disk) \in Disks /\ Safe(Mended(disk), o, a, m) /\ (~m => Agree(Mended(disk), e))
         /\ Mended(disk) \in Safes(t, o, a, m) /\ Mended(disk) \in Settled(t, o, a, m, e)
         /\ Mended(disk)["primary"] = ReadJournal /\ Mended(disk)["recovery"] = ReadJournal
         /\ Mended(disk)["config"] = disk["config"] /\ Mended(disk)["app"] = disk["app"]
         /\ Agreed(ReadJournal, Text, o, a, m)
<1>1. disk \in Disks /\ Safe(disk, o, a, m) /\ (~m => Agree(disk, e)) /\ (disk["primary"] # disk["recovery"] => m)
  BY SettledParts
<1>2. ~Lost(disk["primary"], disk["recovery"], disk["config"])
  BY Reading
<1>3. Mended(disk) \in Disks /\ Safe(Mended(disk), o, a, m)
  BY <1>1, <1>2, MendedParts, MendedSafe
<1>4. ~m => Mended(disk) = disk
  BY <1>1, MendedParts
<1>5. /\ Mended(disk)["primary"] = ReadJournal /\ Mended(disk)["recovery"] = ReadJournal
      /\ Mended(disk)["config"] = disk["config"] /\ Mended(disk)["app"] = disk["app"]
  BY <1>1, MendedParts, Reading
<1>6. Agreed(ReadJournal, Text, o, a, m)
  BY <1>3, <1>5, AgreedDisk, Reading
<1> QED BY <1>1, <1>3, <1>4, <1>5, <1>6, SettledIn

(* What an installation takes for the user's lines.                          *)
LEMMA BaselineTaken ==
  ASSUME NEW t, NEW o, NEW a, NEW m, NEW e, Users(o, a, m), disk \in Settled(t, o, a, m, e), ~Unreadable
  PROVE  Baseline \in Lines /\ Plain(Baseline, o, a /\ m)
<1>1. /\ Stand(disk["primary"], disk["recovery"], disk["config"], o, a, m)
      /\ disk["primary"] # disk["recovery"] => m
  BY SettledParts
<1>2. ~Lost(disk["primary"], disk["recovery"], disk["config"])
  BY Reading
<1> QED BY <1>1, <1>2, FitTaken, Reading

(* The journal of an installation keeps them.                                *)
LEMMA KeeperFor ==
  ASSUME NEW o, NEW a, NEW m, Users(o, a, m), NEW b \in Lines, Plain(b, o, a /\ m), NEW p \in Protocols
  PROVE  /\ Keeper(JournalFor(b, p), o, a, m) /\ JournalFor(b, p).protocol = p
         /\ JournalFor(b, p) \in Journal /\ JournalFor(b, p) # None
<1> DEFINE n == JournalFor(b, p)
<1>0. NoneApart /\ o \in UserLines /\ a \in BOOLEAN /\ m \in BOOLEAN /\ (o.realtime = Ours => a)
  BY DEF Users
<1>1. n \in Journal /\ n.active /\ n.protocol = p
  BY InstallTyped
<1>2. /\ n.previous.base = b.base /\ n.previous.realtime = b.realtime
      /\ n.previous.feature = (IF p = "compatibility-v1" THEN b.feature ELSE None)
  BY DEF JournalFor, Blank
<1>3. b.base = o.base /\ b.feature = o.feature /\ Told(b.realtime, o, a /\ m)
  BY DEF Plain
<1> HIDE DEF n
<1>4. o.base # Ours /\ o.feature # Ours /\ None # Ours /\ None \notin Journal
  BY <1>0, UserParts DEF NoneApart
<1>5. Keeps(n, a)
  BY <1>0, <1>2, <1>3, <1>4 DEF Keeps, Told
<1>6. Keeper(n, o, a, m)
  BY <1>1, <1>2, <1>3, <1>5 DEF Keeper
<1> QED BY <1>1, <1>4, <1>6 DEF n

(* The disks between the writes of an installation: d, and then x1 to x4.    *)
Written(d, n, t, x1, x2, x3, x4) ==
  /\ x1 = [d EXCEPT !["recovery"] = n] /\ x2 = [x1 EXCEPT !["config"] = t]
  /\ x3 = [x2 EXCEPT !["primary"] = n] /\ x4 = [x3 EXCEPT !["cache"] = None]

(* What those disks hold.                                                    *)
LEMMA WrittenParts ==
  ASSUME NEW d \in Disks, NEW n \in Journal, NEW t \in Lines,
         NEW x1, NEW x2, NEW x3, NEW x4, Written(d, n, t, x1, x2, x3, x4)
  PROVE  /\ x1 \in Disks /\ x2 \in Disks /\ x3 \in Disks /\ x4 \in Disks
         /\ x1["primary"] = d["primary"] /\ x1["recovery"] = n /\ x1["config"] = d["config"]
         /\ x2["primary"] = d["primary"] /\ x2["recovery"] = n /\ x2["config"] = t
         /\ x3["primary"] = n /\ x3["recovery"] = n /\ x3["config"] = t
         /\ x4["primary"] = n /\ x4["recovery"] = n /\ x4["config"] = t /\ x4["cache"] = None
         /\ x1["app"] = d["app"] /\ x2["app"] = d["app"] /\ x3["app"] = d["app"] /\ x4["app"] = d["app"]
<1>0. /\ x1 = [d EXCEPT !["recovery"] = n]
      /\ x2 = [x1 EXCEPT !["config"] = t]
      /\ x3 = [x2 EXCEPT !["primary"] = n]
      /\ x4 = [x3 EXCEPT !["cache"] = None]
  BY DEF Written
<1>1. "recovery" \in Files /\ "config" \in Files /\ "primary" \in Files /\ "cache" \in Files /\ "app" \in Files
  BY DEF Files
<1>2. /\ x1 \in Disks
      /\ x1["primary"] = d["primary"] /\ x1["recovery"] = n /\ x1["config"] = d["config"]
      /\ x1["cache"] = d["cache"] /\ x1["app"] = d["app"]
  <2>1. x1 = [d EXCEPT !["recovery"] = n]
    BY <1>0
  <2>2. x1 \in Disks
    BY <1>0, PutTyped, HoldsParts DEF Files
  <2>3. \A f \in Files : x1[f] = IF f = "recovery" THEN n ELSE d[f]
    BY <2>1, DiskFunction
  <2> QED BY <2>2, <2>3, <1>1
<1>3. /\ x2 \in Disks
      /\ x2["primary"] = x1["primary"] /\ x2["recovery"] = x1["recovery"] /\ x2["config"] = t
      /\ x2["cache"] = x1["cache"] /\ x2["app"] = x1["app"]
  <2>1. x2 = [x1 EXCEPT !["config"] = t]
    BY <1>0
  <2>2. x2 \in Disks
    BY <1>0, <1>2, PutTyped, HoldsParts DEF Files
  <2>3. \A f \in Files : x2[f] = IF f = "config" THEN t ELSE x1[f]
    BY <2>1, <1>2, DiskFunction
  <2> QED BY <2>2, <2>3, <1>1
<1>4. /\ x3 \in Disks
      /\ x3["primary"] = n /\ x3["recovery"] = x2["recovery"] /\ x3["config"] = x2["config"]
      /\ x3["cache"] = x2["cache"] /\ x3["app"] = x2["app"]
  <2>1. x3 = [x2 EXCEPT !["primary"] = n]
    BY <1>0
  <2>2. x3 \in Disks
    BY <1>0, <1>3, PutTyped, HoldsParts DEF Files
  <2>3. \A f \in Files : x3[f] = IF f = "primary" THEN n ELSE x2[f]
    BY <2>1, <1>3, DiskFunction
  <2> QED BY <2>2, <2>3, <1>1
<1>5. /\ x4 \in Disks
      /\ x4["primary"] = x3["primary"] /\ x4["recovery"] = x3["recovery"] /\ x4["config"] = x3["config"]
      /\ x4["cache"] = None /\ x4["app"] = x3["app"]
  <2>1. x4 = [x3 EXCEPT !["cache"] = None]
    BY <1>0
  <2>2. x4 \in Disks
    BY <1>0, <1>4, PutTyped, HoldsParts DEF Files
  <2>3. \A f \in Files : x4[f] = IF f = "cache" THEN None ELSE x3[f]
    BY <2>1, <1>4, DiskFunction
  <2> QED BY <2>2, <2>3, <1>1
<1> QED BY <1>2, <1>3, <1>4, <1>5

(* They are safe when the copies and the text fit at each.                   *)
LEMMA WrittenSafe ==
  ASSUME NEW d \in Disks, NEW n \in Journal, NEW t \in Lines, NEW o, NEW a, NEW m,
         NEW x1, NEW x2, NEW x3, NEW x4, Written(d, n, t, x1, x2, x3, x4),
         d["app"] # None,
         Fit(d["primary"], n, TextOf(d["config"]), o, a, m), Fit(d["primary"], n, TextOf(t), o, a, m),
         Fit(n, n, TextOf(t), o, a, m)
  PROVE  Safe(x1, o, a, m) /\ Safe(x2, o, a, m) /\ Safe(x3, o, a, m) /\ Safe(x4, o, a, m)
<1>1. /\ x1["primary"] = d["primary"] /\ x1["recovery"] = n /\ x1["config"] = d["config"]
      /\ x2["primary"] = d["primary"] /\ x2["recovery"] = n /\ x2["config"] = t
      /\ x3["primary"] = n /\ x3["recovery"] = n /\ x3["config"] = t
      /\ x4["primary"] = n /\ x4["recovery"] = n /\ x4["config"] = t
      /\ x1["app"] = d["app"] /\ x2["app"] = d["app"] /\ x3["app"] = d["app"] /\ x4["app"] = d["app"]
  BY WrittenParts
<1> QED BY <1>1 DEF Safe

(* The disks of an installation over a disk whose copies are one.            *)
LEMMA InstallSafe ==
  ASSUME NEW d \in Disks, NEW o, NEW a, NEW m, Users(o, a, m), Safe(d, o, a, m),
         d["primary"] = d["recovery"], d["app"] # None,
         NEW b \in Lines, Plain(b, o, a /\ m), NEW p \in Protocols,
         d["primary"] # None =>
           \/ p = d["primary"].protocol
           \/ d["primary"].active /\ TextOf(d["config"]).base = Ours /\ TextOf(d["config"]).realtime = Ours,
         NEW n, NEW t, n = JournalFor(b, p), t = Routed(b, p),
         NEW x1, NEW x2, NEW x3, NEW x4, Written(d, n, t, x1, x2, x3, x4)
  PROVE  /\ Keeper(n, o, a, m) /\ n \in Journal /\ n # None /\ n.protocol = p /\ t \in Lines
         /\ Safe(x1, o, a, m) /\ Safe(x2, o, a, m) /\ Safe(x3, o, a, m) /\ Safe(x4, o, a, m)
<1>1. /\ Keeper(n, o, a, m) /\ n \in Journal /\ n # None /\ n.protocol = p
  BY KeeperFor
<1>2. t \in Lines /\ TextOf(t) = t
  <2>1. t \in Lines
    BY InstallTyped
  <2> QED BY <2>1 DEF TextOf, Users, NoneApart
<1> DEFINE j == d["primary"]
           c == TextOf(d["config"])
<1>3. Agreed(j, c, o, a, m)
  BY AgreedDisk
<1>4. j # None => n.protocol = j.protocol \/ (j.active /\ c.base = Ours /\ c.realtime = Ours)
  BY <1>1
<1> HIDE DEF j, c
<1>5. Fit(j, n, c, o, a, m)
  BY <1>1, <1>3, <1>4, FitInstallBegun
<1>6. Fit(j, n, t, o, a, m) /\ Fit(n, n, t, o, a, m)
  BY <1>1, <1>3, <1>4, FitInstalled
<1>7. Safe(x1, o, a, m) /\ Safe(x2, o, a, m) /\ Safe(x3, o, a, m) /\ Safe(x4, o, a, m)
  BY <1>1, <1>2, <1>5, <1>6, WrittenSafe DEF j, c
<1> QED BY <1>1, <1>2, <1>7

(* The facts a command outside a setup starts from.                          *)
Starting(t, o, a, m, e) ==
  /\ Free(t) /\ Users(o, a, m) /\ disk \in Settled(t, o, a, m, e) /\ ~Unreadable

(* Outside a setup the disk can be repaired.                                 *)
LEMMA StartingMended ==
  ASSUME NEW t, NEW o, NEW a, NEW m, NEW e, Starting(t, o, a, m, e)
  PROVE  /\ disk \in Disks /\ disk \in Safes(t, o, a, m) /\ disk \in Settled(t, o, a, m, e)
         /\ Mended(disk) \in Disks /\ Safe(Mended(disk), o, a, m) /\ (~m => Agree(Mended(disk), e))
         /\ Mended(disk) \in Safes(t, o, a, m) /\ Mended(disk) \in Settled(t, o, a, m, e)
         /\ Mended(disk)["primary"] = ReadJournal /\ Mended(disk)["recovery"] = ReadJournal
         /\ Mended(disk)["config"] = disk["config"] /\ Mended(disk)["app"] = disk["app"]
         /\ Agreed(ReadJournal, Text, o, a, m)
<1>1. Bound(Mended(disk), t, o, a, m)
  BY FreeBound DEF Starting
<1>2. disk \in Disks /\ disk \in Safes(t, o, a, m)
  BY SettledParts DEF Starting
<1> QED BY <1>1, <1>2, MendedSettled DEF Starting

(* Writes are one batch.                                                     *)
LEMMA WritesBatch ==
  ASSUME NEW j \in Journal, NEW c \in Lines
  PROVE  /\ Batch(Writes(j, c)) = <<Writes(j, c)>> /\ <<Writes(j, c)>> \in Seq(Batches)
<1>1. Writes(j, c) \in Batches /\ Writes(j, c) # <<>>
  BY WritesTyped DEF Batches
<1> QED BY <1>1 DEF Batch

(* Four safe writes, of which the last ends well.                            *)
LEMMA WrittenPath ==
  ASSUME NEW t, Free(t), NEW o, NEW a, NEW m, NEW e, NEW d \in Disks, d \in Safes(t, o, a, m),
         NEW n \in Journal, NEW c \in Lines,
         NEW x1, NEW x2, NEW x3, NEW x4, Written(d, n, c, x1, x2, x3, x4),
         Safe(x1, o, a, m), Safe(x2, o, a, m), Safe(x3, o, a, m), Safe(x4, o, a, m),
         ~m => Agree(x4, e)
  PROVE  Paths(<<Writes(n, c)>>, d, Safes(t, o, a, m), Settled(t, o, a, m, e))
<1>1. x1 \in Disks /\ x2 \in Disks /\ x3 \in Disks /\ x4 \in Disks
  BY WrittenParts
<1> DEFINE G == Safes(t, o, a, m)
           B == Settled(t, o, a, m, e)
<1>2. x1 \in G /\ x2 \in G /\ x3 \in G /\ x4 \in G /\ x4 \in B
  BY <1>1, SettledIn, FreeBound
<1> HIDE DEF G, B
<1>3. Leads(d, Writes(n, c), x4, G)
  <2>1. d \in G
    BY DEF G
  <2> QED BY <1>2, <2>1, LeadsWrites DEF Written
<1>4. Paths(<<Writes(n, c)>>, d, G, B)
  BY <1>1, <1>2, <1>3, PathsSingle
<1> QED BY <1>4 DEF G, B

(* The disks of a disconnection.                                             *)
LEMMA DisconnectPaths ==
  ASSUME NEW t, NEW o, NEW a, NEW m, NEW e, Starting(t, o, a, m, e), Managed
  PROVE  /\ Batch(DisconnectBatch) \in Seq(Batches)
         /\ Paths(Batch(DisconnectBatch), Mended(disk), Safes(t, o, a, m), Settled(t, o, a, m, e))
<1> DEFINE j == ReadJournal
           d == Mended(disk)
           i == [j EXCEPT !.active = FALSE]
           c == RestoreManagedRoute(Text, j)
<1>1. j # None /\ VerifyManagedJournalState(Text, j)
  BY DEF Managed
<1>2. /\ d \in Disks /\ Safe(d, o, a, m) /\ (~m => Agree(d, e)) /\ d \in Safes(t, o, a, m)
      /\ d["primary"] = j /\ d["config"] = disk["config"] /\ d["app"] = disk["app"]
      /\ Agreed(j, Text, o, a, m) /\ Free(t) /\ Users(o, a, m)
  BY StartingMended DEF Starting
<1>3. CASE ~j.active
  BY <1>2, <1>3, PathsNone DEF DisconnectBatch, Batch
<1>4. CASE j.active
  <2>1. /\ i \in Journal /\ i # None /\ i.protocol = j.protocol
        /\ Fit(j, i, Text, o, a, m) /\ Fit(j, i, c, o, a, m) /\ Fit(i, i, c, o, a, m)
    BY <1>1, <1>2, <1>4, FitDisconnected
  <2>2. c \in Lines /\ TextOf(c) = c /\ TextOf(d["config"]) = Text
    <3>1. j \in Journal /\ Text \in Lines
      BY <1>1, <1>2 DEF Agreed
    <3>2. c \in Lines
      BY <3>1, RestoredTyped
    <3>3. c # None
      BY <3>2, <1>2 DEF Users, NoneApart
    <3> QED BY <3>2, <3>3, <1>2, Reading DEF TextOf
  <2>3. d["app"] # None
    BY <1>1, <1>2 DEF Safe
  <2>4. DisconnectBatch = Writes(i, c)
    BY <1>4 DEF DisconnectBatch
  <2> HIDE DEF i, c, d, j
  <2> DEFINE x1 == [d EXCEPT !["recovery"] = i]
             x2 == [x1 EXCEPT !["config"] = c]
             x3 == [x2 EXCEPT !["primary"] = i]
             x4 == [x3 EXCEPT !["cache"] = None]
  <2>w. Written(d, i, c, x1, x2, x3, x4)
    BY DEF Written
  <2> HIDE DEF x1, x2, x3, x4
  <2>5. /\ x4["primary"] = i /\ x4["recovery"] = i /\ x4["cache"] = None /\ x4["app"] = d["app"]
    BY <1>2, <2>1, <2>2, <2>w, WrittenParts
  <2>6. Safe(x1, o, a, m) /\ Safe(x2, o, a, m) /\ Safe(x3, o, a, m) /\ Safe(x4, o, a, m)
    BY <1>2, <2>1, <2>2, <2>3, <2>w, WrittenSafe DEF d
  <2>7. ~m => Agree(x4, e)
    <3> HIDE DEF x4
    <3> QED BY <1>1, <1>2, <2>1, <2>5 DEF Agree
  <2>8. Paths(<<Writes(i, c)>>, d, Safes(t, o, a, m), Settled(t, o, a, m, e))
    BY <1>2, <2>1, <2>2, <2>6, <2>7, <2>w, WrittenPath
  <2>9. Batch(Writes(i, c)) = <<Writes(i, c)>> /\ <<Writes(i, c)>> \in Seq(Batches)
    BY <2>1, <2>2, WritesBatch
  <2> QED BY <2>4, <2>8, <2>9 DEF d
<1> QED BY <1>3, <1>4

(* The disks of a connection.                                                *)
LEMMA ConnectPaths ==
  ASSUME NEW t, NEW o, NEW a, NEW m, NEW e, Starting(t, o, a, m, e), Managed
  PROVE  /\ Batch(ConnectBatch) \in Seq(Batches)
         /\ Paths(Batch(ConnectBatch), Mended(disk), Safes(t, o, a, m), Settled(t, o, a, m, e))
<1> DEFINE j == ReadJournal
           d == Mended(disk)
           p == j.protocol
           n == JournalFor(Baseline, p)
           c == Routed(Baseline, p)
<1>1. j # None
  BY DEF Managed
<1>2. /\ d \in Disks /\ Safe(d, o, a, m) /\ (~m => Agree(d, e)) /\ d \in Safes(t, o, a, m)
      /\ d["primary"] = j /\ d["recovery"] = j /\ d["app"] = disk["app"]
      /\ Free(t) /\ Users(o, a, m) /\ Agreed(j, Text, o, a, m)
  BY StartingMended DEF Starting
<1>3. CASE j.active
  BY <1>2, <1>3, PathsNone DEF ConnectBatch, Batch
<1>4. CASE ~j.active
  <2>1. Baseline \in Lines /\ Plain(Baseline, o, a /\ m)
    BY BaselineTaken DEF Starting
  <2>2. p \in Protocols
    BY <1>1, <1>2 DEF Agreed, Journal
  <2>3. d["app"] # None
    BY <1>1, <1>2 DEF Safe
  <2>4. ConnectBatch = Writes(n, c)
    BY <1>4 DEF ConnectBatch, InstallBatch
  <2>5. d["primary"] # None => p = d["primary"].protocol
    BY <1>2
  <2> DEFINE b == Baseline
             x1 == [d EXCEPT !["recovery"] = n]
             x2 == [x1 EXCEPT !["config"] = c]
             x3 == [x2 EXCEPT !["primary"] = n]
             x4 == [x3 EXCEPT !["cache"] = None]
  <2>w. Written(d, n, c, x1, x2, x3, x4)
    BY DEF Written
  <2>b. n = JournalFor(b, p) /\ c = Routed(b, p) /\ b \in Lines /\ Plain(b, o, a /\ m)
    BY <2>1
  <2> HIDE DEF d, j, p, b, n, c, x1, x2, x3, x4
  <2>6. /\ n \in Journal /\ n.protocol = p /\ c \in Lines
        /\ Safe(x1, o, a, m) /\ Safe(x2, o, a, m) /\ Safe(x3, o, a, m) /\ Safe(x4, o, a, m)
    BY <1>2, <2>b, <2>2, <2>3, <2>5, <2>w, InstallSafe
  <2>7. /\ x4["primary"] = n /\ x4["recovery"] = n /\ x4["cache"] = None /\ x4["app"] = d["app"]
    BY <1>2, <2>6, <2>w, WrittenParts
  <2>8. ~m => Agree(x4, e)
    <3> HIDE DEF x4
    <3> QED BY <1>1, <1>2, <2>6, <2>7 DEF Agree, p
  <2>9. Paths(<<Writes(n, c)>>, d, Safes(t, o, a, m), Settled(t, o, a, m, e))
    BY <1>2, <2>6, <2>8, <2>w, WrittenPath
  <2>10. Batch(Writes(n, c)) = <<Writes(n, c)>> /\ <<Writes(n, c)>> \in Seq(Batches)
    BY <2>6, WritesBatch
  <2> QED BY <2>4, <2>9, <2>10 DEF d
<1> QED BY <1>3, <1>4

(* The disks between the writes of a removal: d, and then x1 to x4.          *)
Removed(d, t, x1, x2, x3, x4) ==
  /\ x1 = [d EXCEPT !["config"] = t] /\ x2 = [x1 EXCEPT !["cache"] = None]
  /\ x3 = [x2 EXCEPT !["primary"] = None] /\ x4 = [x3 EXCEPT !["recovery"] = None]

(* The writes of a removal, file by file.                                    *)
LEMMA RemovedParts ==
  ASSUME NEW d \in Disks, NEW t \in Lines,
         NEW x1, NEW x2, NEW x3, NEW x4, Removed(d, t, x1, x2, x3, x4)
  PROVE  /\ x1 \in Disks /\ x2 \in Disks /\ x3 \in Disks /\ x4 \in Disks
         /\ x1["primary"] = d["primary"] /\ x1["recovery"] = d["recovery"] /\ x1["config"] = t
         /\ x2["primary"] = d["primary"] /\ x2["recovery"] = d["recovery"] /\ x2["config"] = t
         /\ x3["primary"] = None /\ x3["recovery"] = d["recovery"] /\ x3["config"] = t
         /\ x4["primary"] = None /\ x4["recovery"] = None /\ x4["config"] = t /\ x4["cache"] = None
         /\ x1["app"] = d["app"] /\ x2["app"] = d["app"] /\ x3["app"] = d["app"] /\ x4["app"] = d["app"]
<1>0. /\ x1 = [d EXCEPT !["config"] = t]
      /\ x2 = [x1 EXCEPT !["cache"] = None]
      /\ x3 = [x2 EXCEPT !["primary"] = None]
      /\ x4 = [x3 EXCEPT !["recovery"] = None]
  BY DEF Removed
<1>1. "recovery" \in Files /\ "config" \in Files /\ "primary" \in Files /\ "cache" \in Files /\ "app" \in Files
  BY DEF Files
<1>2. /\ x1 \in Disks
      /\ x1["primary"] = d["primary"] /\ x1["recovery"] = d["recovery"] /\ x1["config"] = t
      /\ x1["cache"] = d["cache"] /\ x1["app"] = d["app"]
  <2>1. x1 = [d EXCEPT !["config"] = t]
    BY <1>0
  <2>2. x1 \in Disks
    BY <1>0, PutTyped, HoldsParts DEF Files
  <2>3. \A f \in Files : x1[f] = IF f = "config" THEN t ELSE d[f]
    BY <2>1, DiskFunction
  <2> QED BY <2>2, <2>3, <1>1
<1>3. /\ x2 \in Disks
      /\ x2["primary"] = x1["primary"] /\ x2["recovery"] = x1["recovery"] /\ x2["config"] = x1["config"]
      /\ x2["cache"] = None /\ x2["app"] = x1["app"]
  <2>1. x2 = [x1 EXCEPT !["cache"] = None]
    BY <1>0
  <2>2. x2 \in Disks
    BY <1>0, <1>2, PutTyped, HoldsParts DEF Files
  <2>3. \A f \in Files : x2[f] = IF f = "cache" THEN None ELSE x1[f]
    BY <2>1, <1>2, DiskFunction
  <2> QED BY <2>2, <2>3, <1>1
<1>4. /\ x3 \in Disks
      /\ x3["primary"] = None /\ x3["recovery"] = x2["recovery"] /\ x3["config"] = x2["config"]
      /\ x3["cache"] = x2["cache"] /\ x3["app"] = x2["app"]
  <2>1. x3 = [x2 EXCEPT !["primary"] = None]
    BY <1>0
  <2>2. x3 \in Disks
    BY <1>0, <1>3, PutTyped, HoldsParts DEF Files
  <2>3. \A f \in Files : x3[f] = IF f = "primary" THEN None ELSE x2[f]
    BY <2>1, <1>3, DiskFunction
  <2> QED BY <2>2, <2>3, <1>1
<1>5. /\ x4 \in Disks
      /\ x4["primary"] = x3["primary"] /\ x4["recovery"] = None /\ x4["config"] = x3["config"]
      /\ x4["cache"] = x3["cache"] /\ x4["app"] = x3["app"]
  <2>1. x4 = [x3 EXCEPT !["recovery"] = None]
    BY <1>0
  <2>2. x4 \in Disks
    BY <1>0, <1>4, PutTyped, HoldsParts DEF Files
  <2>3. \A f \in Files : x4[f] = IF f = "recovery" THEN None ELSE x3[f]
    BY <2>1, <1>4, DiskFunction
  <2> QED BY <2>2, <2>3, <1>1
<1> QED BY <1>2, <1>3, <1>4, <1>5

(* A disk with another saved configuration.                                  *)
Saved(d, k, x) == x = [d EXCEPT !["app"] = k]

(* What such a disk holds.                                                   *)
LEMMA AppParts ==
  ASSUME NEW d \in Disks, NEW k \in AppConfig \cup {None}, NEW x, Saved(d, k, x)
  PROVE  /\ x \in Disks /\ x["app"] = k /\ x["primary"] = d["primary"] /\ x["recovery"] = d["recovery"]
         /\ x["config"] = d["config"] /\ x["cache"] = d["cache"]
<1>1. x \in Disks
  BY PutTyped, HoldsParts DEF Files, Saved
<1>2. \A f \in Files : x[f] = IF f = "app" THEN k ELSE d[f]
  BY DiskFunction DEF Saved
<1>3. "recovery" \in Files /\ "config" \in Files /\ "primary" \in Files /\ "cache" \in Files /\ "app" \in Files
  BY DEF Files
<1> QED BY <1>1, <1>2, <1>3

(* The write of a saved configuration.                                       *)
LEMMA AppOrder ==
  ASSUME NEW k \in AppConfig \cup {None}
  PROVE  /\ "app" \in Files /\ k \in Holds("app") /\ <<"app", k>> \in Orders
         /\ << <<"app", k>> >> \in Batches /\ << <<"app", k>> >> \in Seq(Orders)
<1>1. "app" \in Files /\ k \in Holds("app")
  BY HoldsParts DEF Files
<1>2. <<"app", k>> \in Orders
  BY <1>1, OrderTyped
<1> QED BY <1>1, <1>2 DEF Batches

(* The saved configuration goes where no journal is.                         *)
LEMMA AppRemoved ==
  ASSUME NEW t, Free(t), NEW o, NEW a, NEW m, NEW e, NEW d \in Disks, d \in Safes(t, o, a, m),
         Safe(d, o, a, m), d["primary"] = None, d["recovery"] = None,
         ~m => (e = 0 => d["cache"] \in {None, RouteOf(TextOf(d["config"]))}),
         NEW x, x = [d EXCEPT !["app"] = None]
  PROVE  /\ x \in Disks /\ x \in Settled(t, o, a, m, e)
         /\ Leads(d, << <<"app", None>> >>, x, Safes(t, o, a, m))
<1>1. /\ x \in Disks /\ x["app"] = None /\ x["primary"] = None /\ x["recovery"] = None
      /\ x["config"] = d["config"] /\ x["cache"] = d["cache"]
  <2>1. Saved(d, None, x)
    BY DEF Saved
  <2> QED BY <2>1, AppParts
<1>2. Safe(x, o, a, m) /\ (~m => Agree(x, e))
  BY <1>1 DEF Safe, Agree
<1>3. x \in Settled(t, o, a, m, e) /\ x \in Safes(t, o, a, m)
  BY <1>1, <1>2, SettledIn, FreeBound
<1>4. "app" \in Files /\ None \in Holds("app")
  BY AppOrder
<1>5. Leads(d, << <<"app", None>> >>, x, Safes(t, o, a, m))
  BY <1>3, <1>4, LeadsLast
<1> QED BY <1>1, <1>3, <1>5

(* The disks of a removal without a journal.                                 *)
LEMMA RemovePaths ==
  ASSUME NEW t, NEW o, NEW a, NEW m, NEW e, Starting(t, o, a, m, e), ReadJournal = None
  PROVE  /\ << << <<"app", None>> >> >> \in Seq(Batches)
         /\ Paths(<< << <<"app", None>> >> >>, Mended(disk), Safes(t, o, a, m), Settled(t, o, a, m, e))
<1> DEFINE d == Mended(disk)
           x == [d EXCEPT !["app"] = None]
           v == << <<"app", None>> >>
<1>1. /\ d \in Disks /\ Safe(d, o, a, m) /\ (~m => Agree(d, e)) /\ d \in Safes(t, o, a, m)
      /\ d["primary"] = None /\ d["recovery"] = None /\ Free(t)
  BY StartingMended DEF Starting
<1>2. v \in Batches
  BY AppOrder
<1>3. ~m => (e = 0 => d["cache"] \in {None, RouteOf(TextOf(d["config"]))})
  BY <1>1 DEF Agree
<1> HIDE DEF d
<1>4. x \in Disks /\ x \in Settled(t, o, a, m, e) /\ Leads(d, v, x, Safes(t, o, a, m))
  BY <1>1, <1>3, AppRemoved
<1> HIDE DEF x, v
<1>5. Paths(<<v>>, d, Safes(t, o, a, m), Settled(t, o, a, m, e))
  BY <1>1, <1>4, PathsSingle
<1>6. <<v>> \in Seq(Batches)
  BY <1>2
<1> QED BY <1>5, <1>6 DEF d, v

(* The disks of a removal.                                                   *)
LEMMA UninstallPaths ==
  ASSUME NEW t, NEW o, NEW a, NEW m, NEW e, Starting(t, o, a, m, e), Managed
  PROVE  /\ <<UninstallBatch, << <<"app", None>> >> >> \in Seq(Batches)
         /\ Paths(<<UninstallBatch, << <<"app", None>> >> >>, Mended(disk),
                  Safes(t, o, a, m), Settled(t, o, a, m, e))
<1> DEFINE j == ReadJournal
           d == Mended(disk)
           c == IF j.active THEN RestoreManagedRoute(Text, j) ELSE Text
           w == << <<"config", c>>, <<"cache", None>>, <<"primary", None>>, <<"recovery", None>> >>
           v == << <<"app", None>> >>
           G == Safes(t, o, a, m)
           B == Settled(t, o, a, m, e)
<1>1. j # None /\ VerifyManagedJournalState(Text, j)
  BY DEF Managed
<1>2. /\ d \in Disks /\ Safe(d, o, a, m) /\ d \in G
      /\ d["primary"] = j /\ d["recovery"] = j /\ Free(t) /\ Users(o, a, m) /\ Agreed(j, Text, o, a, m)
  BY StartingMended DEF Starting
<1>3. Fit(j, j, c, o, a, m) /\ Fit(None, j, c, o, a, m) /\ Fit(None, None, c, o, a, m)
  BY <1>1, <1>2, FitRemoved
<1>4. c \in Lines /\ TextOf(c) = c
  <2>1. j \in Journal /\ Text \in Lines
    BY <1>1, <1>2 DEF Agreed
  <2>2. c \in Lines
    BY <2>1, RestoredTyped
  <2>3. None \notin Lines
    BY <1>2 DEF Users, NoneApart
  <2> QED BY <2>2, <2>3 DEF TextOf
<1>5. d["app"] # None
  BY <1>1, <1>2 DEF Safe
<1>6. UninstallBatch = w /\ w \in Batches /\ v \in Batches
  <2>1. /\ <<"config", c>> \in Orders /\ <<"cache", None>> \in Orders
        /\ <<"primary", None>> \in Orders /\ <<"recovery", None>> \in Orders
    <3> HIDE DEF c
    <3> QED BY <1>4, OrderTyped, HoldsParts DEF Files
  <2>2. w \in Batches
    <3> HIDE DEF c
    <3> QED BY <2>1 DEF Batches
  <2> QED BY <2>2, AppOrder DEF UninstallBatch
<1> HIDE DEF c, d, j
<1> DEFINE x1 == [d EXCEPT !["config"] = c]
           x2 == [x1 EXCEPT !["cache"] = None]
           x3 == [x2 EXCEPT !["primary"] = None]
           x4 == [x3 EXCEPT !["recovery"] = None]
           x5 == [x4 EXCEPT !["app"] = None]
<1>w. Removed(d, c, x1, x2, x3, x4)
  BY DEF Removed
<1> HIDE DEF x1, x2, x3, x4
<1>7. /\ x1 \in Disks /\ x2 \in Disks /\ x3 \in Disks /\ x4 \in Disks
      /\ x1["primary"] = d["primary"] /\ x1["recovery"] = d["recovery"] /\ x1["config"] = c
      /\ x2["primary"] = d["primary"] /\ x2["recovery"] = d["recovery"] /\ x2["config"] = c
      /\ x3["primary"] = None /\ x3["recovery"] = d["recovery"] /\ x3["config"] = c
      /\ x4["primary"] = None /\ x4["recovery"] = None /\ x4["config"] = c /\ x4["cache"] = None
      /\ x1["app"] = d["app"] /\ x2["app"] = d["app"] /\ x3["app"] = d["app"] /\ x4["app"] = d["app"]
  BY <1>2, <1>4, <1>w, RemovedParts
<1>8. Safe(x1, o, a, m) /\ Safe(x2, o, a, m) /\ Safe(x3, o, a, m) /\ Safe(x4, o, a, m)
  BY <1>2, <1>3, <1>4, <1>5, <1>7 DEF Safe
<1>9. ~m => Agree(x4, e)
  BY <1>7 DEF Agree
<1>10. x1 \in G /\ x2 \in G /\ x3 \in G /\ x4 \in G /\ x4 \in B
  BY <1>2, <1>7, <1>8, <1>9, SettledIn, FreeBound
<1> HIDE DEF G, B
<1>11. Leads(d, w, x4, G)
  BY <1>2, <1>4, <1>10, LeadsRemoval DEF x1, x2, x3, x4
<1>12. x5 \in Disks /\ x5 \in B /\ Leads(x4, v, x5, G)
  <2>1. ~m => (e = 0 => x4["cache"] \in {None, RouteOf(TextOf(x4["config"]))})
    BY <1>7
  <2> QED BY <1>2, <1>7, <1>8, <1>10, <2>1, AppRemoved DEF G, B
<1> HIDE DEF x5, w, v
<1>13. Paths(<<w, v>>, d, G, B)
  BY <1>2, <1>7, <1>10, <1>11, <1>12, PathsDouble
<1>14. <<w, v>> \in Seq(Batches)
  BY <1>6
<1> QED BY <1>6, <1>13, <1>14 DEF d, v, G, B

(* What the second pass restores, file by file.                              *)
LEMMA FiveParts ==
  ASSUME NEW d, NEW b, NEW i \in 0..5
  PROVE  LET x == Restored(d, b, Five, i)
         IN  /\ x["recovery"] = IF i < 1 THEN d["recovery"] ELSE b["recovery"]
             /\ x["primary"] = IF i < 2 THEN d["primary"] ELSE b["primary"]
             /\ x["config"] = IF i < 4 THEN d["config"] ELSE b["config"]
             /\ x["app"] = IF i < 5 THEN d["app"] ELSE b["app"]
             /\ i = 5 => x["cache"] = b["cache"]
<1> DEFINE u == Five
<1>1. /\ u[1] = "recovery" /\ u[2] = "primary" /\ u[3] = "cache" /\ u[4] = "config" /\ u[5] = "app"
  BY DEF Five
<1>2. 1..5 = {1, 2, 3, 4, 5} /\ \A l \in 1..i : l \in 1..5
  OBVIOUS
<1> HIDE DEF u
<1>3. \A l \in 1..i : l \in {1, 2, 3, 4, 5}
  BY <1>2
<1>4. ASSUME NEW f \in Files, NEW n \in 1..5, u[n] = f
      PROVE  (\E l \in 1..i : u[l] = f) <=> ~(i < n)
  <2>1. \A l \in 1..5 : u[l] = f => l = n
    BY <1>1, <1>2, <1>4
  <2>2. ASSUME NEW l \in 1..i, u[l] = f
        PROVE  ~(i < n)
    <3>1. l = n
      BY <1>2, <2>1, <2>2
    <3> QED BY <3>1
  <2>3. ~(i < n) => n \in 1..i
    OBVIOUS
  <2> QED BY <2>2, <2>3, <1>4
<1>5. /\ "config" \in Files /\ "recovery" \in Files /\ "primary" \in Files /\ "app" \in Files
      /\ "cache" \in Files /\ 1 \in 1..5 /\ 2 \in 1..5 /\ 3 \in 1..5 /\ 4 \in 1..5 /\ 5 \in 1..5
  BY DEF Files
<1>6. /\ (\E l \in 1..i : u[l] = "recovery") <=> ~(i < 1)
      /\ (\E l \in 1..i : u[l] = "primary") <=> ~(i < 2)
      /\ (\E l \in 1..i : u[l] = "cache") <=> ~(i < 3)
      /\ (\E l \in 1..i : u[l] = "config") <=> ~(i < 4)
      /\ (\E l \in 1..i : u[l] = "app") <=> ~(i < 5)
  BY <1>1, <1>4, <1>5
<1>7. i = 5 => ~(i < 3)
  OBVIOUS
<1> QED BY <1>5, <1>6, <1>7 DEF Restored, u

(* The disks that a death in that pass may leave split.                      *)
Torn == {d \in Disks : Split(d)}

(* An older journal fits a newer text, or the text has feature lines that it *)
(* knows nothing of.                                                         *)
LEMMA FitOlder ==
  ASSUME NEW o, NEW a, NEW m, Users(o, a, m), NEW j \in Journal, j.active, NEW c \in Lines, NEW n \in Journal,
         NEW h \in Lines, Fit(j, j, h, o, a, m), VerifyInstalledRoute(h, j), Fit(n, n, c, o, a, m)
  PROVE  Fit(j, j, c, o, a, m) \/ (c.feature = Ours /\ j.protocol = "native")
<1>1. /\ j # None /\ n # None /\ a \in BOOLEAN /\ m \in BOOLEAN /\ j.protocol \in Protocols
  BY DEF Users, NoneApart, Journal
<1>2. /\ Keeps(j, a) /\ OwnLines(h, o)
      /\ (j.active => Knows(j, h, o, a /\ m))
      /\ (h.feature = Ours => j.protocol = "compatibility-v1")
      /\ Plain(h, o, a /\ m) \/ j.active
  BY <1>1 DEF Fit, Twins, Doubt
<1>3. OwnLines(c, o)
  BY <1>1, FitOne
<1>4. Knows(j, c, o, a /\ m)
  <2>1. Knows(j, h, o, a /\ m)
    BY <1>2
  <2> QED BY <2>1 DEF Knows, VerifyInstalledRoute
<1>5. j.protocol = "compatibility-v1" \/ j.protocol = "native"
  BY <1>1 DEF Protocols
<1> QED BY <1>1, <1>2, <1>3, <1>4, <1>5, FitOne

(* Two journals fit in either order.                                         *)
LEMMA FitTurned ==
  ASSUME NEW j, j # None, NEW n, n # None, NEW c, NEW o, NEW a, NEW m, Fit(j, n, c, o, a, m)
  PROVE  Fit(n, j, c, o, a, m)
<1>1. {j, n} = {n, j} /\ (Twins(j, n) <=> Twins(n, j)) /\ (Doubt(j, n, a, m) <=> Doubt(n, j, a, m))
  BY DEF Twins, Doubt
<1>2. Doubt(j, n, a, m) = Doubt(n, j, a, m)
  BY DEF Doubt
<1> QED BY <1>1, <1>2 DEF Fit

(* What a change of the protocol restores in its second pass fits, or is     *)
(* split.                                                                    *)
LEMMA SwitchReturns ==
  ASSUME NEW o, NEW a, NEW m, Users(o, a, m), NEW d \in Disks, Safe(d, o, a, m),
         NEW j \in Journal, d["primary"] = j, d["recovery"] = j, j.active,
         d["config"] \in Lines, VerifyInstalledRoute(d["config"], j),
         NEW n \in Journal, NEW c \in Lines, NEW x \in Disks,
         x["primary"] = n, x["recovery"] = n, x["config"] = c, x["app"] = d["app"],
         Safe(x, o, a, m), Fit(j, n, c, o, a, m),
         NEW G, \A y \in Disks : Safe(y, o, a, m) \/ Split(y) => y \in G
  PROVE  Returns(x, d, Five, G)
<1>1. j # None /\ n # None /\ c # None /\ TextOf(c) = c /\ TextOf(d["config"]) = d["config"]
  BY DEF Users, NoneApart, TextOf
<1>2. Fit(n, j, c, o, a, m)
  BY <1>1, FitTurned
<1>3. Fit(n, n, c, o, a, m) /\ Fit(j, j, d["config"], o, a, m)
  BY <1>1 DEF Safe
<1>4. Fit(j, j, c, o, a, m) \/ (c.feature = Ours /\ j.protocol = "native")
  BY <1>3, FitOlder
<1>5. d["app"] # None
  BY <1>1 DEF Safe
<1>6. ASSUME NEW i \in 0..5
      PROVE  LET y == Restored(x, d, Five, i) IN Safe(y, o, a, m) \/ Split(y)
  <2> DEFINE y == Restored(x, d, Five, i)
  <2> SUFFICES Safe(y, o, a, m) \/ Split(y)
    OBVIOUS
  <2>1. /\ y["recovery"] = IF i < 1 THEN n ELSE j
        /\ y["primary"] = IF i < 2 THEN n ELSE j
        /\ y["config"] = IF i < 4 THEN c ELSE d["config"]
        /\ y["app"] = d["app"]
    BY FiveParts
  <2> HIDE DEF y
  <2>2. \/ y["primary"] = n /\ y["recovery"] = n /\ y["config"] = c
        \/ y["primary"] = n /\ y["recovery"] = j /\ y["config"] = c
        \/ y["primary"] = j /\ y["recovery"] = j /\ y["config"] = c
        \/ y["primary"] = j /\ y["recovery"] = j /\ y["config"] = d["config"]
    BY <2>1
  <2>3. Fit(y["primary"], y["recovery"], TextOf(y["config"]), o, a, m) => Safe(y, o, a, m)
    BY <2>1, <1>5 DEF Safe
  <2>4. CASE y["primary"] = j /\ y["recovery"] = j /\ y["config"] = c
    <3>1. CASE Fit(j, j, c, o, a, m)
      <4>1. Fit(y["primary"], y["recovery"], TextOf(y["config"]), o, a, m)
        BY <2>4, <3>1, <1>1, Zenon
      <4> QED BY <2>3, <4>1
    <3>2. CASE c.feature = Ours /\ j.protocol = "native"
      BY <2>4, <3>2, <1>1 DEF Split
    <3> QED BY <3>1, <3>2, <1>4
  <2>5. CASE y["primary"] = n /\ y["recovery"] = n /\ y["config"] = c
    <3>1. Fit(y["primary"], y["recovery"], TextOf(y["config"]), o, a, m)
      BY <2>5, <1>1, <1>3, Zenon
    <3> QED BY <2>3, <3>1
  <2>6. CASE y["primary"] = n /\ y["recovery"] = j /\ y["config"] = c
    <3>1. Fit(y["primary"], y["recovery"], TextOf(y["config"]), o, a, m)
      BY <2>6, <1>1, <1>2, Zenon
    <3> QED BY <2>3, <3>1
  <2>7. CASE y["primary"] = j /\ y["recovery"] = j /\ y["config"] = d["config"]
    <3>1. Fit(y["primary"], y["recovery"], TextOf(y["config"]), o, a, m)
      BY <2>7, <1>1, <1>3, Zenon
    <3> QED BY <2>3, <3>1
  <2> QED BY <2>2, <2>4, <2>5, <2>6, <2>7
<1>7. \A i \in 0..5 : Restored(x, d, Five, i) \in Disks
  BY RestoredDisk
<1>8. Restored(x, d, Five, 5) = d
  <2> DEFINE y == Restored(x, d, Five, 5)
  <2>1. /\ y["config"] = d["config"] /\ y["recovery"] = d["recovery"] /\ y["primary"] = d["primary"]
        /\ y["app"] = d["app"] /\ y["cache"] = d["cache"]
    <3>1. 5 \in 0..5 /\ ~(5 < 1) /\ ~(5 < 2) /\ ~(5 < 4) /\ ~(5 < 5)
      OBVIOUS
    <3> QED BY <3>1, FiveParts
  <2>2. y \in Disks
    BY <1>7
  <2> HIDE DEF y
  <2>3. \A f \in Files : y[f] = d[f]
    BY <2>1 DEF Files
  <2>4. y = d
    BY <2>2, <2>3, DiskFunction
  <2> QED BY <2>4 DEF y
<1>9. \A i \in 0..5 : Restored(x, d, Five, i) \in G
  BY <1>6, <1>7
<1>10. Len(Five) = 5
  BY DEF Five
<1> QED BY <1>8, <1>9, <1>10 DEF Returns

(* The disks of a change of the protocol.                                    *)
LEMMA SubagentsPaths ==
  ASSUME NEW t, NEW o, NEW a, NEW m, NEW e, Starting(t, o, a, m, e), Managed, ReadJournal.active,
         disk["app"] # None, NEW p \in Protocols
  PROVE  Planned(Mended(disk), InstallBatch(p), << <<"app", [disk["app"] EXCEPT !.protocol = p]>> >>,
                 Safes(t, o, a, m) \cup Torn, Settled(t, o, a, m, e))
<1> DEFINE j == ReadJournal
           d == Mended(disk)
           n == JournalFor(Baseline, p)
           c == Routed(Baseline, p)
           k == [disk["app"] EXCEPT !.protocol = p]
           G == Safes(t, o, a, m) \cup Torn
           B == Settled(t, o, a, m, e)
<1>1. /\ j # None /\ VerifyManagedJournalState(Text, j) /\ j.active /\ disk["config"] # None
      /\ Text = disk["config"]
  BY DEF Managed, Text
<1>2. /\ d \in Disks /\ Safe(d, o, a, m) /\ d \in G /\ d["config"] = disk["config"]
      /\ d["primary"] = j /\ d["recovery"] = j /\ d["app"] = disk["app"]
      /\ Free(t) /\ Users(o, a, m) /\ Agreed(j, Text, o, a, m)
  BY StartingMended DEF Starting
<1>3. Baseline \in Lines /\ Plain(Baseline, o, a /\ m)
  BY BaselineTaken DEF Starting
<1>4. k \in AppConfig /\ k.protocol = p /\ k # None
  <2>1. disk \in Disks
    BY StartingMended
  <2>2. disk["app"] \in AppConfig
    BY <2>1, DiskParts
  <2>3. k \in AppConfig /\ k.protocol = p
    BY <2>2 DEF AppConfig
  <2> QED BY <2>3, <1>2 DEF Users
<1>5. VerifyInstalledRoute(d["config"], j) /\ d["config"] \in Lines /\ j \in Journal
  <2>1. VerifyInstalledRoute(d["config"], j)
    BY <1>1, <1>2 DEF VerifyManagedJournalState
  <2>2. d["config"] \in Lines /\ j \in Journal
    BY <1>1, <1>2 DEF Agreed
  <2> QED BY <2>1, <2>2
<1>6. InstallBatch(p) = Writes(n, c)
  BY DEF InstallBatch
<1>7. d["primary"] # None =>
        \/ p = d["primary"].protocol
        \/ d["primary"].active /\ TextOf(d["config"]).base = Ours /\ TextOf(d["config"]).realtime = Ours
  <2>1. TextOf(d["config"]) = d["config"]
    BY <1>1, <1>2 DEF TextOf
  <2> QED BY <1>1, <1>2, <1>5, <2>1 DEF VerifyInstalledRoute
<1> DEFINE b == Baseline
           x1 == [d EXCEPT !["recovery"] = n]
           x2 == [x1 EXCEPT !["config"] = c]
           x3 == [x2 EXCEPT !["primary"] = n]
           x4 == [x3 EXCEPT !["cache"] = None]
           x5 == [x4 EXCEPT !["app"] = k]
<1>w. Written(d, n, c, x1, x2, x3, x4)
  BY DEF Written
<1>b. n = JournalFor(b, p) /\ c = Routed(b, p) /\ b \in Lines /\ Plain(b, o, a /\ m)
  BY <1>3
<1> HIDE DEF d, j, b, k, n, c, x1, x2, x3, x4
<1>8. /\ n \in Journal /\ n.protocol = p /\ c \in Lines
      /\ Safe(x1, o, a, m) /\ Safe(x2, o, a, m) /\ Safe(x3, o, a, m) /\ Safe(x4, o, a, m)
  BY <1>2, <1>b, <1>7, <1>w, InstallSafe
<1>9. /\ x1 \in Disks /\ x2 \in Disks /\ x3 \in Disks /\ x4 \in Disks
      /\ x4["primary"] = n /\ x4["recovery"] = n /\ x4["cache"] = None
      /\ x4["config"] = c /\ x4["app"] = d["app"]
      /\ x2["primary"] = j /\ x2["recovery"] = n /\ x2["config"] = c
  BY <1>2, <1>8, <1>w, WrittenParts
<1>10. /\ x5 \in Disks /\ x5["app"] = k /\ x5["primary"] = n /\ x5["recovery"] = n
       /\ x5["config"] = x4["config"] /\ x5["cache"] = None
  <2>1. Saved(x4, k, x5) /\ k \in AppConfig \cup {None}
    BY <1>4 DEF Saved
  <2>2. x4 \in Disks
    BY <1>9
  <2> HIDE DEF x5
  <2>3. /\ x5 \in Disks /\ x5["app"] = k /\ x5["primary"] = x4["primary"]
        /\ x5["recovery"] = x4["recovery"] /\ x5["config"] = x4["config"] /\ x5["cache"] = x4["cache"]
    BY <2>1, <2>2, AppParts, ZenonT(30)
  <2> QED BY <2>3, <1>9
<1>11. Safe(x5, o, a, m) /\ Agree(x5, e)
  <2> HIDE DEF x4, x5
  <2>1. Safe(x5, o, a, m)
    BY <1>4, <1>8, <1>9, <1>10 DEF Safe
  <2>2. Agree(x5, e)
    BY <1>4, <1>8, <1>10 DEF Agree
  <2> QED BY <2>1, <2>2
<1>12. x1 \in G /\ x2 \in G /\ x3 \in G /\ x4 \in G /\ x5 \in G /\ x5 \in B
  BY <1>2, <1>8, <1>9, <1>10, <1>11, SettledIn, FreeBound
<1>13. \A y \in Disks : Safe(y, o, a, m) \/ Split(y) => y \in G
  BY <1>2, SettledIn, FreeBound DEF Torn
<1> HIDE DEF G, B
<1>14. Leads(d, Writes(n, c), x4, G)
  BY <1>2, <1>8, <1>12, LeadsWrites DEF x1, x2, x3, x4
<1>15. Leads(x4, << <<"app", k>> >>, x5, G) /\ Len(<< <<"app", k>> >>) = 1
  <2>1. "app" \in Files /\ k \in Holds("app")
    BY <1>4, AppOrder
  <2> QED BY <1>9, <1>12, <2>1, LeadsLast
<1> HIDE DEF x5
<1>16. Fit(j, n, c, o, a, m)
  <2>1. TextOf(c) = c
    BY <1>2, <1>8 DEF TextOf, Users, NoneApart
  <2> QED BY <1>8, <1>9, <2>1 DEF Safe
<1>17. Returns(x4, d, Five, G)
  <2>1. j.active
    BY <1>1
  <2> QED BY <1>2, <1>5, <1>8, <1>9, <1>13, <1>16, <2>1, SwitchReturns
<1>18. Finished(x4, d, << <<"app", k>> >>, G, B)
  BY <1>12, <1>15, <1>17 DEF Finished
<1>19. Planned(d, InstallBatch(p), << <<"app", k>> >>, G, B)
  BY <1>6, <1>9, <1>14, <1>18 DEF Planned
<1> QED BY <1>19 DEF d, k, G, B

(* What is held of a checkpoint is held when it is repaired.                 *)
LEMMA HeldMended ==
  ASSUME NEW d \in Disks, NEW k, Held(d, k)
  PROVE  /\ Chosen(d["primary"], d["recovery"], d["config"])
              = Chosen(k["primary"], k["recovery"], k["config"])
         /\ Held(Mended(d), k)
<1> DEFINE j == Chosen(k["primary"], k["recovery"], k["config"])
           p == d["primary"]
           r == d["recovery"]
<1>1. Chosen(p, r, d["config"]) = j
  <2>1. d["config"] = k["config"]
    BY DEF Held
  <2>2. CASE p = k["primary"] /\ r = k["recovery"]
    BY <2>1, <2>2
  <2>3. CASE p = j /\ r = j
    BY <2>3, ChosenOne
  <2> QED BY <2>2, <2>3 DEF Held
<1>2. Mended(d)["primary"] = j /\ Mended(d)["recovery"] = j
      /\ Mended(d)["config"] = d["config"] /\ Mended(d)["app"] = d["app"]
  BY <1>1, MendedParts
<1> QED BY <1>1, <1>2 DEF Held

(* A setup's command is bound to its checkpoint by what it has written.      *)
LEMMA CommandBound ==
  ASSUME NEW t, t.name = "setup", t.at \in {"command", "start", "commit", "rollback"},
         NEW o, NEW a, NEW m, NEW d,
         d["app"] = None => t.checkpoint["app"] = None,
         Since(d["primary"], d["recovery"], t.checkpoint["primary"], t.checkpoint["recovery"],
               t.checkpoint["config"], o, a, m)
  PROVE  Bound(d, t, o, a, m)
BY DEF Bound

(* What is held of a checkpoint binds as well.                               *)
LEMMA HeldSince ==
  ASSUME NEW d, NEW k, Held(d, k), NEW o, NEW a, NEW m
  PROVE  /\ Since(d["primary"], d["recovery"], k["primary"], k["recovery"], k["config"], o, a, m)
         /\ d["app"] = None => k["app"] = None
BY DEF Held, Since

(* The facts a setup's command starts from.                                  *)
SettingUp(t, o, a, m, e) ==
  /\ t # None /\ t.name = "setup" /\ t.at = "command" /\ Held(disk, t.checkpoint)
  /\ Users(o, a, m) /\ disk \in Disks /\ Safe(disk, o, a, m) /\ (~m => Agree(disk, e)) /\ ~Unreadable

(* A setup's command may start on its disk, and on the repaired one.         *)
LEMMA SettingMended ==
  ASSUME NEW t, NEW o, NEW a, NEW m, NEW e, SettingUp(t, o, a, m, e)
  PROVE  /\ disk \in Safes(t, o, a, m) /\ disk \in Settled(t, o, a, m, e)
         /\ Mended(disk) \in Disks /\ Safe(Mended(disk), o, a, m) /\ (~m => Agree(Mended(disk), e))
         /\ Mended(disk) \in Safes(t, o, a, m) /\ Mended(disk) \in Settled(t, o, a, m, e)
         /\ Mended(disk)["primary"] = ReadJournal /\ Mended(disk)["recovery"] = ReadJournal
         /\ Mended(disk)["config"] = disk["config"] /\ Mended(disk)["app"] = disk["app"]
<1>1. Held(disk, t.checkpoint) /\ Held(Mended(disk), t.checkpoint)
  BY HeldMended DEF SettingUp
<1>2. Bound(disk, t, o, a, m) /\ Bound(Mended(disk), t, o, a, m)
  BY <1>1, HeldSince, CommandBound DEF SettingUp
<1>3. disk \in Safes(t, o, a, m) /\ disk \in Settled(t, o, a, m, e)
  BY <1>2, SettledIn DEF SettingUp
<1> QED BY <1>2, <1>3, MendedSettled DEF SettingUp

(* The protocol of a setup is one, and the journal's if there is one.        *)
LEMMA SetupProtocolTyped ==
  ASSUME disk \in Disks
  PROVE  SetupProtocol \in Protocols /\ (ReadJournal # None => SetupProtocol = ReadJournal.protocol)
<1>1. ReadJournal \in Journal \cup {None} /\ disk["app"] \in AppConfig \cup {None}
  BY Reading, BaselineTyped, DiskParts
<1> QED BY <1>1 DEF SetupProtocol, Journal, AppConfig, Protocols

(* The disks of a setup.                                                     *)
LEMMA SetupPaths ==
  ASSUME NEW t, NEW o, NEW a, NEW m, NEW e, SettingUp(t, o, a, m, e), NEW mode \in Modes,
         NEW k, k = [protocol |-> SetupProtocol, mode |-> mode]
  PROVE  Paths(<< << <<"app", k>> >>, InstallBatch(SetupProtocol) >>, Mended(disk),
               Safes(t, o, a, m), Settled(t, o, a, m, e))
<1> DEFINE j == ReadJournal
           p == SetupProtocol
           d == Mended(disk)
           n == JournalFor(Baseline, p)
           c == Routed(Baseline, p)
           b == Baseline
           v == << <<"app", k>> >>
           G == Safes(t, o, a, m)
           B == Settled(t, o, a, m, e)
           x == [d EXCEPT !["app"] = k]
           x1 == [x EXCEPT !["recovery"] = n]
           x2 == [x1 EXCEPT !["config"] = c]
           x3 == [x2 EXCEPT !["primary"] = n]
           x4 == [x3 EXCEPT !["cache"] = None]
<1>1. /\ d \in Disks /\ Safe(d, o, a, m) /\ (~m => Agree(d, e)) /\ d \in G
      /\ d["primary"] = j /\ d["recovery"] = j
  <2> HIDE DEF d
  <2>1. d = Mended(disk)
    BY DEF d
  <2> QED BY <2>1, SettingMended
<1>2. b \in Lines /\ Plain(b, o, a /\ m)
  <2>1. Users(o, a, m) /\ ~Unreadable
    BY DEF SettingUp
  <2>2. disk \in Settled(t, o, a, m, e)
    BY SettingMended
  <2> QED BY <2>1, <2>2, BaselineTaken
<1>3. p \in Protocols /\ (j # None => p = j.protocol)
  BY SetupProtocolTyped DEF SettingUp
<1>4. k \in AppConfig /\ k.protocol = p /\ k # None
  BY <1>3 DEF AppConfig, SettingUp, Users
<1>5. Chosen(t.checkpoint["primary"], t.checkpoint["recovery"], t.checkpoint["config"]) = j
  BY HeldMended, Reading DEF SettingUp
<1>6. Users(o, a, m)
  BY DEF SettingUp
<1>w. Saved(d, k, x) /\ k \in AppConfig \cup {None} /\ Written(x, n, c, x1, x2, x3, x4)
  BY <1>4 DEF Written, Saved
<1>b. n = JournalFor(b, p) /\ c = Routed(b, p)
  OBVIOUS
<1> HIDE DEF d, j, p, b, n, c, x, x1, x2, x3, x4
<1>7. /\ x \in Disks /\ x["app"] = k /\ x["primary"] = j /\ x["recovery"] = j
      /\ x["config"] = d["config"] /\ x["cache"] = d["cache"]
  BY <1>1, <1>w, AppParts
<1>8. Safe(x, o, a, m) /\ (~m => Agree(x, e))
  <2>1. Safe(x, o, a, m)
    BY <1>1, <1>4, <1>7 DEF Safe
  <2>2. ~m => Agree(x, e)
    BY <1>1, <1>3, <1>4, <1>7 DEF Agree
  <2> QED BY <2>1, <2>2
<1>9. /\ n \in Journal /\ n # None /\ n.protocol = p /\ c \in Lines /\ Keeper(n, o, a, m)
      /\ Safe(x1, o, a, m) /\ Safe(x2, o, a, m) /\ Safe(x3, o, a, m) /\ Safe(x4, o, a, m)
  <2>1. x["primary"] # None => p = x["primary"].protocol
    BY <1>3, <1>7
  <2>2. x \in Disks /\ x["primary"] = x["recovery"] /\ x["app"] # None
    BY <1>4, <1>7
  <2> QED BY <1>2, <1>3, <1>6, <1>8, <2>1, <2>2, <1>w, <1>b, InstallSafe
<1>10. /\ x1 \in Disks /\ x2 \in Disks /\ x3 \in Disks /\ x4 \in Disks
       /\ x1["primary"] = j /\ x1["recovery"] = n /\ x2["primary"] = j /\ x2["recovery"] = n
       /\ x3["primary"] = n /\ x3["recovery"] = n
       /\ x4["primary"] = n /\ x4["recovery"] = n /\ x4["cache"] = None
       /\ x1["app"] = k /\ x2["app"] = k /\ x3["app"] = k /\ x4["app"] = k
  <2>1. /\ x1 \in Disks /\ x2 \in Disks /\ x3 \in Disks /\ x4 \in Disks
        /\ x1["primary"] = x["primary"] /\ x1["recovery"] = n /\ x2["primary"] = x["primary"]
        /\ x2["recovery"] = n /\ x3["primary"] = n /\ x3["recovery"] = n
        /\ x4["primary"] = n /\ x4["recovery"] = n /\ x4["cache"] = None
        /\ x1["app"] = x["app"] /\ x2["app"] = x["app"] /\ x3["app"] = x["app"] /\ x4["app"] = x["app"]
    <3>1. x \in Disks /\ n \in Journal /\ c \in Lines /\ Written(x, n, c, x1, x2, x3, x4)
      BY <1>7, <1>9, <1>w
    <3> QED BY <3>1, WrittenParts
  <2> QED BY <2>1, <1>7
<1>11. \A y : /\ y["app"] = k
              /\ \/ y["recovery"] = j /\ y["primary"] = j
                 \/ y["recovery"] = n /\ y["primary"] \in {j, n}
              => Bound(y, t, o, a, m)
  <2>1. ASSUME NEW y, y["app"] = k,
               \/ y["recovery"] = j /\ y["primary"] = j
               \/ y["recovery"] = n /\ y["primary"] \in {j, n}
        PROVE  Bound(y, t, o, a, m)
    <3>1. Since(y["primary"], y["recovery"], t.checkpoint["primary"], t.checkpoint["recovery"],
                t.checkpoint["config"], o, a, m)
      BY <1>3, <1>5, <1>9, <2>1 DEF Since
    <3>2. t.name = "setup" /\ t.at \in {"command", "start", "commit", "rollback"}
      BY DEF SettingUp
    <3>3. y["app"] # None
      BY <1>4, <2>1
    <3> QED BY <3>1, <3>2, <3>3, CommandBound
  <2> QED BY <2>1
<1>12. /\ Bound(x, t, o, a, m) /\ Bound(x1, t, o, a, m) /\ Bound(x2, t, o, a, m)
       /\ Bound(x3, t, o, a, m) /\ Bound(x4, t, o, a, m)
  BY <1>7, <1>10, <1>11
<1>13. ~m => Agree(x4, e)
  BY <1>4, <1>9, <1>10 DEF Agree
<1>14. x \in G /\ x \in B /\ x1 \in G /\ x2 \in G /\ x3 \in G /\ x4 \in G /\ x4 \in B
  BY <1>7, <1>8, <1>9, <1>10, <1>12, <1>13, SettledIn
<1> HIDE DEF G, B
<1>15. Leads(d, v, x, G)
  <2>1. "app" \in Files /\ k \in Holds("app")
    BY <1>4, AppOrder
  <2>2. d \in G
    BY <1>1
  <2> QED BY <1>1, <1>14, <2>1, <2>2, LeadsLast DEF x
<1>16. Leads(x, Writes(n, c), x4, G)
  BY <1>7, <1>9, <1>14, LeadsWrites DEF x1, x2, x3, x4
<1> HIDE DEF v
<1>17. Paths(<<v, Writes(n, c)>>, d, G, B)
  BY <1>1, <1>7, <1>10, <1>14, <1>15, <1>16, PathsDouble
<1> QED BY <1>17 DEF InstallBatch, v, n, c, p, b, d, G, B

(* What the commands write is typed, whatever the copies say.                *)
LEMMA InstallBatchTyped ==
  ASSUME disk \in Disks, NEW p \in Protocols
  PROVE  InstallBatch(p) \in Batches
<1>1. Baseline \in Lines
  BY Reading, BaselineTyped, DiskParts
<1> QED BY <1>1, InstallTyped, WritesTyped DEF InstallBatch

(* So are the batches of the commands that need a journal.                   *)
LEMMA ManagedTyped ==
  ASSUME disk \in Disks, Managed
  PROVE  /\ Batch(DisconnectBatch) \in Seq(Batches) /\ Batch(ConnectBatch) \in Seq(Batches)
         /\ <<UninstallBatch, << <<"app", None>> >> >> \in Seq(Batches)
<1> DEFINE j == ReadJournal
           c == IF j.active THEN RestoreManagedRoute(Text, j) ELSE Text
           w == << <<"config", c>>, <<"cache", None>>, <<"primary", None>>, <<"recovery", None>> >>
<1>1. j \in Journal /\ Text \in Lines
  BY Reading, BaselineTyped, DiskParts, TextTyped DEF Managed
<1>2. c \in Lines /\ RestoreManagedRoute(Text, j) \in Lines
  BY <1>1, RestoredTyped
<1>3. [j EXCEPT !.active = FALSE] \in Journal /\ j.protocol \in Protocols
  BY <1>1 DEF Journal
<1>4. DisconnectBatch \in Seq(Orders)
  <2>1. Writes([j EXCEPT !.active = FALSE], RestoreManagedRoute(Text, j)) \in Seq(Orders)
    BY <1>2, <1>3, WritesTyped DEF Batches
  <2> QED BY <2>1 DEF DisconnectBatch
<1>5. ConnectBatch \in Seq(Orders)
  <2>1. InstallBatch(j.protocol) \in Seq(Orders)
    BY <1>3, InstallBatchTyped DEF Batches
  <2> QED BY <2>1 DEF ConnectBatch
<1>6. w \in Batches
  <2>1. /\ <<"config", c>> \in Orders /\ <<"cache", None>> \in Orders
        /\ <<"primary", None>> \in Orders /\ <<"recovery", None>> \in Orders
    <3> HIDE DEF c
    <3> QED BY <1>2, OrderTyped, HoldsParts DEF Files
  <2> HIDE DEF c
  <2> QED BY <2>1 DEF Batches
<1>7. UninstallBatch = w
  BY DEF UninstallBatch
<1>8. << <<"app", None>> >> \in Batches
  BY AppOrder
<1> HIDE DEF w
<1>9. <<w, << <<"app", None>> >> >> \in Seq(Batches)
  BY <1>6, <1>8
<1> QED BY <1>4, <1>5, <1>7, <1>9, BatchTyped

(* A command that runs has a typed job.                                      *)
LEMMA RunTyped ==
  ASSUME disk \in Disks, NEW bs \in Seq(Batches), NEW nm \in Commands, Run(nm, bs)
  PROVE  /\ job' \in Jobs /\ job'.before = disk /\ job'.done = <<>> /\ ~job'.failing
         /\ job'.batches = Batch(RepairBatch) \o bs /\ job'.name = nm /\ job'.found = disk
         /\ job'.repairing = (RepairBatch # <<>>)
<1>1. Batch(RepairBatch) \o bs \in Seq(Batches)
  BY RepairTyped
<1> QED BY <1>1 DEF Run, Jobs

(* And passes through safe disks if its batches do.                          *)
LEMMA RunSafe ==
  ASSUME disk \in Disks, NEW G, NEW B, disk \in G, disk \in B,
         Mended(disk) \in G, Mended(disk) \in B,
         NEW bs \in Seq(Batches), Paths(bs, Mended(disk), G, B),
         NEW nm \in Commands \ {"subagents"}, Run(nm, bs), NEW T
  PROVE  job' \in Jobs /\ JobFits(job', disk, G, T, B) /\ job'.name = nm
<1>1. Paths(Batch(RepairBatch) \o bs, disk, G, B)
  BY PathsMended
<1>2. /\ job' \in Jobs /\ job'.before = disk /\ job'.done = <<>> /\ ~job'.failing
      /\ job'.batches = Batch(RepairBatch) \o bs /\ job'.name = nm
  BY RunTyped
<1>3. JobSafe(job', disk, G, B)
  BY <1>1, <1>2, JobStarts
<1> QED BY <1>2, <1>3 DEF JobFits

(* So does a change of the protocol.                                         *)
LEMMA RunSwitches ==
  ASSUME disk \in Disks, NEW G, NEW B, disk \in B, Mended(disk) \in B, B \subseteq G, NEW T,
         NEW w \in Batches, NEW v \in Batches, Planned(Mended(disk), w, v, G \cup T, B),
         Run("subagents", <<w, v>>)
  PROVE  job' \in Jobs /\ JobFits(job', disk, G, T, B) /\ job'.name = "subagents"
<1>1. <<w, v>> \in Seq(Batches) /\ "subagents" \in Commands
  BY DEF Commands
<1>2. /\ job' \in Jobs /\ job'.before = disk /\ job'.done = <<>> /\ ~job'.failing
      /\ job'.batches = Batch(RepairBatch) \o <<w, v>> /\ job'.name = "subagents"
      /\ job'.repairing = (RepairBatch # <<>>)
  BY <1>1, RunTyped
<1> DEFINE H == G \cup T
<1>3. B \subseteq H /\ Planned(Mended(disk), w, v, H, B)
  OBVIOUS
<1> HIDE DEF H
<1>4. SwitchSafe(job', disk, H, B)
  BY <1>2, <1>3, SwitchMended
<1> QED BY <1>2, <1>4 DEF JobFits, H

-----------------------------------------------------------------------------
(* The commands as steps: refused, or run over some batches.                 *)

Refuses == job = None /\ Refuse /\ UNCHANGED <<disk, userVars, edits, faults, broken>>
Runs(nm, bs) ==
  /\ job = None /\ Run(nm, bs) /\ exit' = None
  /\ UNCHANGED <<disk, userVars, edits, faults, broken>>

(* What is read of the files.                                                *)
LEMMA StatusRuns ==
  ASSUME Status
  PROVE  Refuses \/ (~Unreadable /\ Runs("route", <<>>))
BY DEF Status, Command, Refuses, Runs

(* A check before a setup writes no more than that.                          *)
LEMMA PreflightRuns ==
  ASSUME NEW replace, Preflight(replace)
  PROVE  Refuses \/ (~Unreadable /\ Runs("route", <<>>))
BY DEF Preflight, Command, Refuses, Runs, InstallRefused

(* A disconnection.                                                          *)
LEMMA DisconnectRuns ==
  ASSUME Disconnect
  PROVE  \/ Refuses
         \/ ~Unreadable /\ Runs("route", <<>>)
         \/ Managed /\ Runs("route", Batch(DisconnectBatch))
BY DEF Disconnect, Command, Refuses, Runs

(* A connection.                                                             *)
LEMMA ConnectRuns ==
  ASSUME Connect
  PROVE  Refuses \/ (Managed /\ Runs("route", Batch(ConnectBatch)))
BY DEF Connect, Command, Refuses, Runs

(* A removal.                                                                *)
LEMMA UninstallRuns ==
  ASSUME Uninstall
  PROVE  \/ Refuses
         \/ ~Unreadable /\ ReadJournal = None /\ Runs("uninstall", << << <<"app", None>> >> >>)
         \/ Managed /\ Runs("uninstall", <<UninstallBatch, << <<"app", None>> >> >>)
BY DEF Uninstall, Command, Refuses, Runs

(* A change of the protocol.                                                 *)
LEMMA SubagentsRuns ==
  ASSUME NEW p, Subagents(p)
  PROVE  \/ Refuses
         \/ /\ Managed /\ ReadJournal.active /\ disk["app"] # None
            /\ Runs("subagents", <<InstallBatch(p), << <<"app", [disk["app"] EXCEPT !.protocol = p]>> >> >>)
BY DEF Subagents, Command, Refuses, Runs

(* A setup.                                                                  *)
LEMMA SetupRuns ==
  ASSUME NEW mode, NEW replace, Setup(mode, replace)
  PROVE  \/ Refuses
         \/ /\ ~Unreadable
            /\ Runs("setup", << << <<"app", [protocol |-> SetupProtocol, mode |-> mode]>> >>,
                                InstallBatch(SetupProtocol) >>)
BY DEF Setup, Command, Refuses, Runs, InstallRefused

(* A managed text can be read.                                               *)
LEMMA ManagedRead ==
  ASSUME Managed
  PROVE  ~Unreadable
BY DEF Managed

(* What a command leaves, by types.                                          *)
Typed ==
  /\ job = None /\ job' \in Jobs \cup {None} /\ exit' \in {None, "ok", "failed"}
  /\ UNCHANGED <<disk, userVars, edits, faults, broken>>

(* A refused command.                                                        *)
LEMMA RefusesTyped ==
  ASSUME Refuses
  PROVE  Typed /\ job' = None /\ exit' = "failed"
BY DEF Refuses, Refuse, Typed

(* A command that runs.                                                      *)
LEMMA RunsTyped ==
  ASSUME disk \in Disks, NEW bs \in Seq(Batches), NEW nm \in Commands, Runs(nm, bs)
  PROVE  Typed
<1>1. job' \in Jobs
  BY RunTyped DEF Runs
<1> QED BY <1>1 DEF Runs, Typed

(* The batches of a change of the protocol.                                  *)
LEMMA SubagentsTyped ==
  ASSUME disk \in Disks, disk["app"] # None, NEW p \in Protocols
  PROVE  /\ InstallBatch(p) \in Batches
         /\ << <<"app", [disk["app"] EXCEPT !.protocol = p]>> >> \in Batches
         /\ <<InstallBatch(p), << <<"app", [disk["app"] EXCEPT !.protocol = p]>> >> >> \in Seq(Batches)
<1> DEFINE v == << <<"app", [disk["app"] EXCEPT !.protocol = p]>> >>
           i == InstallBatch(p)
<1>1. [disk["app"] EXCEPT !.protocol = p] \in AppConfig
  BY DiskParts DEF AppConfig
<1>2. i \in Batches /\ v \in Batches
  BY <1>1, InstallBatchTyped, AppOrder
<1> HIDE DEF v, i
<1>3. <<i, v>> \in Seq(Batches)
  BY <1>2
<1> QED BY <1>2, <1>3 DEF v, i

(* The batches of a setup.                                                   *)
LEMMA SetupTyped ==
  ASSUME disk \in Disks, NEW mode \in Modes
  PROVE  << << <<"app", [protocol |-> SetupProtocol, mode |-> mode]>> >>,
            InstallBatch(SetupProtocol) >> \in Seq(Batches)
<1> DEFINE v == << <<"app", [protocol |-> SetupProtocol, mode |-> mode]>> >>
           i == InstallBatch(SetupProtocol)
<1>1. SetupProtocol \in Protocols
  BY SetupProtocolTyped
<1>2. [protocol |-> SetupProtocol, mode |-> mode] \in AppConfig
  BY <1>1 DEF AppConfig
<1>3. v \in Batches /\ i \in Batches
  BY <1>1, <1>2, AppOrder, InstallBatchTyped
<1> HIDE DEF v, i
<1>4. <<v, i>> \in Seq(Batches)
  BY <1>3
<1> QED BY <1>4 DEF v, i

(* Nothing is a sequence of batches.                                         *)
LEMMA NothingTyped == <<>> \in Seq(Batches)
OBVIOUS

(* Every command is typed.                                                   *)
LEMMA CommandsTyped ==
  ASSUME disk \in Disks
  PROVE  /\ Status => Typed
         /\ \A r : Preflight(r) => Typed
         /\ Disconnect => Typed
         /\ Connect => Typed
         /\ Uninstall => Typed
         /\ \A p \in Protocols : Subagents(p) => Typed
         /\ \A mode \in Modes : \A r : Setup(mode, r) => Typed
<1>0. {"route", "subagents", "setup", "uninstall"} \subseteq Commands
  BY DEF Commands
<1>1. Status => Typed
  BY <1>0, StatusRuns, RefusesTyped, RunsTyped, NothingTyped
<1>2. \A r : Preflight(r) => Typed
  BY <1>0, PreflightRuns, RefusesTyped, RunsTyped, NothingTyped
<1>3. Disconnect => Typed
  BY <1>0, DisconnectRuns, RefusesTyped, RunsTyped, NothingTyped, ManagedTyped
<1>4. Connect => Typed
  BY <1>0, ConnectRuns, RefusesTyped, RunsTyped, ManagedTyped
<1>5. Uninstall => Typed
  <2>1. << << <<"app", None>> >> >> \in Seq(Batches)
    BY AppOrder
  <2> QED BY <1>0, <2>1, UninstallRuns, RefusesTyped, RunsTyped, ManagedTyped
<1>6. ASSUME NEW p \in Protocols, Subagents(p)
      PROVE  Typed
  BY <1>0, <1>6, SubagentsRuns, RefusesTyped, RunsTyped, SubagentsTyped
<1>7. ASSUME NEW mode \in Modes, NEW r, Setup(mode, r)
      PROVE  Typed
  BY <1>0, <1>7, SetupRuns, RefusesTyped, RunsTyped, SetupTyped
<1> QED BY <1>1, <1>2, <1>3, <1>4, <1>5, <1>6, <1>7

(* What a command leaves: nothing, or a job that passes through safe disks;  *)
(* only a change of the protocol, outside a setup, may leave torn ones.      *)
Issues(t, o, a, m, e) ==
  /\ Typed
  /\ \/ job' = None /\ exit' = "failed"
     \/ /\ ~Unreadable /\ job' \in Jobs
        /\ JobFits(job', disk, Safes(t, o, a, m), Torn, Settled(t, o, a, m, e))
        /\ job'.name = "subagents" => Free(t)

(* A refused command issues nothing.                                         *)
LEMMA RefusesIssues ==
  ASSUME Refuses, NEW t, NEW o, NEW a, NEW m, NEW e
  PROVE  Issues(t, o, a, m, e)
BY RefusesTyped DEF Issues

(* A command that runs, from where it may start.                             *)
LEMMA RunsIssues ==
  ASSUME NEW t, NEW o, NEW a, NEW m, NEW e, disk \in Disks, ~Unreadable,
         disk \in Safes(t, o, a, m), disk \in Settled(t, o, a, m, e),
         Mended(disk) \in Safes(t, o, a, m), Mended(disk) \in Settled(t, o, a, m, e),
         NEW bs \in Seq(Batches), NEW nm \in Commands \ {"subagents"}, Runs(nm, bs),
         Paths(bs, Mended(disk), Safes(t, o, a, m), Settled(t, o, a, m, e))
  PROVE  Issues(t, o, a, m, e)
<1>1. Typed
  BY RunsTyped
<1>2. Run(nm, bs)
  BY DEF Runs
<1> DEFINE G == Safes(t, o, a, m)
           B == Settled(t, o, a, m, e)
<1> HIDE DEF G, B
<1>3. job' \in Jobs /\ JobFits(job', disk, G, Torn, B) /\ job'.name = nm
  BY <1>2, RunSafe DEF G, B
<1> QED BY <1>1, <1>3 DEF Issues, G, B

(* So does one outside a setup.                                              *)
LEMMA StartingIssues ==
  ASSUME NEW t, NEW o, NEW a, NEW m, NEW e, Starting(t, o, a, m, e),
         NEW bs \in Seq(Batches), NEW nm \in Commands \ {"subagents"}, Runs(nm, bs),
         Paths(bs, Mended(disk), Safes(t, o, a, m), Settled(t, o, a, m, e))
  PROVE  Issues(t, o, a, m, e)
BY StartingMended, RunsIssues DEF Starting

(* Every command outside a setup passes through safe disks.                  *)
LEMMA CommandsIssue ==
  ASSUME NEW t, NEW o, NEW a, NEW m, NEW e, Free(t), Users(o, a, m), disk \in Settled(t, o, a, m, e)
  PROVE  /\ Status => Issues(t, o, a, m, e)
         /\ Disconnect => Issues(t, o, a, m, e)
         /\ Connect => Issues(t, o, a, m, e)
         /\ Uninstall => Issues(t, o, a, m, e)
         /\ \A p \in Protocols : Subagents(p) => Issues(t, o, a, m, e)
<1>1. ~Unreadable => Starting(t, o, a, m, e)
  BY DEF Starting
<1>2. Refuses => Issues(t, o, a, m, e)
  BY RefusesIssues
<1>0. {"route", "setup", "uninstall"} \subseteq Commands \ {"subagents"}
  BY DEF Commands
<1>3. ASSUME ~Unreadable, Runs("route", <<>>)
      PROVE  Issues(t, o, a, m, e)
  <2>1. Mended(disk) \in Disks
    BY <1>1, <1>3, StartingMended
  <2>2. Paths(<<>>, Mended(disk), Safes(t, o, a, m), Settled(t, o, a, m, e))
    BY <2>1, PathsNone
  <2> QED BY <1>0, <1>1, <1>3, <2>2, NothingTyped, StartingIssues
<1>4. Status => Issues(t, o, a, m, e)
  BY <1>2, <1>3, StatusRuns
<1>5. ASSUME Managed
      PROVE  /\ Starting(t, o, a, m, e)
             /\ Runs("route", Batch(DisconnectBatch)) => Issues(t, o, a, m, e)
             /\ Runs("route", Batch(ConnectBatch)) => Issues(t, o, a, m, e)
             /\ Runs("uninstall", <<UninstallBatch, << <<"app", None>> >> >>) => Issues(t, o, a, m, e)
  <2>1. Starting(t, o, a, m, e)
    BY <1>1, <1>5, ManagedRead
  <2>2. Runs("route", Batch(DisconnectBatch)) => Issues(t, o, a, m, e)
    BY <1>0, <1>5, <2>1, DisconnectPaths, StartingIssues
  <2>3. Runs("route", Batch(ConnectBatch)) => Issues(t, o, a, m, e)
    BY <1>0, <1>5, <2>1, ConnectPaths, StartingIssues
  <2>4. Runs("uninstall", <<UninstallBatch, << <<"app", None>> >> >>) => Issues(t, o, a, m, e)
    BY <1>0, <1>5, <2>1, UninstallPaths, StartingIssues
  <2> QED BY <2>1, <2>2, <2>3, <2>4
<1>6. Disconnect => Issues(t, o, a, m, e)
  BY <1>2, <1>3, <1>5, DisconnectRuns
<1>7. Connect => Issues(t, o, a, m, e)
  BY <1>2, <1>5, ConnectRuns
<1>8. Uninstall => Issues(t, o, a, m, e)
  <2>1. ASSUME ~Unreadable, ReadJournal = None, Runs("uninstall", << << <<"app", None>> >> >>)
        PROVE  Issues(t, o, a, m, e)
    BY <1>0, <1>1, <2>1, RemovePaths, StartingIssues
  <2> QED BY <1>2, <1>5, <2>1, UninstallRuns
<1>9. ASSUME NEW p \in Protocols, Subagents(p)
      PROVE  Issues(t, o, a, m, e)
  <2> DEFINE w == InstallBatch(p)
             v == << <<"app", [disk["app"] EXCEPT !.protocol = p]>> >>
             G == Safes(t, o, a, m)
             B == Settled(t, o, a, m, e)
  <2>1. ASSUME Managed, ReadJournal.active, disk["app"] # None, Runs("subagents", <<w, v>>)
        PROVE  Issues(t, o, a, m, e)
    <3>1. Starting(t, o, a, m, e)
      BY <1>5, <2>1
    <3>2. disk \in Disks /\ disk \in B /\ Mended(disk) \in B /\ ~Unreadable
      BY <3>1, StartingMended DEF Starting
    <3>3. w \in Batches /\ v \in Batches /\ <<w, v>> \in Seq(Batches)
      BY <2>1, <3>2, SubagentsTyped
    <3>4. Planned(Mended(disk), w, v, G \cup Torn, B)
      BY <2>1, <3>1, SubagentsPaths
    <3>5. B \subseteq G
      BY DEF Settled
    <3> HIDE DEF w, v, G, B
    <3>6. Run("subagents", <<w, v>>)
      BY <2>1 DEF Runs
    <3>7. job' \in Jobs /\ JobFits(job', disk, G, Torn, B) /\ job'.name = "subagents"
      BY <3>2, <3>3, <3>4, <3>5, <3>6, RunSwitches
    <3>8. "subagents" \in Commands
      BY DEF Commands
    <3>9. Typed
      BY <2>1, <3>2, <3>3, <3>8, RunsTyped
    <3> QED BY <3>2, <3>7, <3>9 DEF Issues, G, B
  <2> QED BY <1>2, <1>9, <2>1, SubagentsRuns
<1> QED BY <1>4, <1>6, <1>7, <1>8, <1>9

(* A setup's check, at its checkpoint.                                       *)
LEMMA PreflightIssues ==
  ASSUME NEW t, t # None, t.name = "setup", t.at = "preflight", t.checkpoint = disk,
         NEW o, NEW a, NEW m, NEW e, Users(o, a, m), disk \in Disks, Safe(disk, o, a, m),
         ~m => Agree(disk, e), NEW replace, Preflight(replace)
  PROVE  Issues(t, o, a, m, e) /\ Bound(disk, t, o, a, m)
<1>1. \A d : Held(d, disk) => Bound(d, t, o, a, m)
  BY DEF Bound
<1>2. Held(disk, disk) /\ Held(Mended(disk), disk)
  <2>1. Held(disk, disk)
    BY DEF Held
  <2> QED BY <2>1, HeldMended
<1>3. Bound(disk, t, o, a, m) /\ Bound(Mended(disk), t, o, a, m)
  BY <1>1, <1>2
<1>4. disk \in Safes(t, o, a, m) /\ disk \in Settled(t, o, a, m, e)
  BY <1>3, SettledIn
<1>5. ASSUME ~Unreadable, Runs("route", <<>>)
      PROVE  Issues(t, o, a, m, e)
  <2>1. /\ Mended(disk) \in Disks
        /\ Mended(disk) \in Safes(t, o, a, m) /\ Mended(disk) \in Settled(t, o, a, m, e)
    BY <1>3, <1>4, <1>5, MendedSettled
  <2>2. Paths(<<>>, Mended(disk), Safes(t, o, a, m), Settled(t, o, a, m, e))
    BY <2>1, PathsNone
  <2>3. "route" \in Commands \ {"subagents"}
    BY DEF Commands
  <2> QED BY <1>4, <1>5, <2>1, <2>2, <2>3, NothingTyped, RunsIssues
<1> QED BY <1>3, <1>5, RefusesIssues, PreflightRuns

(* A setup's command.                                                        *)
LEMMA SetupIssues ==
  ASSUME NEW t, t # None, t.name = "setup", t.at = "command", Held(disk, t.checkpoint),
         NEW o, NEW a, NEW m, NEW e, Users(o, a, m), disk \in Disks, Safe(disk, o, a, m),
         ~m => Agree(disk, e), NEW mode \in Modes, NEW replace, Setup(mode, replace)
  PROVE  Issues(t, o, a, m, e)
<1> DEFINE bs == << << <<"app", [protocol |-> SetupProtocol, mode |-> mode]>> >>,
                    InstallBatch(SetupProtocol) >>
<1>1. ASSUME ~Unreadable, Runs("setup", bs)
      PROVE  Issues(t, o, a, m, e)
  <2>1. SettingUp(t, o, a, m, e)
    BY <1>1 DEF SettingUp
  <2>2. bs \in Seq(Batches)
    BY SetupTyped
  <2>3. Paths(bs, Mended(disk), Safes(t, o, a, m), Settled(t, o, a, m, e))
    BY <2>1, SetupPaths
  <2> HIDE DEF bs
  <2>4. "setup" \in Commands \ {"subagents"}
    BY DEF Commands
  <2> QED BY <1>1, <2>1, <2>2, <2>3, <2>4, SettingMended, RunsIssues
<1> QED BY <1>1, RefusesIssues, SetupRuns

-----------------------------------------------------------------------------
(* The types.                                                                *)

(* An operation of the launcher's; a setup has a mode.                       *)
TxTyped(t) == t \in Operations \cup {None} /\ (t # None /\ t.name = "setup" => t.mode \in Modes)

FilesTyped ==
  /\ disk \in Disks /\ job \in Jobs \cup {None} /\ exit \in {None, "ok", "failed"}
  /\ own \in UserLines /\ ambiguous \in BOOLEAN /\ broken \subseteq {"death", "undo", "split"}
  /\ edits \in 0..MaxEdits /\ faults \in 0..MaxFaults

LauncherTyped ==
  /\ alive \in BOOLEAN /\ orphan \in BOOLEAN /\ runtime \in Modes \cup {None}
  /\ TxTyped(tx) /\ (tx # None => alive)

TypeInv == FilesTyped /\ LauncherTyped

(* An operation begins.                                                      *)
LEMMA OperationTyped ==
  ASSUME disk \in Disks, NEW n \in {"setup", "uninstall", "boot"}, NEW s \in Steps
  PROVE  /\ Operation(n, s) \in Operations
         /\ Operation(n, s).name = n /\ Operation(n, s).at = s /\ Operation(n, s).checkpoint = disk
BY DEF Operation, Operations

(* A setup begins.                                                           *)
Begun(t, mode, r) == t = [Operation("setup", "preflight") EXCEPT !.mode = mode, !.replace = r]

(* Its operation is one.                                                     *)
LEMMA SetupOperation ==
  ASSUME disk \in Disks, NEW mode \in Modes, NEW r \in BOOLEAN, NEW t, Begun(t, mode, r)
  PROVE  /\ t \in Operations /\ t.mode = mode
         /\ t.name = "setup" /\ t.at = "preflight" /\ t.checkpoint = disk
<1> DEFINE q == Operation("setup", "preflight")
<1>1. q \in Operations /\ q.name = "setup" /\ q.at = "preflight" /\ q.checkpoint = disk
  <2>1. "preflight" \in Steps
    BY DEF Steps
  <2> QED BY <2>1, OperationTyped
<1>2. t = [q EXCEPT !.mode = mode, !.replace = r]
  BY DEF Begun
<1> HIDE DEF q
<1> QED BY <1>1, <1>2 DEF Operations

(* It goes on.                                                               *)
LEMMA GoesParts ==
  ASSUME tx \in Operations, NEW s \in Steps
  PROVE  LET t == [tx EXCEPT !.at = s]
         IN  /\ t \in Operations /\ t.at = s /\ t.name = tx.name /\ t.checkpoint = tx.checkpoint
             /\ t.mode = tx.mode /\ t.todo = tx.todo
BY DEF Operations

(* By types.                                                                 *)
LEMMA GoesTyped ==
  ASSUME TxTyped(tx), tx # None, NEW s \in Steps, Goes(s)
  PROVE  TxTyped(tx')
<1>1. tx \in Operations
  BY DEF TxTyped
<1> QED BY <1>1, GoesParts DEF Goes, TxTyped

(* The runtime, started or stopped or left alone.                            *)
RuntimeStep == Stopped \/ StopFailed \/ Ready \/ NotReady \/ UNCHANGED <<runtime, orphan>>

(* It keeps its types.                                                       *)
LEMMA RuntimeTyped ==
  ASSUME TypeInv, RuntimeStep
  PROVE  runtime' \in Modes \cup {None} /\ orphan' \in BOOLEAN
<1>1. disk["app"] # None => disk["app"].mode \in Modes
  BY DiskParts DEF TypeInv, FilesTyped, AppConfig
<1> QED BY <1>1 DEF TypeInv, LauncherTyped, RuntimeStep, Stopped, StopFailed, Ready, NotReady

(* A step that leaves the files and the commands alone.                      *)
Idles == UNCHANGED integrationVars

(* The launcher's steps by what they do: the runtime, the operation, and the *)
(* files or a command.                                                       *)
LEMMA LauncherKinds ==
  ASSUME TypeInv,
         \/ PreflightEnds \/ SetupStops \/ SetupCannotStop \/ CommandEnds \/ SetupStarts
         \/ BrowserCommits \/ RollsBack \/ RestoreEnds \/ RecoversRuntime
         \/ UninstallBegins \/ UninstallStops \/ UninstallCannotStop \/ RemoveEnds
         \/ RemovalIsVerified \/ RouteIsSeen \/ RouteIsRestored
         \/ Boots \/ BootStarts \/ BootSeesRoute \/ BootConnects
  PROVE  /\ Idles \/ Typed
         /\ RuntimeStep /\ alive' \in BOOLEAN /\ TxTyped(tx') /\ (tx' # None => alive')
<1> USE DEF Idles, integrationVars, userVars, RuntimeStep
<1>0. disk \in Disks /\ alive \in BOOLEAN /\ TxTyped(tx) /\ TxTyped(None)
      /\ (tx # None => tx \in Operations /\ alive)
  BY DEF TypeInv, FilesTyped, LauncherTyped, TxTyped
<1>1. \A s \in Steps : tx # None /\ Goes(s) => TxTyped(tx')
  BY <1>0, GoesTyped
<1>2. CASE PreflightEnds
  BY <1>0, <1>1, <1>2 DEF PreflightEnds, Waits, At, Idle, Over, Steps
<1>3. CASE SetupStops
  <2>1. tx.mode \in Modes /\ tx \in Operations
    BY <1>0, <1>3 DEF SetupStops, At, TxTyped
  <2>2. Typed
    BY <1>0, <1>3, <2>1, CommandsTyped DEF SetupStops
  <2>3. TxTyped(tx')
    BY <1>0, <1>3, <2>1 DEF SetupStops, TxTyped, Operations, Steps
  <2> QED BY <1>0, <1>3, <2>2, <2>3 DEF SetupStops, At
<1>4. CASE SetupCannotStop
  <2>1. Checkpoint \in Seq(Files)
    BY DEF Checkpoint, Files
  <2>2. TxTyped(tx')
    BY <1>0, <1>4, <2>1 DEF SetupCannotStop, At, TxTyped, Operations, Steps
  <2> QED BY <1>0, <1>4, <2>2 DEF SetupCannotStop, At, Idle
<1>5. CASE CommandEnds
  BY <1>0, <1>1, <1>5 DEF CommandEnds, Waits, At, Idle, Steps
<1>6. CASE SetupStarts
  BY <1>0, <1>1, <1>6 DEF SetupStarts, At, Idle, Steps
<1>7. CASE BrowserCommits
  BY <1>0, <1>1, <1>7 DEF BrowserCommits, At, Idle, Over, Steps
<1>8. CASE RollsBack
  <2>1. Checkpoint \in Seq(Files)
    BY DEF Checkpoint, Files
  <2>2. TxTyped(tx')
    BY <1>0, <1>8, <2>1 DEF RollsBack, At, TxTyped, Operations, Steps
  <2> QED BY <1>0, <1>8, <2>2 DEF RollsBack, At, Idle
<1>9. CASE RestoreEnds
  BY <1>0, <1>1, <1>9 DEF RestoreEnds, At, Idle, Steps
<1>10. CASE RecoversRuntime
  BY <1>0, <1>10 DEF RecoversRuntime, Over, Idle
<1>11. CASE UninstallBegins
  <2>1. TxTyped(tx')
    BY <1>0, <1>11, OperationTyped DEF UninstallBegins, TxTyped, Steps
  <2> QED BY <1>0, <1>11, <2>1 DEF UninstallBegins, Idle
<1>12. CASE UninstallStops
  BY <1>0, <1>1, <1>12, CommandsTyped DEF UninstallStops, At, Steps
<1>13. CASE UninstallCannotStop
  BY <1>0, <1>1, <1>13, CommandsTyped DEF UninstallCannotStop, At, Steps
<1>14. CASE RemoveEnds
  BY <1>0, <1>1, <1>14, CommandsTyped DEF RemoveEnds, Waits, At, Steps
<1>15. CASE RemovalIsVerified
  BY <1>0, <1>1, <1>15, CommandsTyped DEF RemovalIsVerified, Waits, At, Over, Steps
<1>16. CASE RouteIsSeen
  BY <1>0, <1>1, <1>16, CommandsTyped DEF RouteIsSeen, Waits, At, Over, Steps
<1>17. CASE RouteIsRestored
  BY <1>0, <1>17 DEF RouteIsRestored, Over, Idle
<1>18. CASE Boots
  <2>1. TxTyped(tx')
    BY <1>0, <1>18, OperationTyped DEF Boots, TxTyped, Steps
  <2> QED BY <1>0, <1>18, <2>1 DEF Boots, Idle
<1>19. CASE BootStarts
  BY <1>0, <1>1, <1>19, CommandsTyped DEF BootStarts, At, Steps
<1>20. CASE BootSeesRoute
  BY <1>0, <1>1, <1>20, CommandsTyped DEF BootSeesRoute, Waits, At, Over, Steps
<1>21. CASE BootConnects
  BY <1>0, <1>1, <1>21, CommandsTyped DEF BootConnects, Waits, At, Over, Steps
<1> QED BY <1>2, <1>3, <1>4, <1>5, <1>6, <1>7, <1>8, <1>9, <1>10, <1>11, <1>12, <1>13, <1>14,
           <1>15, <1>16, <1>17, <1>18, <1>19, <1>20, <1>21

(* A write of a command: its types, and what becomes of the command.         *)
LEMMA WriteTyped ==
  ASSUME FilesTyped, SetupAssumption, Write
  PROVE  LET w == job.batches[1]
         IN  /\ disk' \in Disks /\ job' \in Jobs /\ disk' = [disk EXCEPT ![w[1][1]] = w[1][2]]
             /\ Len(w) > 1 => Advances(job, job')
             /\ ~(Len(w) > 1) => Turns(job, disk', job')
<1> DEFINE w == job.batches[1]
<1>1. disk \in Disks /\ job \in Jobs /\ job.batches \in Seq(Batches) /\ job.batches # <<>>
  BY JobParts DEF FilesTyped, Write
<1>2. Head(job.batches) = w /\ w \in Seq(Orders) /\ w # <<>> /\ Tail(job.batches) \in Seq(Batches)
      /\ 1 \in 1..Len(job.batches)
  <2>1. \A bs \in Seq(Batches) : bs # <<>> =>
          /\ Head(bs) = bs[1] /\ bs[1] \in Batches /\ Tail(bs) \in Seq(Batches) /\ 1 \in 1..Len(bs)
    OBVIOUS
  <2>2. /\ Head(job.batches) = w /\ w \in Batches /\ Tail(job.batches) \in Seq(Batches)
        /\ 1 \in 1..Len(job.batches)
    BY <1>1, <2>1, Zenon
  <2> QED BY <2>2 DEF Batches
<1>3. Len(w) \in Nat \ {0} /\ w[1] \in Orders
  BY <1>2
<1>4. w[1][1] \in Files /\ w[1][2] \in Holds(w[1][1])
  BY <1>3, OrderParts
<1>5. disk' = [disk EXCEPT ![w[1][1]] = w[1][2]]
  BY <1>2 DEF Write, Put
<1>6. disk' \in Disks
  BY <1>1, <1>4, <1>5, PutTyped
<1>7. CASE Len(w) > 1
  <2>1. job' = [job EXCEPT !.batches[1] = Tail(w), !.done = Append(@, w[1][1])]
    BY <1>2, <1>7 DEF Write
  <2>2. Tail(w) \in Batches
    <3>1. Tail(w) \in Seq(Orders) /\ Len(Tail(w)) = Len(w) - 1
      <4> HIDE DEF w
      <4> QED BY <1>2
    <3>2. Len(Tail(w)) # 0
      <4> HIDE DEF w
      <4> QED BY <3>1, <1>3, <1>7
    <3>3. Tail(w) # <<>>
      <4>1. Len(<<>>) = 0
        OBVIOUS
      <4> HIDE DEF w
      <4> QED BY <3>2, <4>1, Zenon
    <3> HIDE DEF w
    <3> QED BY <3>1, <3>3 DEF Batches
  <2>3. [job.batches EXCEPT ![1] = Tail(w)] \in Seq(Batches)
    <3> HIDE DEF w
    <3> QED BY <1>1, <1>2, <2>2
  <2>4. Append(job.done, w[1][1]) \in Seq(Files)
    BY <1>1, <1>4, JobParts
  <2>6. ~job.failing
    BY DEF Write
  <2>7. job.failing = FALSE
    BY <2>6, <1>1, JobParts
  <2> HIDE DEF w
  <2>5. job' \in Jobs
    BY <1>1, <2>1, <2>3, <2>4 DEF Jobs
  <2>8. Advances(job, job')
    <3> DEFINE bs == [job.batches EXCEPT ![1] = Tail(w)]
               ds == Append(job.done, w[1][1])
    <3>1. job' = [job EXCEPT !.batches = bs, !.done = ds]
      BY <2>1
    <3> HIDE DEF bs, ds
    <3>2. /\ job'.name = job.name /\ job'.before = job.before /\ job'.found = job.found
          /\ job'.batches = bs /\ job'.done = ds
          /\ job'.repairing = job.repairing /\ job'.failing = job.failing
      BY <1>1, <3>1 DEF Jobs
    <3> QED BY <2>7, <3>2 DEF Advances, bs, ds, w
  <2> QED BY <1>5, <1>6, <1>7, <2>5, <2>8 DEF w
<1>8. CASE ~(Len(w) > 1)
  <2> DEFINE bs == Tail(job.batches)
             b == IF Guarded THEN job.before ELSE disk'
             k == IF job.repairing THEN disk' ELSE job.found
  <2>1. job' = [job EXCEPT !.batches = bs, !.done = <<>>, !.repairing = FALSE, !.before = b, !.found = k]
    BY <1>2, <1>8 DEF Write
  <2>2. <<>> \in Seq(Files) /\ FALSE \in BOOLEAN
    OBVIOUS
  <2>3. bs \in Seq(Batches) /\ b \in Disks /\ k \in Disks
    BY <1>1, <1>2, <1>6, JobParts
  <2>4. job.failing = FALSE
    <3>1. ~job.failing
      BY DEF Write
    <3> QED BY <3>1, <1>1, JobParts
  <2> HIDE DEF bs, b, k
  <2>5. job' \in Jobs
    BY <1>1, <2>1, <2>2, <2>3 DEF Jobs
  <2>6. /\ job'.name = job.name /\ job'.before = b /\ job'.found = k
        /\ job'.batches = bs /\ job'.done = <<>> /\ job'.repairing = FALSE /\ job'.failing = job.failing
    BY <1>1, <2>1 DEF Jobs
  <2>7. Turns(job, disk', job')
    BY <2>4, <2>6 DEF Turns, Guarded, bs, b, k
  <2> HIDE DEF w
  <2> QED BY <1>5, <1>6, <1>8, <2>5, <2>7 DEF w
<1> QED BY <1>7, <1>8

(* A failed write.                                                           *)
LEMMA WriteFailsTyped ==
  ASSUME FilesTyped, SetupAssumption, WriteFails
  PROVE  disk' = disk /\ job' \in Jobs /\ Fails(job, job')
<1>1. job \in Jobs /\ Five \in Seq(Files) /\ <<>> \in Seq(Files)
  BY DEF FilesTyped, WriteFails, Five, Files
<1> DEFINE f == IF Guarded THEN Five ELSE <<>>
           u == Reverse(job.done) \o f
<1>2. job' = [job EXCEPT !.failing = TRUE, !.undo = u] /\ disk' = disk
  BY DEF WriteFails, Five
<1>3. Reverse(job.done) \in Seq(Files) /\ f \in Seq(Files)
  BY <1>1, JobParts DEF Reverse
<1>4. u \in Seq(Files)
  <2> HIDE DEF f
  <2> QED BY <1>3
<1> HIDE DEF u
<1>5. job' \in Jobs
  BY <1>1, <1>2, <1>4 DEF Jobs
<1>6. /\ job'.name = job.name /\ job'.before = job.before /\ job'.found = job.found
      /\ job'.batches = job.batches /\ job'.done = job.done /\ job'.repairing = job.repairing
      /\ job'.failing = TRUE /\ job'.undo = u
  BY <1>1, <1>2 DEF Jobs
<1> QED BY <1>2, <1>5, <1>6 DEF Fails, Guarded, u

(* A file that is undone, or that cannot be.                                 *)
LEMMA UndoTyped ==
  ASSUME FilesTyped, SetupAssumption, Undo \/ UndoFails
  PROVE  LET f == Head(job.undo)
         IN  /\ job' \in Jobs /\ Undoes(job, job') /\ disk' \in Disks /\ job.failing /\ job.undo # <<>>
             /\ Undo => disk' = [disk EXCEPT ![f] = job.before[f]]
<1>1. job \in Jobs /\ disk \in Disks /\ job.failing /\ job.undo # <<>>
  BY DEF FilesTyped, Undo, UndoFails
<1>2. Head(job.undo) \in Files /\ Tail(job.undo) \in Seq(Files)
  BY <1>1, JobParts
<1>3. job.before[Head(job.undo)] \in Holds(Head(job.undo))
  BY <1>1, <1>2, JobParts DEF Disks
<1>4. disk' \in Disks
  BY <1>1, <1>2, <1>3, PutTyped DEF Undo, UndoFails, Put
<1> DEFINE u == Tail(job.undo)
<1>5. job' = [job EXCEPT !.undo = u]
  BY DEF Undo, UndoFails
<1> HIDE DEF u
<1>6. job' \in Jobs
  BY <1>1, <1>2, <1>5 DEF Jobs, u
<1>7. /\ job'.name = job.name /\ job'.before = job.before /\ job'.found = job.found
      /\ job'.batches = job.batches /\ job'.done = job.done /\ job'.repairing = job.repairing
      /\ job'.failing = job.failing /\ job'.undo = u
  BY <1>1, <1>5 DEF Jobs
<1>8. Undoes(job, job')
  BY <1>7 DEF Undoes, u
<1> QED BY <1>1, <1>4, <1>6, <1>8 DEF Undo, Put

(* A write, a failure or an undone write, by types.                          *)
LEMMA WorkTyped ==
  ASSUME FilesTyped, SetupAssumption, Write \/ WriteFails \/ Undo
  PROVE  disk \in Disks /\ job \in Jobs /\ job # None /\ disk' \in Disks /\ job' \in Jobs /\ job' # None
<1>0. disk \in Disks /\ job \in Jobs /\ job # None /\ None \notin Jobs
  BY DEF FilesTyped, SetupAssumption, Write, WriteFails, Undo
<1>1. disk' \in Disks /\ job' \in Jobs
  BY <1>0, WriteTyped, WriteFailsTyped, UndoTyped
<1> QED BY <1>0, <1>1

(* A step of a command keeps the types of the files.                         *)
LEMMA ProcessTyped ==
  ASSUME FilesTyped, SetupAssumption, ProcessStep
  PROVE  FilesTyped'
<1> USE DEF userVars
<1>0. disk \in Disks /\ job \in Jobs /\ faults \in 0..MaxFaults /\ MaxFaults \in Nat
  BY DEF FilesTyped, SetupAssumption, ProcessStep, Write, WriteFails, Undo, UndoFails, Ends, Dies
<1>1. Write \/ WriteFails \/ Undo => disk' \in Disks /\ job' \in Jobs
  BY WorkTyped
<1>2. faults < MaxFaults /\ faults' = faults + 1 => faults' \in 0..MaxFaults
  BY <1>0
<1>3. CASE Write
  BY <1>1, <1>3 DEF Write, FilesTyped
<1>4. CASE WriteFails
  BY <1>1, <1>2, <1>4 DEF WriteFails, FilesTyped
<1>5. CASE Undo
  BY <1>1, <1>5 DEF Undo, FilesTyped
<1>6. CASE UndoFails
  <2>2. job' \in Jobs
    BY <1>6, UndoTyped
  <2> QED BY <1>2, <1>6, <2>2 DEF UndoFails, FilesTyped
<1>7. CASE Ends
  BY <1>7 DEF Ends, FilesTyped
<1>8. CASE Dies
  BY <1>2, <1>8 DEF Dies, FilesTyped
<1> QED BY <1>3, <1>4, <1>5, <1>6, <1>7, <1>8 DEF ProcessStep

(* What the constants keep apart.                                            *)
LEMMA Apart ==
  ASSUME SetupAssumption
  PROVE  /\ NoneApart /\ None \notin AppConfig /\ None \notin {"bridge", "own"}
         /\ None \notin Jobs /\ None \notin Operations /\ None \notin {"ok", "failed"}
         /\ MaxEdits \in Nat /\ MaxFaults \in Nat /\ FirstLines \subseteq UserLines
BY DEF SetupAssumption, NoneApart

(* One edit, as the lemma of the fit sees it.                                *)
EditStep(c, q) ==
  /\ c \in Lines \cup {None} /\ q \in UserLines /\ EditOf(c, Text, own, q)
  /\ q.realtime = Ours => own.realtime = Ours
  /\ Edit(c, q)

(* The user edits one line.                                                  *)
LEMMA EditParts ==
  ASSUME SetupAssumption, FilesTyped, UserEdits
  PROVE  \E c \in Lines \cup {None}, q \in UserLines : EditStep(c, q)
<1>0. Text \in Lines /\ own \in UserLines /\ own \in Lines /\ NoneApart
  BY Apart, Reading, TextTyped, DiskParts, UserParts DEF FilesTyped
<1>1. Text.marker \in BOOLEAN /\ Text.hook \in {None, Ours, Edited}
  BY <1>0, LineParts
<1>2. ASSUME NEW u \in Urls \cup {None}, Edit([Text EXCEPT !.base = u], [own EXCEPT !.base = u])
      PROVE  EditStep([Text EXCEPT !.base = u], [own EXCEPT !.base = u])
  <2> DEFINE c == [Text EXCEPT !.base = u]
             q == [own EXCEPT !.base = u]
  <2>1. /\ c \in Lines /\ c.base = u /\ c.realtime = Text.realtime /\ c.feature = Text.feature
        /\ c.marker = Text.marker
    BY <1>0 DEF Lines
  <2>2. u # Ours
    BY <1>0 DEF NoneApart
  <2>3. /\ q \in UserLines /\ q.base = u /\ q.realtime = own.realtime /\ q.feature = own.feature
        /\ q.marker = FALSE
    BY <1>0, <2>2 DEF UserLines, Lines
  <2> HIDE DEF c, q
  <2>4. EditOf(c, Text, own, q)
    BY <1>1, <2>1, <2>2, <2>3 DEF EditOf
  <2> QED BY <1>2, <2>1, <2>3, <2>4 DEF EditStep, c, q
<1>3. ASSUME NEW v \in {None, User}, Edit([Text EXCEPT !.realtime = v], [own EXCEPT !.realtime = v])
      PROVE  EditStep([Text EXCEPT !.realtime = v], [own EXCEPT !.realtime = v])
  <2> DEFINE c == [Text EXCEPT !.realtime = v]
             q == [own EXCEPT !.realtime = v]
  <2>1. /\ c \in Lines /\ c.realtime = v /\ c.base = Text.base /\ c.feature = Text.feature
        /\ c.marker = Text.marker
    BY <1>0 DEF Lines
  <2>2. v # Ours
    BY <1>0 DEF NoneApart
  <2>3. /\ q \in UserLines /\ q.realtime = v /\ q.base = own.base /\ q.feature = own.feature
        /\ q.marker = FALSE
    BY <1>0 DEF UserLines, Lines
  <2> HIDE DEF c, q
  <2>4. EditOf(c, Text, own, q)
    BY <1>1, <2>1, <2>2, <2>3 DEF EditOf
  <2> QED BY <1>3, <2>1, <2>2, <2>3, <2>4 DEF EditStep, c, q
<1>4. ASSUME NEW v \in {None, User}, Edit([Text EXCEPT !.feature = v], [own EXCEPT !.feature = v])
      PROVE  EditStep([Text EXCEPT !.feature = v], [own EXCEPT !.feature = v])
  <2> DEFINE c == [Text EXCEPT !.feature = v]
             q == [own EXCEPT !.feature = v]
  <2>1. /\ c \in Lines /\ c.feature = v /\ c.base = Text.base /\ c.realtime = Text.realtime
        /\ c.marker = Text.marker
    BY <1>0 DEF Lines
  <2>2. v # Ours
    BY <1>0 DEF NoneApart
  <2>3. /\ q \in UserLines /\ q.feature = v /\ q.base = own.base /\ q.realtime = own.realtime
        /\ q.marker = FALSE
    BY <1>0, <2>2 DEF UserLines, Lines
  <2> HIDE DEF c, q
  <2>4. EditOf(c, Text, own, q)
    BY <1>1, <2>1, <2>2, <2>3 DEF EditOf
  <2> QED BY <1>4, <2>1, <2>2, <2>3, <2>4 DEF EditStep, c, q
<1>5. \A c \in Lines : /\ c.base = Text.base /\ c.realtime = Text.realtime /\ c.feature = Text.feature
                       /\ c.marker = Text.marker \/ c.marker = FALSE
                       /\ Edit(c, own)
                       => EditStep(c, own)
  BY <1>0, <1>1, UserParts DEF EditStep, EditOf
<1>6. ASSUME NEW v \in {None, Edited}, Edit([Text EXCEPT !.hook = v], own)
      PROVE  EditStep([Text EXCEPT !.hook = v], own)
  <2> DEFINE c == [Text EXCEPT !.hook = v]
  <2>1. /\ c \in Lines /\ c.base = Text.base /\ c.realtime = Text.realtime /\ c.feature = Text.feature
        /\ c.marker = Text.marker
    BY <1>0 DEF Lines
  <2> HIDE DEF c
  <2> QED BY <1>5, <1>6, <2>1 DEF c
<1>7. ASSUME Edit([Text EXCEPT !.marker = FALSE], own)
      PROVE  EditStep([Text EXCEPT !.marker = FALSE], own)
  <2> DEFINE c == [Text EXCEPT !.marker = FALSE]
  <2>1. /\ c \in Lines /\ c.base = Text.base /\ c.realtime = Text.realtime /\ c.feature = Text.feature
        /\ c.marker = FALSE
    BY <1>0 DEF Lines
  <2> HIDE DEF c
  <2> QED BY <1>5, <1>7, <2>1 DEF c
<1>8. ASSUME Edit(None, Blank)
      PROVE  EditStep(None, Blank)
  <2>1. Blank \in UserLines /\ Blank.realtime # Ours
    BY <1>0, BlankTyped DEF UserLines, Blank, NoneApart
  <2> QED BY <1>8, <2>1 DEF EditStep, EditOf
<1>9. \A c, q : EditStep(c, q) => c \in Lines \cup {None} /\ q \in UserLines
  BY DEF EditStep
<1> QED BY <1>2, <1>3, <1>4, <1>6, <1>7, <1>8, <1>9 DEF UserEdits

(* By types.                                                                 *)
LEMMA EditTyped ==
  ASSUME SetupAssumption, FilesTyped, UserEdits
  PROVE  FilesTyped'
<1>1. PICK c \in Lines \cup {None}, q \in UserLines : EditStep(c, q)
  BY EditParts
<1>2. /\ disk' = [disk EXCEPT !["config"] = c] /\ own' = q /\ edits' = edits + 1 /\ edits < MaxEdits
      /\ UNCHANGED <<ambiguous, job, exit, faults, broken>>
  BY <1>1 DEF EditStep, Edit, Put
<1>3. disk' \in Disks
  BY <1>2, PutTyped, HoldsParts DEF FilesTyped, Files
<1>4. edits' \in 0..MaxEdits
  BY <1>2, Apart DEF FilesTyped
<1> QED BY <1>2, <1>3, <1>4 DEF FilesTyped

(* A file of the checkpoint is done with.                                    *)
LEMMA TodoTyped ==
  ASSUME TxTyped(tx), tx \in Operations, tx # None, Tail(tx.todo) \in Seq(Files),
         tx' = [tx EXCEPT !.todo = Tail(@)]
  PROVE  TxTyped(tx')
<1> DEFINE s == Tail(tx.todo)
<1>1. tx' = [tx EXCEPT !.todo = s] /\ s \in Seq(Files)
  OBVIOUS
<1> HIDE DEF s
<1>2. tx' \in Operations /\ tx'.name = tx.name /\ tx'.mode = tx.mode
  BY <1>1 DEF Operations
<1>3. tx.name = "setup" => tx.mode \in Modes
  BY DEF TxTyped
<1> QED BY <1>2, <1>3 DEF TxTyped

(* Every step keeps the types.                                               *)
LEMMA TypeInvNext ==
  ASSUME SetupAssumption, TypeInv, [Next]_vars
  PROVE  TypeInv'
<1> USE DEF userVars
<1>0. /\ FilesTyped /\ LauncherTyped /\ disk \in Disks /\ faults \in 0..MaxFaults /\ MaxFaults \in Nat
      /\ TxTyped(tx) /\ (tx # None => tx \in Operations /\ alive) /\ alive \in BOOLEAN
  BY Apart DEF TypeInv, FilesTyped, LauncherTyped, TxTyped
<1>1. Idles => FilesTyped'
  BY <1>0 DEF Idles, integrationVars, FilesTyped
<1>2. Typed => FilesTyped'
  BY <1>0 DEF Typed, FilesTyped
<1>3. faults < MaxFaults /\ faults' = faults + 1 => faults' \in 0..MaxFaults
  BY <1>0
<1>4. UNCHANGED launcherVars => LauncherTyped'
  BY <1>0 DEF launcherVars, LauncherTyped
<1>5. ASSUME NEW mode \in Modes, NEW r \in BOOLEAN, SetupBegins(mode, r)
      PROVE  TypeInv'
  <2>1. Typed
    BY <1>0, <1>5, CommandsTyped DEF SetupBegins
  <2>2. TxTyped(tx')
    <3>1. Begun(tx', mode, r)
      BY <1>5 DEF SetupBegins, Begun
    <3> QED BY <1>0, <3>1, SetupOperation DEF TxTyped
  <2> QED BY <1>0, <1>2, <1>5, <2>1, <2>2 DEF SetupBegins, TypeInv, LauncherTyped
<1>6. ASSUME \/ PreflightEnds \/ SetupStops \/ SetupCannotStop \/ CommandEnds \/ SetupStarts
             \/ BrowserCommits \/ RollsBack \/ RestoreEnds \/ RecoversRuntime
             \/ UninstallBegins \/ UninstallStops \/ UninstallCannotStop \/ RemoveEnds
             \/ RemovalIsVerified \/ RouteIsSeen \/ RouteIsRestored
             \/ Boots \/ BootStarts \/ BootSeesRoute \/ BootConnects
      PROVE  TypeInv'
  <2>1. /\ Idles \/ Typed
        /\ RuntimeStep /\ alive' \in BOOLEAN /\ TxTyped(tx') /\ (tx' # None => alive')
    BY <1>6, LauncherKinds
  <2> QED BY <1>1, <1>2, <2>1, RuntimeTyped DEF TypeInv, LauncherTyped
<1>7. CASE RestoresFile
  <2>1. tx \in Operations /\ tx.checkpoint \in Disks /\ tx.todo \in Seq(Files) /\ tx.todo # <<>>
    BY <1>0, <1>7 DEF RestoresFile, At, Operations
  <2>2. Head(tx.todo) \in Files /\ Tail(tx.todo) \in Seq(Files)
    BY <2>1
  <2>3. tx.checkpoint[Head(tx.todo)] \in Holds(Head(tx.todo))
    BY <2>1, <2>2 DEF Disks
  <2>4. disk' \in Disks
    BY <1>0, <1>7, <2>2, <2>3, PutTyped DEF RestoresFile, Put
  <2>5. TxTyped(tx')
    BY <1>0, <1>7, <2>1, <2>2, TodoTyped DEF RestoresFile, At
  <2> QED BY <1>0, <1>7, <2>4, <2>5 DEF RestoresFile, At, TypeInv, FilesTyped, LauncherTyped
<1>8. CASE RestoreFails
  <2>1. tx \in Operations /\ tx.todo \in Seq(Files) /\ tx.todo # <<>>
    BY <1>0, <1>8 DEF RestoreFails, At, Operations
  <2>2. Tail(tx.todo) \in Seq(Files)
    BY <2>1
  <2>3. TxTyped(tx')
    BY <1>0, <1>8, <2>1, <2>2, TodoTyped DEF RestoreFails, At
  <2> QED BY <1>0, <1>3, <1>8, <2>3 DEF RestoreFails, At, TypeInv, FilesTyped, LauncherTyped
<1>9. CASE LauncherDies
  BY <1>0, <1>3, <1>9 DEF LauncherDies, Over, TypeInv, FilesTyped, LauncherTyped, TxTyped
<1>10. CASE LauncherQuits
  <2>1. runtime' \in Modes \cup {None} /\ orphan' \in BOOLEAN
    BY <1>10, RuntimeTyped DEF LauncherQuits, RuntimeStep
  <2>2. FilesTyped'
    BY <1>1, <1>10 DEF LauncherQuits, Idle, Idles, integrationVars
  <2> QED BY <1>0, <1>10, <2>1, <2>2 DEF LauncherQuits, Over, TypeInv, LauncherTyped, TxTyped
<1>11. CASE Outside
  <2>1. LauncherTyped'
    BY <1>4, <1>11 DEF Outside
  <2>2. Connect \/ Disconnect \/ (\E p \in Protocols : Subagents(p)) => Typed
    BY <1>0, CommandsTyped
  <2>3. UserEdits => FilesTyped'
    BY <1>0, EditTyped
  <2> QED BY <1>2, <1>11, <2>1, <2>2, <2>3 DEF Outside, TypeInv
<1>12. CASE CodexReads /\ UNCHANGED launcherVars
  <2>1. RouteOf(Text) \in Holds("cache")
    BY HoldsParts DEF RouteOf
  <2>2. disk' \in Disks
    BY <1>0, <1>12, <2>1, PutTyped DEF CodexReads, Put, Files
  <2>3. FilesTyped'
    BY <1>0, <1>12, <2>2 DEF CodexReads, FilesTyped
  <2> QED BY <1>4, <1>12, <2>3 DEF TypeInv
<1>13. CASE ProcessStep /\ UNCHANGED launcherVars
  BY <1>0, <1>4, <1>13, ProcessTyped DEF TypeInv
<1>14. CASE UNCHANGED vars
  <2>1. Idles /\ UNCHANGED launcherVars
    BY <1>14 DEF vars, Idles
  <2> QED BY <1>1, <1>4, <2>1 DEF TypeInv
<1> QED BY <1>5, <1>6, <1>7, <1>8, <1>9, <1>10, <1>11, <1>12, <1>13, <1>14 DEF Next

(* The first files.                                                          *)
LEMMA FirstFiles ==
  ASSUME SetupAssumption, Init
  PROVE  /\ disk \in Disks /\ own \in UserLines /\ own \in Lines
         /\ disk["config"] = own /\ disk["app"] = None /\ disk["primary"] = None
         /\ disk["recovery"] = None /\ disk["cache"] = None
<1>1. own \in UserLines /\ own \in Lines
  BY Apart, UserParts DEF Init, IntegrationInit
<1>2. disk = [f \in Files |-> IF f = "config" THEN own ELSE None]
  BY DEF Init, IntegrationInit
<1>3. /\ disk["config"] = own /\ disk["app"] = None /\ disk["primary"] = None
      /\ disk["recovery"] = None /\ disk["cache"] = None
  BY <1>2 DEF Files
<1>4. \A f \in Files : disk[f] \in Holds(f)
  BY <1>1, <1>3, HoldsParts DEF Files
<1>5. \A f \in Files : disk[f] \in Contents
  BY <1>4 DEF Contents
<1>6. disk \in [Files -> Contents]
  BY <1>2, <1>5
<1>7. disk \in Disks
  BY <1>4, <1>6 DEF Disks
<1> QED BY <1>1, <1>3, <1>7

(* The types hold at first.                                                  *)
LEMMA TypeInvInit ==
  ASSUME SetupAssumption, Init
  PROVE  TypeInv
<1>1. disk \in Disks /\ own \in UserLines
  BY FirstFiles
<1>2. edits \in 0..MaxEdits /\ faults \in 0..MaxFaults
  BY Apart DEF Init, IntegrationInit
<1> QED BY <1>1, <1>2 DEF Init, IntegrationInit, TypeInv, FilesTyped, LauncherTyped, TxTyped

-----------------------------------------------------------------------------
(* A rollback.                                                               *)

(* The files of a rollback, after the first i of them.                       *)
LEMMA RestoredParts ==
  ASSUME NEW d, NEW b, NEW i \in 0..5
  PROVE  LET x == Restored(d, b, Checkpoint, i)
         IN  /\ x["config"] = IF i < 2 THEN d["config"] ELSE b["config"]
             /\ x["recovery"] = IF i < 3 THEN d["recovery"] ELSE b["recovery"]
             /\ x["primary"] = IF i < 4 THEN d["primary"] ELSE b["primary"]
             /\ x["app"] = IF i < 5 THEN d["app"] ELSE b["app"]
             /\ i = 5 => x["cache"] = b["cache"]
<1> DEFINE u == Checkpoint
<1>1. /\ u[1] = "cache" /\ u[2] = "config" /\ u[3] = "recovery" /\ u[4] = "primary" /\ u[5] = "app"
  BY DEF Checkpoint
<1>2. 1..5 = {1, 2, 3, 4, 5} /\ \A l \in 1..i : l \in 1..5
  OBVIOUS
<1> HIDE DEF u
<1>3. \A l \in 1..i : l \in {1, 2, 3, 4, 5}
  BY <1>2
<1>4. ASSUME NEW f \in Files, NEW n \in 1..5, u[n] = f
      PROVE  (\E l \in 1..i : u[l] = f) <=> ~(i < n)
  <2>1. \A l \in 1..5 : u[l] = f => l = n
    BY <1>1, <1>2, <1>4
  <2>2. ASSUME NEW l \in 1..i, u[l] = f
        PROVE  ~(i < n)
    <3>1. l = n
      BY <1>2, <2>1, <2>2
    <3> QED BY <3>1
  <2>3. ~(i < n) => n \in 1..i
    OBVIOUS
  <2> QED BY <2>2, <2>3, <1>4
<1>5. /\ "config" \in Files /\ "recovery" \in Files /\ "primary" \in Files /\ "app" \in Files
      /\ "cache" \in Files /\ 1 \in 1..5 /\ 2 \in 1..5 /\ 3 \in 1..5 /\ 4 \in 1..5 /\ 5 \in 1..5
  BY DEF Files
<1>6. /\ (\E l \in 1..i : u[l] = "config") <=> ~(i < 2)
      /\ (\E l \in 1..i : u[l] = "recovery") <=> ~(i < 3)
      /\ (\E l \in 1..i : u[l] = "primary") <=> ~(i < 4)
      /\ (\E l \in 1..i : u[l] = "app") <=> ~(i < 5)
      /\ (\E l \in 1..i : u[l] = "cache") <=> ~(i < 1)
  BY <1>1, <1>4, <1>5
<1>7. i = 5 => ~(i < 1)
  OBVIOUS
<1> QED BY <1>5, <1>6, <1>7 DEF Restored, u

(* The disks whose files fit.                                                *)
Fitting(o, a, m) == {y \in Disks : Safe(y, o, a, m)}

(* What a rollback restores fits at each file.                               *)
LEMMA RollbackReturns ==
  ASSUME NEW o, NEW a, NEW m, Users(o, a, m), NEW d \in Disks, NEW k \in Disks,
         Safe(d, o, a, m), Safe(k, o, a, m), k["primary"] # k["recovery"] => m,
         ~Lost(k["primary"], k["recovery"], k["config"]),
         Since(d["primary"], d["recovery"], k["primary"], k["recovery"], k["config"], o, a, m),
         d["app"] = None => k["app"] = None
  PROVE  Returns(d, k, Checkpoint, Fitting(o, a, m))
<1> DEFINE p == d["primary"]
           r == d["recovery"]
           pk == k["primary"]
           rk == k["recovery"]
           c == TextOf(k["config"])
<1>1. Stand(pk, rk, k["config"], o, a, m)
  BY DiskParts DEF Safe, Users, Stand, CopyTypes
<1>2. Fit(p, r, c, o, a, m) /\ Fit(p, rk, c, o, a, m)
  BY <1>1, FitRolledBack
<1>3. Fit(pk, rk, c, o, a, m)
  BY DEF Safe
<1>4. d["app"] = None => p = None /\ r = None /\ pk = None /\ rk = None
  BY DEF Safe
<1>5. Fit(p, r, TextOf(d["config"]), o, a, m)
  BY DEF Safe
<1>6. ASSUME NEW i \in 0..5
      PROVE  Safe(Restored(d, k, Checkpoint, i), o, a, m)
  <2> DEFINE x == Restored(d, k, Checkpoint, i)
  <2>1. /\ x["config"] = IF i < 2 THEN d["config"] ELSE k["config"]
        /\ x["recovery"] = IF i < 3 THEN r ELSE rk
        /\ x["primary"] = IF i < 4 THEN p ELSE pk
        /\ x["app"] = IF i < 5 THEN d["app"] ELSE k["app"]
    BY RestoredParts
  <2> HIDE DEF x, p, r, pk, rk
  <2>2. \/ x["primary"] = p /\ x["recovery"] = r /\ x["config"] = d["config"]
        \/ x["primary"] = p /\ x["recovery"] = r /\ x["config"] = k["config"]
        \/ x["primary"] = p /\ x["recovery"] = rk /\ x["config"] = k["config"]
        \/ x["primary"] = pk /\ x["recovery"] = rk /\ x["config"] = k["config"]
    BY <2>1
  <2>3. Fit(x["primary"], x["recovery"], TextOf(x["config"]), o, a, m)
    BY <2>2, <1>2, <1>3, <1>5
  <2>4. x["app"] = None => x["primary"] = None /\ x["recovery"] = None
    <3>1. CASE i = 5
      <4>1. x["app"] = k["app"] /\ x["primary"] = pk /\ x["recovery"] = rk
        BY <2>1, <3>1
      <4> QED BY <4>1 DEF Safe, pk, rk
    <3>2. CASE i < 5
      <4>1. x["app"] = d["app"]
        BY <2>1, <3>2
      <4> QED BY <4>1, <2>2, <1>4
    <3> QED BY <3>1, <3>2
  <2> QED BY <2>3, <2>4 DEF Safe, x
<1>7. Len(Checkpoint) = 5
  BY DEF Checkpoint
<1>8. Restored(d, k, Checkpoint, 5) = k
  <2> DEFINE x == Restored(d, k, Checkpoint, 5)
  <2>1. /\ x["config"] = k["config"] /\ x["recovery"] = k["recovery"] /\ x["primary"] = k["primary"]
        /\ x["app"] = k["app"] /\ x["cache"] = k["cache"]
    <3>1. 5 \in 0..5 /\ ~(5 < 2) /\ ~(5 < 3) /\ ~(5 < 4) /\ ~(5 < 5)
      OBVIOUS
    <3> QED BY <3>1, RestoredParts
  <2>2. x \in Disks
    BY RestoredDisk
  <2> HIDE DEF x
  <2>3. \A f \in Files : x[f] = k[f]
    BY <2>1 DEF Files
  <2>4. x = k
    BY <2>2, <2>3, DiskFunction
  <2> QED BY <2>4 DEF x
<1>9. \A i \in 0..5 : Restored(d, k, Checkpoint, i) \in Fitting(o, a, m)
  BY <1>6, RestoredDisk DEF Fitting
<1> QED BY <1>7, <1>8, <1>9 DEF Returns

-----------------------------------------------------------------------------
(* The invariant.                                                            *)

Restoring(t) == t # None /\ t.at = "restore"
SetupOnly == {"preflight", "command", "commit", "rollback", "restore", "recover"}

(* What a setup t remembers and has reached.                                 *)
Remembers(d, jb, t, x, o, a, m, e) ==
  LET k == t.checkpoint
  IN  /\ t.at \in SetupOnly \cup {"stop", "start"}
      /\ jb # None => t.at \in {"preflight", "command"}
      /\ Safe(k, o, a, m) /\ (~m => Agree(k, e)) /\ Bound(d, t, o, a, m)
      /\ t.at # "preflight" \/ jb # None \/ x = "ok"
           => ~Lost(k["primary"], k["recovery"], k["config"])
      /\ t.at = "restore" => Returns(d, k, t.todo, Fitting(o, a, m))
      /\ t.at = "recover" => \A f \in Files \ {"cache"} : d[f] = k[f]

(* The protocol is being changed.                                            *)
Switching(jb) == jb # None /\ jb.name = "subagents"
USE DEF Switching

(* The files fit, or a change of the protocol has them split for a while;    *)
(* they agree while nothing is under way; a command passes through files     *)
(* that fit; a setup can be rolled back through such files.                  *)
Whole(d, jb, t, x, o, a, m, e) ==
  /\ Users(o, a, m) /\ (Safe(d, o, a, m) \/ (Switching(jb) /\ Split(d)))
  /\ jb = None /\ ~Restoring(t) /\ ~m => Agree(d, e)
  /\ jb # None => JobFits(jb, d, Safes(t, o, a, m), Torn, Settled(t, o, a, m, e))
  /\ Switching(jb) => Free(t)
  /\ t # None /\ t.at \in SetupOnly => t.name = "setup"
  /\ t # None /\ t.name = "setup" => Remembers(d, jb, t, x, o, a, m, e)

(* An operation that is no setup, at none of a setup's steps.                *)
Other(t) == t # None => t.name # "setup" /\ t.at \notin SetupOnly

(* It may begin, go on and end whenever no files are being restored.         *)
LEMMA OtherWhole ==
  ASSUME NEW d, NEW t, NEW x, NEW o, NEW a, NEW m, NEW e, Whole(d, None, t, x, o, a, m, e),
         ~Restoring(t), NEW s, Other(s), NEW y
  PROVE  Whole(d, None, s, y, o, a, m, e)
BY DEF Whole, Other, Restoring, SetupOnly

(* And so may its commands.                                                  *)
LEMMA IssuedWhole ==
  ASSUME NEW t, NEW x, NEW o, NEW a, NEW m, NEW e, Whole(disk, None, t, x, o, a, m, e),
         ~Restoring(t), NEW s, Other(s), Issues(s, o, a, m, e)
  PROVE  Whole(disk, job', s, exit', o, a, m, e)
<1>1. CASE job' = None
  BY <1>1, OtherWhole
<1>2. CASE job' # None
  BY <1>2 DEF Issues, Whole, Other
<1> QED BY <1>1, <1>2

(* A disk between commands is one a command may start on.                    *)
LEMMA WholeSettled ==
  ASSUME NEW d \in Disks, NEW t, NEW x, NEW o, NEW a, NEW m, NEW e, Whole(d, None, t, x, o, a, m, e),
         ~Restoring(t), NEW s, Other(s)
  PROVE  Free(s) /\ Users(o, a, m) /\ d \in Settled(s, o, a, m, e)
<1>1. Free(s)
  BY DEF Other, Free
<1>2. Users(o, a, m) /\ Safe(d, o, a, m) /\ (~m => Agree(d, e))
  BY DEF Whole
<1> QED BY <1>1, <1>2, SettledIn, FreeBound

(* A command outside a setup keeps the files whole.                          *)
LEMMA CommandsWhole ==
  ASSUME disk \in Disks, NEW t, NEW x, NEW o, NEW a, NEW m, NEW e, Whole(disk, None, t, x, o, a, m, e),
         ~Restoring(t), NEW s, Other(s),
         \/ Status \/ Disconnect \/ Connect \/ Uninstall \/ \E p \in Protocols : Subagents(p)
  PROVE  Whole(disk, job', s, exit', o, a, m, e)
<1>1. Free(s) /\ Users(o, a, m) /\ disk \in Settled(s, o, a, m, e)
  BY WholeSettled
<1>2. Issues(s, o, a, m, e)
  BY <1>1, CommandsIssue
<1> QED BY <1>2, IssuedWhole

(* A setup goes on between its steps.                                        *)
LEMMA SetupWhole ==
  ASSUME NEW d, NEW t, NEW x, NEW o, NEW a, NEW m, NEW e, Whole(d, None, t, x, o, a, m, e),
         t # None, t.name = "setup", NEW s, s # None, s.name = "setup", s.checkpoint = t.checkpoint,
         \/ t.at = "preflight" /\ x = "ok" /\ s.at = "stop"
         \/ /\ t.at \in {"command", "start", "commit", "rollback"}
            /\ s.at \in {"start", "commit", "rollback"}
  PROVE  Whole(d, None, s, x, o, a, m, e)
<1>1. Remembers(d, None, t, x, o, a, m, e) /\ (~m => Agree(d, e)) /\ Users(o, a, m) /\ Safe(d, o, a, m)
  BY DEF Whole, Restoring
<1>2. Bound(d, s, o, a, m)
  BY <1>1 DEF Remembers, Bound
<1>3. Remembers(d, None, s, x, o, a, m, e)
  BY <1>1, <1>2 DEF Remembers, SetupOnly
<1> QED BY <1>1, <1>3 DEF Whole, Restoring

(* More doubt after a death does the files no harm.                          *)
LEMMA SafeLater ==
  ASSUME NEW o, NEW a, NEW m, NEW k \in BOOLEAN, Users(o, a, m), m => k, NEW d, Safe(d, o, a, m)
  PROVE  Safe(d, o, a, k)
BY FitLater DEF Users, Safe

(* Nor to what a setup has reached.                                          *)
LEMMA BoundLater ==
  ASSUME NEW o, NEW a, NEW m, NEW k \in BOOLEAN, Users(o, a, m), m => k, NEW d, NEW t, Bound(d, t, o, a, m)
  PROVE  Bound(d, t, o, a, k)
<1>1. \A n : Keeper(n, o, a, m) => Keeper(n, o, a, k)
  BY DEF Keeper, Told, Users
<1>2. \A p, r, pk, rk, cf : Since(p, r, pk, rk, cf, o, a, m) => Since(p, r, pk, rk, cf, o, a, k)
  BY <1>1 DEF Since
<1> QED BY <1>2 DEF Bound

-----------------------------------------------------------------------------
(* The actions.                                                              *)

Now == Whole(disk, job, tx, exit, own, ambiguous, "death" \in broken, edits)

(* The files after a step.                                                   *)
Next1 == Whole(disk', job', tx', exit', own', ambiguous', "death" \in broken', edits')

(* A step that leaves the files alone ends or begins something else.         *)
LEMMA OtherIdles ==
  ASSUME Now, Idles, job = None, ~Restoring(tx), Other(tx')
  PROVE  Next1
<1>1. /\ disk' = disk /\ job' = None /\ exit' = exit /\ own' = own /\ ambiguous' = ambiguous
      /\ edits' = edits /\ broken' = broken
  BY DEF Idles, integrationVars, userVars
<1> DEFINE m == "death" \in broken
<1>2. Whole(disk, None, tx, exit, own, ambiguous, m, edits)
  BY DEF Now
<1> HIDE DEF m
<1>3. Whole(disk, None, tx', exit, own, ambiguous, m, edits)
  BY <1>2, OtherWhole
<1> QED BY <1>1, <1>3 DEF Next1, m

(* Or it issues a command.                                                   *)
LEMMA OtherCommands ==
  ASSUME TypeInv, Now, ~Restoring(tx), Other(tx'),
         \/ Status \/ Disconnect \/ Connect \/ Uninstall \/ \E p \in Protocols : Subagents(p)
  PROVE  Next1
<1>1. disk \in Disks
  BY DEF TypeInv, FilesTyped
<1>2. Typed
  BY <1>1, CommandsTyped
<1>3. /\ disk' = disk /\ job = None /\ own' = own /\ ambiguous' = ambiguous
      /\ edits' = edits /\ broken' = broken
  BY <1>2 DEF Typed, userVars
<1> DEFINE m == "death" \in broken
<1>4. Whole(disk, None, tx, exit, own, ambiguous, m, edits)
  BY <1>3 DEF Now
<1> HIDE DEF m
<1>5. Whole(disk, job', tx', exit', own, ambiguous, m, edits)
  BY <1>1, <1>4, CommandsWhole
<1> QED BY <1>3, <1>5 DEF Next1, m

(* The steps outside a setup.                                                *)
LEMMA OtherNext ==
  ASSUME TypeInv, Now,
         \/ RecoversRuntime \/ UninstallBegins \/ UninstallStops \/ UninstallCannotStop \/ RemoveEnds
         \/ RemovalIsVerified \/ RouteIsSeen \/ RouteIsRestored
         \/ Boots \/ BootStarts \/ BootSeesRoute \/ BootConnects \/ LauncherQuits
  PROVE  Next1
<1> USE DEF Idle, Over
<1>0. tx # None => tx \in Operations /\ alive
  BY DEF TypeInv, LauncherTyped, TxTyped
<1>1. tx # None => (tx.at \notin SetupOnly \cup {"stop", "start"} => tx.name # "setup")
  BY DEF Now, Whole, Remembers
<1>2. \A s \in Steps \ (SetupOnly \cup {"stop", "start"}) :
        tx # None /\ tx.name # "setup" /\ Goes(s) => Other(tx')
  BY <1>0, GoesParts DEF Goes, Other
<1>3. Other(None)
  BY DEF Other
<1>4. Restoring(tx) => tx.at = "restore" /\ tx # None
  BY DEF Restoring
<1>5. UNCHANGED <<disk, job, exit, userVars, edits, faults, broken>> => Idles
  BY DEF Idles, integrationVars, userVars
<1>6. {"remove", "verify", "status", "connecting", "route", "disconnect"}
         \subseteq Steps \ (SetupOnly \cup {"stop", "start"})
  BY DEF Steps, SetupOnly
<1>7. UNCHANGED integrationVars => Idles
  BY DEF Idles
<1>8. CASE RecoversRuntime
  BY <1>3, <1>4, <1>5, <1>8, OtherIdles DEF RecoversRuntime, At
<1>9. CASE UninstallBegins
  <2>1. Other(tx')
    <3>1. disk \in Disks /\ "stop" \in Steps /\ "stop" \notin SetupOnly
      BY DEF TypeInv, FilesTyped, Steps, SetupOnly
    <3>2. tx' = Operation("uninstall", "stop")
      BY <1>9 DEF UninstallBegins
    <3> QED BY <3>1, <3>2, OperationTyped DEF Other
  <2> QED BY <1>4, <1>5, <1>9, <2>1, OtherIdles DEF UninstallBegins
<1>10. CASE UninstallStops
  <2>1. tx # None /\ tx.name # "setup" /\ ~Restoring(tx) /\ Goes("remove") /\ Uninstall
    BY <1>4, <1>10 DEF UninstallStops, At
  <2> QED BY <1>2, <1>6, <2>1, OtherCommands
<1>11. CASE UninstallCannotStop
  <2>1. tx # None /\ tx.name # "setup" /\ ~Restoring(tx) /\ Goes("route") /\ Status
    BY <1>4, <1>11 DEF UninstallCannotStop, At
  <2> QED BY <1>2, <1>6, <2>1, OtherCommands
<1>12. CASE RemoveEnds
  <2>1. tx # None /\ tx.name # "setup" /\ ~Restoring(tx)
    BY <1>1, <1>4, <1>6, <1>12 DEF RemoveEnds, Waits, At
  <2>2. Status /\ (Goes("verify") \/ Goes("route"))
    BY <1>12 DEF RemoveEnds
  <2> QED BY <1>2, <1>6, <2>1, <2>2, OtherCommands
<1>13. CASE RemovalIsVerified
  <2>1. tx # None /\ job = None /\ tx.name # "setup" /\ ~Restoring(tx)
    BY <1>1, <1>4, <1>6, <1>13 DEF RemovalIsVerified, Waits, At
  <2>2. \/ tx' = None /\ Idles
        \/ Goes("route") /\ Status
    BY <1>7, <1>13 DEF RemovalIsVerified
  <2> QED BY <1>2, <1>3, <1>6, <2>1, <2>2, OtherCommands, OtherIdles
<1>14. CASE RouteIsSeen
  <2>1. tx # None /\ job = None /\ tx.name # "setup" /\ ~Restoring(tx)
    BY <1>1, <1>4, <1>6, <1>14 DEF RouteIsSeen, Waits, At
  <2>2. \/ tx' = None /\ Idles
        \/ Goes("disconnect") /\ Disconnect
    BY <1>7, <1>14 DEF RouteIsSeen
  <2> QED BY <1>2, <1>3, <1>6, <2>1, <2>2, OtherCommands, OtherIdles
<1>15. CASE RouteIsRestored
  BY <1>3, <1>4, <1>5, <1>15, OtherIdles DEF RouteIsRestored, Waits, At
<1>16. CASE Boots
  <2>1. tx = None
    BY <1>0, <1>16 DEF Boots
  <2>2. Other(tx')
    <3>1. disk \in Disks /\ "start" \in Steps /\ "start" \notin SetupOnly
      BY DEF TypeInv, FilesTyped, Steps, SetupOnly
    <3>2. tx' = Operation("boot", "start")
      BY <1>16 DEF Boots
    <3> QED BY <3>1, <3>2, OperationTyped DEF Other
  <2> QED BY <1>4, <1>5, <1>16, <2>1, <2>2, OtherIdles DEF Boots
<1>17. CASE BootStarts
  <2>1. tx # None /\ tx.name # "setup" /\ ~Restoring(tx)
    BY <1>4, <1>17 DEF BootStarts, At
  <2>2. Status /\ (Goes("status") \/ Goes("route"))
    BY <1>17 DEF BootStarts
  <2> QED BY <1>2, <1>6, <2>1, <2>2, OtherCommands
<1>18. CASE BootSeesRoute
  <2>1. tx # None /\ job = None /\ tx.name # "setup" /\ ~Restoring(tx)
    BY <1>1, <1>4, <1>6, <1>18 DEF BootSeesRoute, Waits, At
  <2>2. \/ tx' = None /\ Idles
        \/ Goes("route") /\ Status
        \/ Goes("connecting") /\ Connect
    BY <1>7, <1>18 DEF BootSeesRoute
  <2> QED BY <1>2, <1>3, <1>6, <2>1, <2>2, OtherCommands, OtherIdles
<1>19. CASE BootConnects
  <2>1. tx # None /\ job = None /\ tx.name # "setup" /\ ~Restoring(tx)
    BY <1>1, <1>4, <1>6, <1>19 DEF BootConnects, Waits, At
  <2>2. \/ tx' = None /\ Idles
        \/ Goes("route") /\ Status
    BY <1>7, <1>19 DEF BootConnects
  <2> QED BY <1>2, <1>3, <1>6, <2>1, <2>2, OtherCommands, OtherIdles
<1>20. CASE LauncherQuits
  BY <1>3, <1>4, <1>5, <1>20, OtherIdles DEF LauncherQuits
<1> QED BY <1>8, <1>9, <1>10, <1>11, <1>12, <1>13, <1>14, <1>15, <1>16, <1>17, <1>18, <1>19, <1>20

(* The steps of a setup that leave the files alone.                          *)
LEMMA SetupMoves ==
  ASSUME TypeInv, Now, PreflightEnds \/ CommandEnds \/ SetupStarts \/ BrowserCommits
  PROVE  Next1
<1> USE DEF Idle, Over
<1>1. tx # None /\ tx \in Operations /\ job = None /\ tx.name = "setup" /\ ~Restoring(tx) /\ Idles
  BY DEF PreflightEnds, CommandEnds, SetupStarts, BrowserCommits, Waits, At, Idles, integrationVars,
         userVars, Restoring, TypeInv, LauncherTyped, TxTyped, Now, Whole, SetupOnly
<1>2. \/ tx' = None
      \/ Goes("stop") /\ tx.at = "preflight" /\ exit = "ok"
      \/ /\ Goes("start") \/ Goes("commit") \/ Goes("rollback")
         /\ tx.at \in {"command", "start", "commit", "rollback"}
  BY DEF PreflightEnds, CommandEnds, SetupStarts, BrowserCommits, Waits, At
<1>3. CASE tx' = None
  BY <1>1, <1>3, OtherIdles DEF Other
<1>4. CASE tx' # None
  <2>1. PICK s \in {"stop", "start", "commit", "rollback"} :
          /\ Goes(s)
          /\ \/ tx.at = "preflight" /\ exit = "ok" /\ s = "stop"
             \/ /\ tx.at \in {"command", "start", "commit", "rollback"}
                /\ s \in {"start", "commit", "rollback"}
    BY <1>2, <1>4
  <2>2. tx'.at = s /\ tx'.name = "setup" /\ tx'.checkpoint = tx.checkpoint
    BY <1>1, <2>1, GoesParts DEF Goes, Steps
  <2> DEFINE m == "death" \in broken
  <2>3. Whole(disk, None, tx, exit, own, ambiguous, m, edits)
    BY <1>1 DEF Now
  <2>4. /\ disk' = disk /\ job' = None /\ exit' = exit /\ own' = own /\ ambiguous' = ambiguous
        /\ edits' = edits /\ broken' = broken
    BY <1>1 DEF Idles, integrationVars, userVars
  <2> HIDE DEF m
  <2>5. Whole(disk, None, tx', exit, own, ambiguous, m, edits)
    BY <1>1, <1>4, <2>1, <2>2, <2>3, SetupWhole
  <2> QED BY <2>4, <2>5 DEF Next1, m
<1> QED BY <1>3, <1>4

(* A command of a setup's.                                                   *)
LEMMA SetupIssued ==
  ASSUME SetupAssumption,
         NEW t, NEW x, NEW o, NEW a, NEW m, NEW e, Whole(disk, None, t, x, o, a, m, e), ~Restoring(t),
         NEW s, s # None, s.name = "setup", s.at \in {"preflight", "command"}, Issues(s, o, a, m, e),
         Safe(s.checkpoint, o, a, m), ~m => Agree(s.checkpoint, e), Bound(disk, s, o, a, m),
         s.at = "preflight" => s.checkpoint = disk,
         s.at = "command" =>
           ~Lost(s.checkpoint["primary"], s.checkpoint["recovery"], s.checkpoint["config"])
  PROVE  Whole(disk, job', s, exit', o, a, m, e)
<1> DEFINE k == s.checkpoint
<1>1. job' # None => /\ ~Lost(disk["primary"], disk["recovery"], disk["config"])
                     /\ JobFits(job', disk, Safes(s, o, a, m), Torn, Settled(s, o, a, m, e))
                     /\ job'.name = "subagents" => Free(s)
  BY Reading DEF Issues
<1>2. job' = None => exit' = "failed"
  BY Apart DEF Issues
<1>3. s.at # "preflight" \/ job' # None \/ exit' = "ok" => ~Lost(k["primary"], k["recovery"], k["config"])
  BY <1>1, <1>2
<1> HIDE DEF k
<1>4. Remembers(disk, job', s, exit', o, a, m, e)
  BY <1>3 DEF Remembers, SetupOnly, k
<1>5. /\ Users(o, a, m) /\ Safe(disk, o, a, m) /\ (~m => Agree(disk, e))
  BY DEF Whole
<1> QED BY <1>1, <1>4, <1>5 DEF Whole

(* A setup begins.                                                           *)
LEMMA BeginsNext ==
  ASSUME SetupAssumption, TypeInv, Now, NEW mode \in Modes, NEW r \in BOOLEAN, SetupBegins(mode, r)
  PROVE  Next1
<1> DEFINE m == "death" \in broken
<1>1. disk \in Disks /\ tx = None /\ job = None /\ Preflight(r)
  BY DEF TypeInv, FilesTyped, SetupBegins
<1>2. tx' \in Operations /\ tx'.name = "setup" /\ tx'.at = "preflight" /\ tx'.checkpoint = disk
  <2>1. Begun(tx', mode, r)
    BY DEF SetupBegins, Begun
  <2> QED BY <1>1, <2>1, SetupOperation
<1>3. /\ Whole(disk, None, tx, exit, own, ambiguous, m, edits) /\ ~Restoring(tx)
      /\ Users(own, ambiguous, m) /\ Safe(disk, own, ambiguous, m) /\ (~m => Agree(disk, edits))
  BY <1>1 DEF Now, Whole, Restoring
<1>4. tx' # None
  BY <1>2, Apart
<1> HIDE DEF m
<1>5. Issues(tx', own, ambiguous, m, edits) /\ Bound(disk, tx', own, ambiguous, m)
  BY <1>1, <1>2, <1>3, <1>4, PreflightIssues
<1>6. Whole(disk, job', tx', exit', own, ambiguous, m, edits)
  BY <1>2, <1>3, <1>4, <1>5, SetupIssued
<1>7. disk' = disk /\ own' = own /\ ambiguous' = ambiguous /\ edits' = edits /\ broken' = broken
  BY <1>5 DEF Issues, Typed, userVars
<1> QED BY <1>6, <1>7 DEF Next1, m

(* It stops the runtime and runs its command.                                *)
LEMMA StopsNext ==
  ASSUME SetupAssumption, TypeInv, Now, SetupStops
  PROVE  Next1
<1> DEFINE m == "death" \in broken
           k == tx.checkpoint
<1>1. /\ disk \in Disks /\ tx # None /\ tx.name = "setup" /\ tx.at = "stop" /\ job = None
      /\ tx \in Operations /\ tx.mode \in Modes /\ Setup(tx.mode, tx.replace)
  BY DEF TypeInv, FilesTyped, LauncherTyped, TxTyped, SetupStops, At
<1>2. tx' # None /\ tx'.name = "setup" /\ tx'.at = "command" /\ tx'.checkpoint = k
  <2>1. tx' = [tx EXCEPT !.at = "command", !.commanded = TRUE]
    BY DEF SetupStops
  <2>2. tx' \in Operations
    BY <1>1, <2>1 DEF Operations, Steps
  <2> QED BY <1>1, <2>1, <2>2, Apart DEF Operations
<1>3. /\ Whole(disk, None, tx, exit, own, ambiguous, m, edits) /\ ~Restoring(tx)
      /\ Users(own, ambiguous, m) /\ Safe(disk, own, ambiguous, m) /\ (~m => Agree(disk, edits))
      /\ Remembers(disk, None, tx, exit, own, ambiguous, m, edits)
  BY <1>1 DEF Now, Whole, Restoring
<1> HIDE DEF m
<1>4. /\ Held(disk, k) /\ ~Lost(k["primary"], k["recovery"], k["config"])
      /\ Safe(k, own, ambiguous, m) /\ (~m => Agree(k, edits))
  BY <1>1, <1>3 DEF Remembers, Bound
<1> HIDE DEF k
<1>5. Issues(tx', own, ambiguous, m, edits)
  BY <1>1, <1>2, <1>3, <1>4, SetupIssues
<1>6. Bound(disk, tx', own, ambiguous, m)
  BY <1>2, <1>4, HeldSince, CommandBound
<1>7. Whole(disk, job', tx', exit', own, ambiguous, m, edits)
  BY <1>2, <1>3, <1>4, <1>5, <1>6, SetupIssued
<1>8. disk' = disk /\ own' = own /\ ambiguous' = ambiguous /\ edits' = edits /\ broken' = broken
  BY <1>5 DEF Issues, Typed, userVars
<1> QED BY <1>7, <1>8 DEF Next1, m

(* A setup goes back to its checkpoint through files that fit.               *)
LEMMA RestoresWhole ==
  ASSUME NEW d \in Disks, NEW t, NEW x, NEW o, NEW a, NEW m, NEW e, Whole(d, None, t, x, o, a, m, e),
         t # None, t.name = "setup", t.at \in {"stop", "command", "start", "commit", "rollback"},
         t.checkpoint \in Disks,
         NEW s, s # None, s.name = "setup", s.checkpoint = t.checkpoint, s.at = "restore",
         s.todo = Checkpoint
  PROVE  Whole(d, None, s, x, o, a, m, e)
<1> DEFINE k == t.checkpoint
<1>1. /\ Users(o, a, m) /\ Safe(d, o, a, m) /\ Remembers(d, None, t, x, o, a, m, e)
  BY DEF Whole
<1>2. /\ Safe(k, o, a, m) /\ (~m => Agree(k, e)) /\ ~Lost(k["primary"], k["recovery"], k["config"])
      /\ Bound(d, t, o, a, m)
  BY <1>1 DEF Remembers
<1>3. /\ Since(d["primary"], d["recovery"], k["primary"], k["recovery"], k["config"], o, a, m)
      /\ d["app"] = None => k["app"] = None
  <2>1. CASE t.at = "stop"
    <3>1. Held(d, k)
      BY <1>2, <2>1 DEF Bound
    <3> HIDE DEF k
    <3> QED BY <3>1, HeldSince
  <2>2. CASE t.at # "stop"
    BY <1>2, <2>2 DEF Bound
  <2> QED BY <2>1, <2>2
<1>4. k["primary"] # k["recovery"] => m
  BY <1>2 DEF Agree
<1>5. k \in Disks /\ s.checkpoint = k
  OBVIOUS
<1> HIDE DEF k
<1>6. Returns(d, k, Checkpoint, Fitting(o, a, m))
  BY <1>1, <1>2, <1>3, <1>4, <1>5, RollbackReturns
<1>7. Bound(d, s, o, a, m)
  BY DEF Bound
<1>8. Remembers(d, None, s, x, o, a, m, e)
  BY <1>2, <1>5, <1>6, <1>7 DEF Remembers, SetupOnly
<1> QED BY <1>1, <1>8 DEF Whole, Restoring

(* A first setup that wrote nothing has nothing to restore.                  *)
LEMMA RecoversWhole ==
  ASSUME NEW d \in Disks, NEW t, NEW x, NEW o, NEW a, NEW m, NEW e, Whole(d, None, t, x, o, a, m, e),
         t # None, t.name = "setup", t.at = "stop", d["app"] = None,
         NEW s, s # None, s.name = "setup", s.checkpoint = t.checkpoint, s.at = "recover"
  PROVE  Whole(d, None, s, x, o, a, m, e)
<1> DEFINE k == t.checkpoint
<1>1. /\ Users(o, a, m) /\ Safe(d, o, a, m) /\ (~m => Agree(d, e))
      /\ Remembers(d, None, t, x, o, a, m, e)
  BY DEF Whole, Restoring
<1>2. /\ Safe(k, o, a, m) /\ (~m => Agree(k, e)) /\ ~Lost(k["primary"], k["recovery"], k["config"])
      /\ Held(d, k)
  BY <1>1 DEF Remembers, Bound
<1>3. s.checkpoint = k
  OBVIOUS
<1> HIDE DEF k
<1>4. d["app"] = k["app"] /\ d["config"] = k["config"]
  BY <1>2 DEF Held
<1>5. d["primary"] = None /\ d["recovery"] = None /\ k["primary"] = None /\ k["recovery"] = None
  BY <1>1, <1>2, <1>4 DEF Safe
<1>6. \A f \in Files \ {"cache"} : d[f] = k[f]
  BY <1>4, <1>5 DEF Files
<1>7. Bound(d, s, o, a, m)
  BY DEF Bound
<1>8. Remembers(d, None, s, x, o, a, m, e)
  BY <1>2, <1>3, <1>6, <1>7 DEF Remembers, SetupOnly
<1> QED BY <1>1, <1>8 DEF Whole

(* It begins to go back.                                                     *)
LEMMA BackNext ==
  ASSUME SetupAssumption, TypeInv, Now, SetupCannotStop \/ RollsBack
  PROVE  Next1
<1> USE DEF Idle
<1> DEFINE m == "death" \in broken
<1>1. /\ disk \in Disks /\ tx # None /\ tx \in Operations /\ job = None /\ tx.name = "setup" /\ Idles
      /\ tx.at = "stop" \/ tx.at = "rollback"
  BY DEF SetupCannotStop, RollsBack, At, Idles, integrationVars, userVars, TypeInv, FilesTyped,
         LauncherTyped, TxTyped, Now, Whole, SetupOnly
<1>2. PICK s \in {"restore", "recover"} :
        /\ tx' = [tx EXCEPT !.at = s, !.todo = Checkpoint]
        /\ s = "recover" => tx.at = "stop" /\ disk["app"] = None
  BY DEF SetupCannotStop, RollsBack, At
<1>3. tx'.name = "setup" /\ tx'.at = s /\ tx'.checkpoint = tx.checkpoint /\ tx'.todo = Checkpoint
      /\ tx.checkpoint \in Disks
  BY <1>1, <1>2 DEF Operations
<1>4. tx' # None
  <2>1. Checkpoint \in Seq(Files)
    BY DEF Checkpoint, Files
  <2>2. tx' \in Operations
    BY <1>1, <1>2, <2>1 DEF Operations, Steps
  <2> QED BY <2>2, Apart
<1>5. Whole(disk, None, tx, exit, own, ambiguous, m, edits)
  BY <1>1 DEF Now
<1> HIDE DEF m
<1>6. Whole(disk, None, tx', exit, own, ambiguous, m, edits)
  <2>1. CASE s = "restore"
    BY <1>1, <1>3, <1>4, <1>5, <2>1, RestoresWhole
  <2>2. CASE s = "recover"
    BY <1>1, <1>2, <1>3, <1>4, <1>5, <2>2, RecoversWhole
  <2> QED BY <2>1, <2>2
<1>7. /\ disk' = disk /\ job' = None /\ exit' = exit /\ own' = own /\ ambiguous' = ambiguous
      /\ edits' = edits /\ broken' = broken
  BY <1>1 DEF Idles, integrationVars, userVars
<1> QED BY <1>6, <1>7 DEF Next1, m

(* It restores one file.                                                     *)
LEMMA FileNext ==
  ASSUME SetupAssumption, TypeInv, Now, RestoresFile
  PROVE  Next1
<1> DEFINE m == "death" \in broken
           k == tx.checkpoint
           F == Fitting(own, ambiguous, m)
<1>1. /\ disk \in Disks /\ tx # None /\ tx \in Operations /\ job = None /\ tx.at = "restore"
      /\ tx.todo \in Seq(Files) /\ tx.todo # <<>> /\ k \in Disks
  BY DEF RestoresFile, At, TypeInv, FilesTyped, LauncherTyped, TxTyped, Operations
<1>2. /\ tx'.name = tx.name /\ tx'.at = "restore" /\ tx'.checkpoint = k /\ tx'.todo = Tail(tx.todo)
      /\ disk' = [disk EXCEPT ![Head(tx.todo)] = k[Head(tx.todo)]]
      /\ job' = None /\ exit' = exit /\ own' = own /\ ambiguous' = ambiguous
      /\ edits' = edits /\ broken' = broken
  BY <1>1 DEF RestoresFile, Operations, Put, userVars
<1>3. /\ Users(own, ambiguous, m) /\ tx.name = "setup"
      /\ Remembers(disk, None, tx, exit, own, ambiguous, m, edits)
  BY <1>1 DEF Now, Whole, SetupOnly
<1> HIDE DEF m
<1>4. Returns(disk, k, tx.todo, F) /\ Safe(k, own, ambiguous, m) /\ (~m => Agree(k, edits))
      /\ ~Lost(k["primary"], k["recovery"], k["config"])
  BY <1>1, <1>3 DEF Remembers
<1> HIDE DEF k, F
<1>5. Returns(disk', k, tx'.todo, F) /\ disk' \in F
  BY <1>1, <1>2, <1>4, ReturnsOne
<1>6. Safe(disk', own, ambiguous, m)
  BY <1>5 DEF F, Fitting
<1>7. Bound(disk', tx', own, ambiguous, m)
  BY <1>2 DEF Bound
<1>8. Remembers(disk', None, tx', exit, own, ambiguous, m, edits)
  BY <1>2, <1>4, <1>5, <1>7 DEF Remembers, SetupOnly, F
<1>9. tx' # None
  <2>1. tx' = [tx EXCEPT !.todo = Tail(@)] /\ Tail(tx.todo) \in Seq(Files)
    BY <1>1 DEF RestoresFile
  <2>2. tx' \in Operations
    BY <1>1, <2>1 DEF Operations
  <2> QED BY <2>2, Apart
<1>10. Whole(disk', None, tx', exit, own, ambiguous, m, edits)
  BY <1>2, <1>3, <1>6, <1>8, <1>9 DEF Whole, Restoring
<1> QED BY <1>2, <1>10 DEF Next1, m

(* It has restored them all.                                                 *)
LEMMA RestoredNext ==
  ASSUME SetupAssumption, TypeInv, Now, RestoreEnds
  PROVE  Next1
<1> USE DEF Idle
<1> DEFINE m == "death" \in broken
           k == tx.checkpoint
           F == Fitting(own, ambiguous, m)
<1>1. /\ disk \in Disks /\ tx # None /\ tx \in Operations /\ job = None /\ tx.at = "restore"
      /\ tx.todo = <<>> /\ Goes("recover") /\ Idles
  BY DEF RestoreEnds, At, TypeInv, FilesTyped, LauncherTyped, TxTyped, Idles, integrationVars, userVars
<1>2. tx'.name = tx.name /\ tx'.at = "recover" /\ tx'.checkpoint = k
  BY <1>1, GoesParts DEF Goes, Steps
<1>3. /\ Users(own, ambiguous, m) /\ tx.name = "setup" /\ Safe(disk, own, ambiguous, m)
      /\ Remembers(disk, None, tx, exit, own, ambiguous, m, edits)
  BY <1>1 DEF Now, Whole, SetupOnly
<1> HIDE DEF m
<1>4. Returns(disk, k, <<>>, F) /\ Safe(k, own, ambiguous, m) /\ (~m => Agree(k, edits))
      /\ ~Lost(k["primary"], k["recovery"], k["config"])
  BY <1>1, <1>3 DEF Remembers
<1> HIDE DEF k, F
<1>5. disk = k
  BY <1>1, <1>4, ReturnsNothing
<1>6. Bound(disk, tx', own, ambiguous, m)
  BY <1>2 DEF Bound
<1>7. Remembers(disk, None, tx', exit, own, ambiguous, m, edits)
  BY <1>2, <1>4, <1>5, <1>6 DEF Remembers, SetupOnly
<1>8. Whole(disk, None, tx', exit, own, ambiguous, m, edits)
  BY <1>2, <1>3, <1>4, <1>5, <1>7 DEF Whole
<1>9. /\ disk' = disk /\ job' = None /\ exit' = exit /\ own' = own /\ ambiguous' = ambiguous
      /\ edits' = edits /\ broken' = broken
  BY <1>1 DEF Idles, integrationVars, userVars
<1> QED BY <1>8, <1>9 DEF Next1, m

-----------------------------------------------------------------------------
(* The steps of a command.                                                   *)

(* A command at work is no rollback's.                                       *)
LEMMA AtWork ==
  ASSUME NEW d, NEW jb, jb # None, NEW t, NEW x, NEW o, NEW a, NEW m, NEW e,
         Whole(d, jb, t, x, o, a, m, e)
  PROVE  /\ ~Restoring(t) /\ JobFits(jb, d, Safes(t, o, a, m), Torn, Settled(t, o, a, m, e))
         /\ Users(o, a, m) /\ (Safe(d, o, a, m) \/ Split(d))
         /\ jb.name = "subagents" => Free(t)
         /\ t # None /\ t.name = "setup" => Remembers(d, jb, t, x, o, a, m, e) /\ t.at # "recover"
BY DEF Whole, Remembers, Restoring, SetupOnly

(* It goes on.                                                               *)
LEMMA WorkWhole ==
  ASSUME NEW d, NEW jb, jb # None, NEW t, NEW x, NEW o, NEW a, NEW m, NEW e,
         Whole(d, jb, t, x, o, a, m, e),
         NEW y \in Disks, NEW nb \in Jobs, nb # None, nb.name = jb.name,
         JobFits(nb, y, Safes(t, o, a, m), Torn, Settled(t, o, a, m, e))
  PROVE  Whole(y, nb, t, x, o, a, m, e)
<1> DEFINE G == Safes(t, o, a, m)
           B == Settled(t, o, a, m, e)
<1>0. B \subseteq G /\ JobFits(nb, y, G, Torn, B)
  BY DEF Settled
<1> HIDE DEF G, B
<1>1. y \in G \/ (nb.name = "subagents" /\ y \in Torn)
  BY <1>0, FitsOn
<1>2. \/ Safe(y, o, a, m) /\ Bound(y, t, o, a, m)
      \/ Switching(nb) /\ Split(y)
  BY <1>1 DEF G, Safes, Torn
<1>3. /\ Users(o, a, m) /\ (t # None /\ t.name = "setup" => Remembers(d, jb, t, x, o, a, m, e))
      /\ Switching(nb) => Free(t)
  BY AtWork
<1>4. ASSUME t # None, t.name = "setup"
      PROVE  Remembers(y, nb, t, x, o, a, m, e)
  <2>1. Remembers(d, jb, t, x, o, a, m, e)
    BY <1>3, <1>4
  <2>2. Bound(y, t, o, a, m)
    BY <1>2, <1>3, <1>4 DEF Free
  <2> QED BY <2>1, <2>2 DEF Remembers
<1>5. t # None /\ t.at \in SetupOnly => t.name = "setup"
  BY DEF Whole
<1> QED BY <1>0, <1>2, <1>3, <1>4, <1>5 DEF Whole, G, B

(* It writes, fails or undoes.                                               *)
LEMMA WorkNext ==
  ASSUME SetupAssumption, TypeInv, Now, Write \/ WriteFails \/ Undo, UNCHANGED tx
  PROVE  Next1
<1> DEFINE m == "death" \in broken
           G == Safes(tx, own, ambiguous, m)
           B == Settled(tx, own, ambiguous, m, edits)
<1>1. /\ disk \in Disks /\ job \in Jobs /\ job # None /\ disk' \in Disks /\ job' \in Jobs /\ job' # None
      /\ tx' = tx /\ exit' = exit /\ own' = own /\ ambiguous' = ambiguous /\ edits' = edits /\ broken' = broken
  <2>1. disk \in Disks /\ job \in Jobs /\ job # None /\ disk' \in Disks /\ job' \in Jobs /\ job' # None
    BY WorkTyped DEF TypeInv
  <2>2. /\ exit' = exit /\ own' = own /\ ambiguous' = ambiguous /\ edits' = edits /\ broken' = broken
    BY DEF Write, WriteFails, Undo, userVars
  <2> QED BY <2>1, <2>2
<1>2. Whole(disk, job, tx, exit, own, ambiguous, m, edits)
  BY DEF Now
<1>3. JobFits(job, disk, G, Torn, B)
  BY <1>1, <1>2, AtWork
<1>4. B \subseteq G /\ B \subseteq Disks
  BY DEF Settled, Safes
<1>f. FilesTyped
  BY DEF TypeInv
<1> HIDE DEF G, B
<1>5. JobFits(job', disk', G, Torn, B) /\ job'.name = job.name
  <2>1. CASE Write
    <3> DEFINE w == job.batches[1]
    <3>1. job.batches # <<>> /\ ~job.failing
      BY <2>1 DEF Write
    <3>2. /\ disk' = [disk EXCEPT ![w[1][1]] = w[1][2]]
          /\ Len(w) > 1 => Advances(job, job')
          /\ ~(Len(w) > 1) => Turns(job, disk', job')
      BY <1>f, <2>1, WriteTyped
    <3> HIDE DEF w
    <3>3. job'.name = job.name
      BY <3>2 DEF Advances, Turns
    <3> DEFINE e == [disk EXCEPT ![w[1][1]] = w[1][2]]
    <3>4. /\ Len(w) > 1 /\ Advances(job, job') => JobFits(job', e, G, Torn, B)
          /\ ~(Len(w) > 1) /\ Turns(job, e, job') => JobFits(job', e, G, Torn, B)
      <4>1. job \in Jobs /\ disk \in Disks
        BY <1>1
      <4> QED BY <1>3, <1>4, <3>1, <4>1, FitsWrites DEF w
    <3>5. disk' = e
      BY <3>2
    <3>6. JobFits(job', e, G, Torn, B)
      <4>1. ~(Len(w) > 1) => Turns(job, e, job')
        BY <3>2, <3>5
      <4> HIDE DEF e
      <4> QED BY <3>2, <3>4, <4>1
    <3> HIDE DEF e
    <3> QED BY <3>3, <3>5, <3>6
  <2>2. CASE WriteFails
    <3>1. disk' = disk /\ Fails(job, job')
      BY <1>f, <2>2, WriteFailsTyped
    <3>2. ~job.failing /\ job.batches # <<>>
      BY <2>2 DEF WriteFails
    <3>3. job'.name = job.name
      BY <3>1 DEF Fails
    <3>4. JobFits(job', disk, G, Torn, B)
      BY <1>1, <1>3, <1>4, <3>1, <3>2, FitsFails
    <3> QED BY <3>1, <3>3, <3>4
  <2>3. CASE Undo
    <3>1. /\ job.failing /\ job.undo # <<>> /\ Undoes(job, job')
          /\ disk' = [disk EXCEPT ![Head(job.undo)] = job.before[Head(job.undo)]]
      BY <1>f, <2>3, UndoTyped
    <3>2. job'.name = job.name
      BY <3>1 DEF Undoes
    <3>3. JobFits(job', disk', G, Torn, B)
      BY <1>1, <1>3, <3>1, FitsUndoes
    <3> QED BY <3>2, <3>3
  <2> QED BY <2>1, <2>2, <2>3
<1>6. Whole(disk', job', tx, exit, own, ambiguous, m, edits)
  <2> HIDE DEF m
  <2> QED BY <1>1, <1>2, <1>5, WorkWhole DEF G, B
<1> QED BY <1>1, <1>6 DEF Next1

(* A command ends on a disk that it may end on.                              *)
LEMMA EndsWhole ==
  ASSUME NEW d \in Disks, NEW jb \in Jobs, jb # None, NEW t, NEW x, NEW o, NEW a, NEW m, NEW e,
         Whole(d, jb, t, x, o, a, m, e),
         IF jb.failing THEN jb.undo = <<>> ELSE jb.batches = <<>>, NEW y
  PROVE  Whole(d, None, t, y, o, a, m, e) /\ (jb.failing => d = jb.before)
<1>1. /\ ~Restoring(t) /\ JobFits(jb, d, Safes(t, o, a, m), Torn, Settled(t, o, a, m, e))
      /\ Users(o, a, m)
      /\ t # None /\ t.name = "setup" => Remembers(d, jb, t, x, o, a, m, e)
  BY AtWork
<1>2. (jb.failing => d = jb.before) /\ d \in Settled(t, o, a, m, e)
  <2> DEFINE G == Safes(t, o, a, m)
             B == Settled(t, o, a, m, e)
  <2> HIDE DEF G, B
  <2>1. JobFits(jb, d, G, Torn, B)
    BY <1>1 DEF G, B
  <2>2. (jb.failing => d = jb.before) /\ d \in B
    BY <2>1, FitsEnd
  <2> QED BY <2>2 DEF B
<1>3. Safe(d, o, a, m) /\ (~m => Agree(d, e))
  BY <1>2 DEF Settled, Safes
<1>4. t # None /\ t.name = "setup" => Remembers(d, None, t, y, o, a, m, e)
  BY <1>1 DEF Remembers
<1>5. t # None /\ t.at \in SetupOnly => t.name = "setup"
  BY DEF Whole
<1> QED BY <1>1, <1>2, <1>3, <1>4, <1>5 DEF Whole

(* A command ends.                                                           *)
LEMMA EndsNext ==
  ASSUME TypeInv, Now, Ends, UNCHANGED tx
  PROVE  Next1 /\ (job.failing => disk = job.before)
<1> DEFINE m == "death" \in broken
<1>1. /\ disk \in Disks /\ job \in Jobs /\ job # None
      /\ IF job.failing THEN job.undo = <<>> ELSE job.batches = <<>>
  BY DEF TypeInv, FilesTyped, Ends
<1>2. Whole(disk, job, tx, exit, own, ambiguous, m, edits)
  BY DEF Now
<1> HIDE DEF m
<1>3. Whole(disk, None, tx, exit', own, ambiguous, m, edits) /\ (job.failing => disk = job.before)
  BY <1>1, <1>2, EndsWhole
<1>4. /\ disk' = disk /\ job' = None /\ tx' = tx /\ own' = own /\ ambiguous' = ambiguous
      /\ edits' = edits /\ broken' = broken
  BY DEF Ends, userVars
<1> QED BY <1>3, <1>4 DEF Next1, m

(* What is known of the user's lines is known after a death.                 *)
LEMMA UsersLater ==
  ASSUME NEW o, NEW a, NEW m, Users(o, a, m)
  PROVE  Users(o, a, TRUE) /\ m \in BOOLEAN /\ (m => TRUE)
BY DEF Users

(* The process dies, and leaves files that fit unless it leaves them split.  *)
LEMMA DiesNext ==
  ASSUME TypeInv, Now, Dies, UNCHANGED tx, "split" \notin broken'
  PROVE  Next1
<1> DEFINE m == "death" \in broken
<1>1. disk \in Disks /\ job # None
  BY DEF TypeInv, FilesTyped, Dies
<1>2. Whole(disk, job, tx, exit, own, ambiguous, m, edits)
  BY DEF Now
<1> HIDE DEF m
<1>s. ~Split(disk)
  BY DEF Dies
<1>3. /\ ~Restoring(tx) /\ Users(own, ambiguous, m) /\ Safe(disk, own, ambiguous, m)
      /\ tx # None /\ tx.name = "setup" =>
           Remembers(disk, job, tx, exit, own, ambiguous, m, edits) /\ tx.at # "recover"
  BY <1>1, <1>2, <1>s, AtWork
<1>4. Users(own, ambiguous, TRUE) /\ Safe(disk, own, ambiguous, TRUE)
  BY <1>3, UsersLater, SafeLater
<1>5. ASSUME tx # None, tx.name = "setup"
      PROVE  Remembers(disk, None, tx, exit', own, ambiguous, TRUE, edits)
  <2> DEFINE k == tx.checkpoint
  <2>1. /\ tx.at \in SetupOnly \cup {"stop", "start"} /\ tx.at # "restore" /\ tx.at # "recover"
        /\ Safe(k, own, ambiguous, m) /\ Bound(disk, tx, own, ambiguous, m)
        /\ ~Lost(k["primary"], k["recovery"], k["config"])
    BY <1>1, <1>3, <1>5 DEF Remembers, Restoring
  <2> HIDE DEF k
  <2>2. Safe(k, own, ambiguous, TRUE)
    BY <1>3, <2>1, UsersLater, SafeLater
  <2>3. Bound(disk, tx, own, ambiguous, TRUE)
    BY <1>3, <2>1, UsersLater, BoundLater
  <2> QED BY <2>1, <2>2, <2>3 DEF Remembers, k
<1>6. tx # None /\ tx.at \in SetupOnly => tx.name = "setup"
  BY <1>2 DEF Whole
<1>7. Whole(disk, None, tx, exit', own, ambiguous, TRUE, edits)
  BY <1>4, <1>5, <1>6 DEF Whole
<1>8. /\ disk' = disk /\ job' = None /\ tx' = tx /\ own' = own /\ ambiguous' = ambiguous
      /\ edits' = edits /\ ("death" \in broken') = TRUE
  BY DEF Dies, userVars
<1> QED BY <1>7, <1>8 DEF Next1

(* The launcher dies; its command, if there is one, goes on without it.      *)
LEMMA LauncherDiesNext ==
  ASSUME TypeInv, Now, LauncherDies
  PROVE  Next1
<1> DEFINE m == "death" \in broken
           o == own
           a == ambiguous
<1>1. Whole(disk, job, tx, exit, o, a, m, edits)
  BY DEF Now
<1> HIDE DEF m
<1>2. Users(o, a, m) /\ (Safe(disk, o, a, m) \/ (Switching(job) /\ Split(disk)))
  BY <1>1 DEF Whole
<1>3. Users(o, a, TRUE) /\ (Safe(disk, o, a, TRUE) \/ (Switching(job) /\ Split(disk)))
  BY <1>2, UsersLater, SafeLater
<1>4. Free(None)
  BY DEF Free
<1>5. \A d \in Disks : Safe(d, o, a, m) => d \in Safes(None, o, a, TRUE) /\ d \in Settled(None, o, a, TRUE, edits)
  <2>1. ASSUME NEW d \in Disks, Safe(d, o, a, m)
        PROVE  d \in Safes(None, o, a, TRUE) /\ d \in Settled(None, o, a, TRUE, edits)
    <3>1. Safe(d, o, a, TRUE)
      BY <1>2, <2>1, UsersLater, SafeLater
    <3>2. Bound(d, None, o, a, TRUE)
      BY <1>4, FreeBound
    <3> QED BY <3>1, <3>2, SettledIn
  <2> QED BY <2>1
<1>6. /\ Safes(tx, o, a, m) \subseteq Safes(None, o, a, TRUE)
      /\ Settled(tx, o, a, m, edits) \subseteq Settled(None, o, a, TRUE, edits)
  <2>1. /\ \A d \in Safes(tx, o, a, m) : d \in Disks /\ Safe(d, o, a, m)
        /\ \A d \in Settled(tx, o, a, m, edits) : d \in Disks /\ Safe(d, o, a, m)
    BY DEF Safes, Settled
  <2> QED BY <1>5, <2>1
<1> DEFINE H == Safes(None, o, a, TRUE)
           C == Settled(None, o, a, TRUE, edits)
<1>7. job # None => JobFits(job, disk, H, Torn, C)
  <2> DEFINE G == Safes(tx, o, a, m)
             B == Settled(tx, o, a, m, edits)
  <2>1. G \subseteq H /\ B \subseteq C /\ (job # None => JobFits(job, disk, G, Torn, B))
    BY <1>1, <1>6 DEF Whole
  <2> HIDE DEF G, B, H, C
  <2> QED BY <2>1, FitsWider
<1>8. Whole(disk, job, None, exit, o, a, TRUE, edits)
  BY <1>3, <1>4, <1>7 DEF Whole
<1>9. /\ disk' = disk /\ job' = job /\ tx' = None /\ exit' = exit /\ own' = o /\ ambiguous' = a
      /\ edits' = edits /\ ("death" \in broken') = TRUE
  BY DEF LauncherDies, Over, userVars
<1> QED BY <1>8, <1>9 DEF Next1

-----------------------------------------------------------------------------
(* The user and Codex.                                                       *)

(* The user edits the configuration.                                         *)
LEMMA EditsNext ==
  ASSUME SetupAssumption, TypeInv, Now, UserEdits, tx = None, UNCHANGED tx
  PROVE  Next1
<1> DEFINE m == "death" \in broken
           o == own
           a == ambiguous
<1>1. disk \in Disks /\ FilesTyped /\ edits \in Nat
  BY Apart DEF TypeInv, FilesTyped
<1>2. PICK c \in Lines \cup {None}, q \in UserLines : EditStep(c, q)
  BY <1>1, EditParts
<1>3. /\ job = None /\ disk' = [disk EXCEPT !["config"] = c] /\ own' = q /\ edits' = edits + 1
      /\ ambiguous' = a /\ job' = None /\ exit' = exit /\ broken' = broken
      /\ EditOf(c, Text, o, q) /\ (q.realtime = Ours => o.realtime = Ours)
  BY <1>2 DEF EditStep, Edit, Put
<1>4. Whole(disk, None, None, exit, o, a, m, edits)
  BY <1>3 DEF Now
<1> HIDE DEF m
<1>5. Users(o, a, m) /\ Safe(disk, o, a, m) /\ (~m => Agree(disk, edits))
  BY <1>4 DEF Whole, Restoring
<1>6. Users(q, a, m)
  BY <1>3, <1>5 DEF Users
<1>7. /\ disk'["config"] = c /\ disk'["app"] = disk["app"]
      /\ disk'["primary"] = disk["primary"] /\ disk'["recovery"] = disk["recovery"]
  BY <1>1, <1>3, DiskFunction DEF Files
<1>8. Safe(disk', q, a, m)
  <2>1. Stand(disk["primary"], disk["recovery"], disk["config"], o, a, m)
    BY <1>1, <1>5, DiskParts DEF Safe, Users, Stand, CopyTypes
  <2>2. EditOf(c, TextOf(disk["config"]), o, q)
    BY <1>3, Reading
  <2>3. Fit(disk["primary"], disk["recovery"], TextOf(c), q, a, m)
    BY <2>1, <2>2, FitEdited
  <2> QED BY <1>5, <1>7, <2>3 DEF Safe
<1>9. ~m => Agree(disk', edits + 1)
  <2>1. edits + 1 # 0
    BY <1>1
  <2> QED BY <1>5, <1>7, <2>1 DEF Agree
<1>10. Whole(disk', None, None, exit, q, a, m, edits + 1)
  BY <1>6, <1>8, <1>9 DEF Whole
<1> QED BY <1>3, <1>10 DEF Next1, m

(* Codex writes the cache, which is no part of what fits.                    *)
LEMMA ReadsNext ==
  ASSUME SetupAssumption, TypeInv, Now, ~At("restore"), CodexReads, UNCHANGED tx
  PROVE  Next1
<1> DEFINE m == "death" \in broken
           o == own
           a == ambiguous
<1>1. disk \in Disks /\ job = None
  BY DEF TypeInv, FilesTyped, CodexReads
<1>2. ~Restoring(tx)
  BY <1>1 DEF At, Restoring
<1>3. /\ disk' = [disk EXCEPT !["cache"] = RouteOf(Text)] /\ tx' = tx /\ own' = o /\ edits' = edits
      /\ ambiguous' = a /\ job' = None /\ exit' = exit /\ broken' = broken
  BY <1>1 DEF CodexReads, Put, userVars
<1>4. Whole(disk, None, tx, exit, o, a, m, edits)
  BY <1>1 DEF Now
<1> HIDE DEF m
<1>5. Users(o, a, m) /\ Safe(disk, o, a, m) /\ (~m => Agree(disk, edits))
  BY <1>2, <1>4 DEF Whole
<1>6. /\ disk'["config"] = disk["config"] /\ disk'["app"] = disk["app"]
      /\ disk'["primary"] = disk["primary"] /\ disk'["recovery"] = disk["recovery"]
      /\ disk'["cache"] = RouteOf(TextOf(disk["config"]))
      /\ \A f \in Files \ {"cache"} : disk'[f] = disk[f]
  BY <1>1, <1>3, DiskFunction, Reading DEF Files
<1>7. Safe(disk', o, a, m)
  BY <1>5, <1>6 DEF Safe
<1>8. ~m => Agree(disk', edits)
  BY <1>5, <1>6 DEF Agree
<1>9. ASSUME tx # None, tx.name = "setup"
      PROVE  Remembers(disk', None, tx, exit, o, a, m, edits)
  <2>1. Remembers(disk, None, tx, exit, o, a, m, edits)
    BY <1>4, <1>9 DEF Whole
  <2>2. Bound(disk, tx, o, a, m)
    BY <2>1 DEF Remembers
  <2>3. Bound(disk', tx, o, a, m)
    BY <1>6, <2>2 DEF Bound, Held
  <2> QED BY <1>2, <1>6, <1>9, <2>1, <2>3 DEF Remembers, Restoring
<1>10. tx # None /\ tx.at \in SetupOnly => tx.name = "setup"
  BY <1>4 DEF Whole
<1>11. Whole(disk', None, tx, exit, o, a, m, edits)
  BY <1>5, <1>7, <1>8, <1>9, <1>10 DEF Whole
<1> QED BY <1>3, <1>11 DEF Next1, m

(* What the user does.                                                       *)
LEMMA OutsideNext ==
  ASSUME SetupAssumption, TypeInv, Now, Outside
  PROVE  Next1
<1>1. tx = None /\ UNCHANGED tx
  BY DEF Outside, launcherVars
<1>2. ~Restoring(tx) /\ Other(tx')
  BY <1>1 DEF Restoring, Other
<1>3. CASE Connect \/ Disconnect \/ \E p \in Protocols : Subagents(p)
  BY <1>2, <1>3, OtherCommands
<1>4. CASE UserEdits
  BY <1>1, <1>4, EditsNext
<1> QED BY <1>3, <1>4 DEF Outside

-----------------------------------------------------------------------------
(* The parts of a setup or an uninstall: what is left when the second fails. *)

(* The first part of a command leads from f to e.                            *)
PartOf(nm, f, e) ==
  CASE nm = "setup"     -> \A g \in Files \ {"app"} : e[g] = f[g]
    [] nm = "uninstall" -> e["primary"] = None /\ e["recovery"] = None /\ e["app"] = f["app"]

(* The writes w are such a part, wherever they begin.                        *)
Parting(nm, w) == \A f \in Disks : \E e \in Disks : Leads(f, w, e, Disks) /\ PartOf(nm, f, e)

(* The repairs come first; of two batches the first is such a part, and when  *)
(* it is done the last one begins with it.                                   *)
Parts(jb, d) ==
  LET n == Len(jb.batches)
      same == jb.before = jb.found
      two == jb.name \in {"setup", "uninstall"}
  IN  /\ jb.failing => n # 0
      /\ \/ jb.name = "subagents" /\ same
         \/ jb.repairing /\ same /\ n \in 1..2
         \/ jb.repairing /\ same /\ n = 3 /\ two /\ Parting(jb.name, jb.batches[2])
         \/ /\ ~jb.repairing /\ same /\ n = 2 /\ two
            /\ ~jb.failing => \E e \in Disks : /\ Leads(d, jb.batches[1], e, Disks)
                                               /\ PartOf(jb.name, jb.found, e)
         \/ ~jb.repairing /\ n = 1 /\ (same \/ (two /\ PartOf(jb.name, jb.found, jb.before)))
         \/ n = 0

Whither == job # None => Parts(job, disk)

(* A saved configuration is the first part of a setup.                       *)
LEMMA AppParting ==
  ASSUME NEW k \in AppConfig \cup {None}
  PROVE  Parting("setup", << <<"app", k>> >>)
<1> SUFFICES ASSUME NEW f \in Disks
             PROVE  \E e \in Disks : Leads(f, << <<"app", k>> >>, e, Disks) /\ PartOf("setup", f, e)
  BY DEF Parting
<1> DEFINE e == [f EXCEPT !["app"] = k]
<1>1. "app" \in Files /\ k \in Holds("app")
  BY AppOrder
<1>2. e \in Disks
  BY <1>1, PutTyped
<1>3. Leads(f, << <<"app", k>> >>, e, Disks)
  BY <1>1, <1>2, LeadsLast
<1>4. \A g \in Files \ {"app"} : e[g] = f[g]
  BY DiskFunction
<1> HIDE DEF e
<1>5. PartOf("setup", f, e)
  BY <1>4 DEF PartOf
<1> QED BY <1>2, <1>3, <1>5

(* The removal of the integration is the first part of an uninstall.         *)
LEMMA RemovalParting ==
  ASSUME disk \in Disks, Managed
  PROVE  UninstallBatch \in Batches /\ Parting("uninstall", UninstallBatch)
<1> DEFINE j == ReadJournal
           c == IF j.active THEN RestoreManagedRoute(Text, j) ELSE Text
           w == << <<"config", c>>, <<"cache", None>>, <<"primary", None>>, <<"recovery", None>> >>
<1>1. c \in Lines
  <2>1. j \in Journal /\ Text \in Lines
    BY Reading, BaselineTyped, DiskParts, TextTyped DEF Managed
  <2> HIDE DEF j
  <2>2. RestoreManagedRoute(Text, j) \in Lines
    BY <2>1, RestoredTyped
  <2> QED BY <2>1, <2>2
<1>2. UninstallBatch = w
  BY DEF UninstallBatch
<1> HIDE DEF c
<1>5. UninstallBatch \in Batches
  <2> DEFINE bs == <<UninstallBatch, << <<"app", None>> >> >>
  <2>1. bs \in Seq(Batches) /\ Len(bs) = 2 /\ bs[1] = UninstallBatch
    BY ManagedTyped
  <2> HIDE DEF bs
  <2>2. bs[1] \in Batches
    BY <2>1, ElementOfSeq
  <2> QED BY <2>1, <2>2, Zenon
<1>3. ASSUME NEW f \in Disks
      PROVE  \E e \in Disks : Leads(f, w, e, Disks) /\ PartOf("uninstall", f, e)
  <2> DEFINE x1 == [f EXCEPT !["config"] = c]
             x2 == [x1 EXCEPT !["cache"] = None]
             x3 == [x2 EXCEPT !["primary"] = None]
             x4 == [x3 EXCEPT !["recovery"] = None]
  <2>w. Removed(f, c, x1, x2, x3, x4)
    BY DEF Removed
  <2> HIDE DEF x1, x2, x3, x4
  <2>1. /\ x1 \in Disks /\ x2 \in Disks /\ x3 \in Disks /\ x4 \in Disks
        /\ x4["primary"] = None /\ x4["recovery"] = None /\ x4["app"] = f["app"]
    BY <1>1, <2>w, RemovedParts
  <2>2. Leads(f, w, x4, Disks)
    BY <1>1, <2>1, LeadsRemoval DEF x1, x2, x3, x4
  <2>3. PartOf("uninstall", f, x4)
    BY <2>1 DEF PartOf
  <2> QED BY <2>1, <2>2, <2>3
<1>4. Parting("uninstall", w)
  BY <1>3 DEF Parting
<1> QED BY <1>2, <1>4, <1>5

(* A command of at most one batch of its own begins.                         *)
LEMMA OnePart ==
  ASSUME disk \in Disks, NEW nm \in Commands, NEW bs \in Seq(Batches), Len(bs) \in 0..1, Run(nm, bs)
  PROVE  Parts(job', disk)
<1>1. /\ job'.before = disk /\ job'.found = disk /\ ~job'.failing
      /\ job'.batches = Batch(RepairBatch) \o bs /\ job'.repairing = (RepairBatch # <<>>)
  BY RunTyped
<1>2. CASE RepairBatch = <<>>
  <2>1. Batch(RepairBatch) = <<>> /\ <<>> \o bs = bs
    BY <1>2 DEF Batch
  <2>2. Len(job'.batches) = Len(bs) /\ ~job'.repairing
    BY <1>1, <1>2, <2>1, Zenon
  <2>3. Len(bs) = 0 \/ Len(bs) = 1
    OBVIOUS
  <2> QED BY <1>1, <2>2, <2>3 DEF Parts
<1>3. CASE RepairBatch # <<>>
  <2>1. Batch(RepairBatch) = <<RepairBatch>> /\ job'.repairing
    BY <1>1, <1>3 DEF Batch
  <2>2. RepairBatch \in Batches
    BY <1>3, RepairTyped DEF Batches
  <2> DEFINE r == RepairBatch
  <2> HIDE DEF r
  <2>3. Len(<<r>> \o bs) = 1 + Len(bs) /\ <<r>> \in Seq(Batches)
    BY <2>2 DEF r
  <2>4. Len(job'.batches) = 1 + Len(bs)
    BY <1>1, <2>1, <2>3 DEF r
  <2> DEFINE n == Len(bs)
             t == Len(job'.batches)
  <2>5. n \in 0..1 /\ t = 1 + n
    BY <2>4
  <2> HIDE DEF n, t
  <2>6. t \in 1..2
    BY <2>5
  <2>7. Len(job'.batches) \in 1..2
    BY <2>6 DEF t
  <2> QED BY <1>1, <2>1, <2>7 DEF Parts
<1> QED BY <1>2, <1>3

(* A change of the protocol begins with what it found.                       *)
LEMMA SwitchParts ==
  ASSUME disk \in Disks, NEW bs \in Seq(Batches), Run("subagents", bs)
  PROVE  Parts(job', disk)
<1>1. "subagents" \in Commands
  BY DEF Commands
<1>2. job'.name = "subagents" /\ job'.before = disk /\ job'.found = disk /\ ~job'.failing
  BY <1>1, RunTyped
<1> QED BY <1>2 DEF Parts

(* A command of two batches begins, of which the first is a part.            *)
LEMMA TwoParts ==
  ASSUME disk \in Disks, NEW nm \in {"setup", "uninstall"}, NEW w \in Batches, NEW v \in Batches,
         Parting(nm, w), Run(nm, <<w, v>>)
  PROVE  Parts(job', disk)
<1>1. <<w, v>> \in Seq(Batches) /\ nm \in Commands
  BY DEF Commands
<1>2. /\ job'.before = disk /\ job'.found = disk /\ ~job'.failing /\ job'.name = nm
      /\ job'.batches = Batch(RepairBatch) \o <<w, v>> /\ job'.repairing = (RepairBatch # <<>>)
  BY <1>1, RunTyped
<1>3. CASE RepairBatch = <<>>
  <2>1. Batch(RepairBatch) = <<>> /\ <<>> \o <<w, v>> = <<w, v>>
    BY <1>1, <1>3 DEF Batch
  <2>2. job'.batches = <<w, v>> /\ ~job'.repairing
    BY <1>2, <1>3, <2>1, Zenon
  <2>3. Len(job'.batches) = 2 /\ job'.batches[1] = w
    BY <2>2
  <2>4. \E e \in Disks : Leads(disk, w, e, Disks) /\ PartOf(nm, disk, e)
    BY DEF Parting
  <2> QED BY <1>2, <2>2, <2>3, <2>4 DEF Parts
<1>4. CASE RepairBatch # <<>>
  <2>1. Batch(RepairBatch) = <<RepairBatch>> /\ job'.repairing
    BY <1>2, <1>4 DEF Batch
  <2>2. RepairBatch \in Batches
    BY <1>4, RepairTyped DEF Batches
  <2> DEFINE r == RepairBatch
             cs == <<r>> \o <<w, v>>
  <2>3. <<r>> \in Seq(Batches)
    BY <2>2
  <2>4. Len(cs) = 3 /\ cs[2] = w
    BY <1>1, <2>3, ConcatProperties
  <2> HIDE DEF cs
  <2>5. job'.batches = cs
    BY <1>2, <2>1 DEF cs
  <2>6. Len(job'.batches) = 3 /\ job'.batches[2] = w
    BY <2>4, <2>5
  <2> QED BY <1>2, <2>1, <2>6 DEF Parts
<1> QED BY <1>3, <1>4

(* A command that is issued leaves its parts before it.                      *)
LEMMA IssuedParts ==
  ASSUME disk \in Disks,
         \/ Status \/ Disconnect \/ Connect \/ Uninstall \/ \E p \in Protocols : Subagents(p)
         \/ \E r : Preflight(r)
         \/ \E mode \in Modes : \E r : Setup(mode, r)
  PROVE  Typed /\ (job' # None => Parts(job', disk))
<1>0. {"route", "subagents", "setup", "uninstall"} \subseteq Commands
  BY DEF Commands
<1>1. Typed
  BY CommandsTyped
<1>2. Refuses => job' = None
  BY RefusesTyped
<1>3. ASSUME NEW bs \in Seq(Batches), Len(bs) \in 0..1, NEW nm \in Commands, Runs(nm, bs)
      PROVE  Parts(job', disk)
  BY <1>3, OnePart DEF Runs
<1>4. <<>> \in Seq(Batches) /\ Len(<<>>) \in 0..1
  BY NothingTyped
<1>5. \A w : Len(Batch(w)) \in 0..1
  BY <1>4 DEF Batch
<1>6. CASE Status \/ \E r : Preflight(r)
  BY <1>0, <1>1, <1>2, <1>3, <1>4, <1>6, StatusRuns, PreflightRuns
<1>7. ASSUME Managed
      PROVE  Batch(DisconnectBatch) \in Seq(Batches) /\ Batch(ConnectBatch) \in Seq(Batches)
  BY <1>7, ManagedTyped
<1>8. CASE Disconnect \/ Connect
  BY <1>0, <1>1, <1>2, <1>3, <1>4, <1>5, <1>7, <1>8, DisconnectRuns, ConnectRuns
<1>9. CASE Uninstall
  <2> DEFINE v == << <<"app", None>> >>
  <2>1. v \in Batches
    BY AppOrder
  <2>2. <<v>> \in Seq(Batches) /\ Len(<<v>>) \in 0..1
    BY <2>1
  <2>3. ASSUME Managed, Runs("uninstall", <<UninstallBatch, v>>)
        PROVE  Parts(job', disk)
    <3>1. UninstallBatch \in Batches /\ Parting("uninstall", UninstallBatch)
      BY <2>3, RemovalParting
    <3>2. Run("uninstall", <<UninstallBatch, v>>)
      BY <2>3 DEF Runs
    <3> HIDE DEF v
    <3> QED BY <2>1, <3>1, <3>2, TwoParts
  <2>4. ASSUME Runs("uninstall", <<v>>)
        PROVE  Parts(job', disk)
    <3> HIDE DEF v
    <3> QED BY <1>0, <1>3, <2>2, <2>4
  <2> QED BY <1>1, <1>2, <1>9, <2>3, <2>4, UninstallRuns
<1>10. ASSUME NEW p \in Protocols, Subagents(p)
       PROVE  job' # None => Parts(job', disk)
  <2> DEFINE bs == <<InstallBatch(p), << <<"app", [disk["app"] EXCEPT !.protocol = p]>> >> >>
  <2>1. ASSUME disk["app"] # None, Runs("subagents", bs)
        PROVE  Parts(job', disk)
    <3>1. bs \in Seq(Batches)
      BY <2>1, SubagentsTyped
    <3>2. Run("subagents", bs)
      BY <2>1 DEF Runs
    <3> HIDE DEF bs
    <3> QED BY <3>1, <3>2, SwitchParts
  <2> QED BY <1>2, <1>10, <2>1, SubagentsRuns
<1>11. ASSUME NEW mode \in Modes, NEW r, Setup(mode, r)
       PROVE  job' # None => Parts(job', disk)
  <2> DEFINE k == [protocol |-> SetupProtocol, mode |-> mode]
             v == << <<"app", k>> >>
             w == InstallBatch(SetupProtocol)
  <2>1. SetupProtocol \in Protocols
    BY SetupProtocolTyped
  <2>2. k \in AppConfig
    BY <2>1 DEF AppConfig
  <2> HIDE DEF k
  <2>3. v \in Batches /\ w \in Batches /\ Parting("setup", v)
    BY <2>1, <2>2, AppOrder, InstallBatchTyped, AppParting
  <2>4. ASSUME Runs("setup", <<v, w>>)
        PROVE  Parts(job', disk)
    <3>1. Run("setup", <<v, w>>)
      BY <2>4 DEF Runs
    <3> HIDE DEF v, w
    <3> QED BY <2>3, <3>1, TwoParts
  <2> QED BY <1>2, <1>11, <2>4, SetupRuns DEF k
<1> QED BY <1>1, <1>6, <1>8, <1>9, <1>10, <1>11

(* A write leaves the parts that are left.                                   *)
LEMMA PartsWrite ==
  ASSUME NEW d \in Disks, NEW jb \in Jobs, Parts(jb, d), ~jb.failing, jb.batches # <<>>, NEW j, NEW x,
         x = [d EXCEPT ![jb.batches[1][1][1]] = jb.batches[1][1][2]],
         \/ Len(jb.batches[1]) > 1 /\ Advances(jb, j)
         \/ ~(Len(jb.batches[1]) > 1) /\ Turns(jb, x, j)
  PROVE  Parts(j, x)
<1> DEFINE bs == jb.batches
           w == bs[1]
           cs == [bs EXCEPT ![1] = Tail(w)]
           nm == jb.name
           two == nm \in {"setup", "uninstall"}
           same == jb.before = jb.found
<1>1. bs \in Seq(Batches) /\ bs # <<>>
  BY JobParts
<1>t. x \in Disks
  <2>1. bs[1] \in Batches
    BY <1>1
  <2>2. w \in Seq(Orders) /\ w # <<>>
    BY <2>1 DEF Batches
  <2> HIDE DEF w
  <2>3. w[1] \in Orders
    BY <2>2
  <2> QED BY <2>3, OrderParts, PutTyped DEF w
<1> HIDE DEF bs
<1>2. /\ Len(bs) \in Nat \ {0} /\ Len(Tail(bs)) = Len(bs) - 1
      /\ Len(bs) = 2 => Tail(bs)[1] = bs[2]
      /\ Len(bs) = 3 => Tail(bs)[1] = bs[2]
      /\ Len(cs) = Len(bs) /\ cs[1] = Tail(w)
      /\ Len(bs) = 3 => cs[2] = bs[2]
  BY <1>1, BatchesLeft
<1> HIDE DEF cs
<1>3. \/ nm = "subagents" /\ same
      \/ jb.repairing /\ same /\ Len(bs) \in 1..2
      \/ jb.repairing /\ same /\ Len(bs) = 3 /\ two /\ Parting(nm, bs[2])
      \/ /\ ~jb.repairing /\ same /\ Len(bs) = 2 /\ two
         /\ \E e \in Disks : Leads(d, w, e, Disks) /\ PartOf(nm, jb.found, e)
      \/ ~jb.repairing /\ Len(bs) = 1 /\ (same \/ (two /\ PartOf(nm, jb.found, jb.before)))
  BY <1>2 DEF Parts, bs
<1>4. \A e : Leads(d, w, e, Disks) =>
        /\ x \in Disks /\ Len(w) \in Nat \ {0} /\ (Len(w) = 1 => x = e)
        /\ Len(w) > 1 => Leads(x, Tail(w), e, Disks)
  BY LeadsOne DEF bs
<1>5. CASE Len(w) > 1 /\ Advances(jb, j)
  <2>1. /\ j.name = nm /\ j.before = jb.before /\ j.found = jb.found /\ j.batches = cs
        /\ j.repairing = jb.repairing /\ j.failing = FALSE
    BY <1>5 DEF Advances, bs, cs
  <2>2. (\E e \in Disks : Leads(d, w, e, Disks) /\ PartOf(nm, jb.found, e))
           => \E e \in Disks : Leads(x, Tail(w), e, Disks) /\ PartOf(nm, jb.found, e)
    BY <1>4, <1>5
  <2> HIDE DEF w
  <2>3. CASE jb.repairing /\ same /\ Len(bs) = 3 /\ two /\ Parting(nm, bs[2])
    BY <1>2, <2>1, <2>3 DEF Parts
  <2>4. CASE /\ ~jb.repairing /\ same /\ Len(bs) = 2 /\ two
             /\ \E e \in Disks : Leads(d, w, e, Disks) /\ PartOf(nm, jb.found, e)
    BY <1>2, <2>1, <2>2, <2>4 DEF Parts
  <2>5. CASE \/ nm = "subagents" /\ same
             \/ jb.repairing /\ same /\ Len(bs) \in 1..2
             \/ ~jb.repairing /\ Len(bs) = 1 /\ (same \/ (two /\ PartOf(nm, jb.found, jb.before)))
    BY <1>2, <2>1, <2>5 DEF Parts
  <2> QED BY <1>3, <2>3, <2>4, <2>5
<1>6. CASE ~(Len(w) > 1) /\ Turns(jb, x, j)
  <2>1. /\ j.name = nm /\ j.batches = Tail(bs) /\ j.repairing = FALSE /\ j.failing = FALSE
        /\ j.before = IF nm = "subagents" /\ ~jb.repairing THEN jb.before ELSE x
        /\ j.found = IF jb.repairing THEN x ELSE jb.found
    BY <1>6 DEF Turns, bs
  <2> HIDE DEF w
  <2>2. CASE nm = "subagents" /\ same
    BY <2>1, <2>2 DEF Parts
  <2>3. CASE nm # "subagents" /\ jb.repairing /\ same /\ Len(bs) \in 1..2
    <3>1. j.before = x /\ j.found = x /\ Len(j.batches) \in 0..1
      BY <1>2, <2>1, <2>3
    <3>2. Len(j.batches) = 0 \/ Len(j.batches) = 1
      BY <3>1
    <3> QED BY <2>1, <3>1, <3>2 DEF Parts
  <2>4. CASE jb.repairing /\ same /\ Len(bs) = 3 /\ two /\ Parting(nm, bs[2])
    <3>1. j.before = x /\ j.found = x /\ Len(j.batches) = 2 /\ j.batches[1] = bs[2]
      <4>1. nm # "subagents"
        BY <2>4
      <4>2. Len(Tail(bs)) = 2 /\ Tail(bs)[1] = bs[2]
        <5> DEFINE n == Len(bs)
                   t == Len(Tail(bs))
                   b == Tail(bs)[1]
                   c == bs[2]
        <5>1. t = n - 1 /\ n = 3 /\ (n = 3 => b = c)
          BY <1>2, <2>4
        <5> HIDE DEF n, t, b, c
        <5>2. t = 2 /\ b = c
          BY <5>1
        <5> QED BY <5>2 DEF t, b, c
      <4>3. j.before = x /\ j.found = x /\ j.batches = Tail(bs)
        BY <2>1, <2>4, <4>1
      <4> QED BY <4>2, <4>3
    <3>2. x \in Disks
      BY <1>t
    <3>3. \E e \in Disks : Leads(x, bs[2], e, Disks) /\ PartOf(nm, x, e)
      BY <2>4, <3>2 DEF Parting
    <3> QED BY <2>1, <2>4, <3>1, <3>3 DEF Parts
  <2>5. CASE /\ ~jb.repairing /\ same /\ Len(bs) = 2 /\ two
             /\ \E e \in Disks : Leads(d, w, e, Disks) /\ PartOf(nm, jb.found, e)
    <3>1. PICK e \in Disks : Leads(d, w, e, Disks) /\ PartOf(nm, jb.found, e)
      BY <2>5
    <3>2. x = e
      <4>1. Len(w) = 1
        BY <1>4, <1>6, <3>1, LastOne
      <4> QED BY <1>4, <3>1, <4>1
    <3>3. j.before = e /\ j.found = jb.found /\ Len(j.batches) = 1
      BY <1>2, <2>1, <2>5, <3>2
    <3> QED BY <2>1, <2>5, <3>1, <3>3 DEF Parts
  <2>6. CASE ~jb.repairing /\ Len(bs) = 1
    <3>1. Len(j.batches) = 0
      BY <1>2, <2>1, <2>6
    <3> QED BY <2>1, <3>1 DEF Parts
  <2> QED BY <1>3, <2>2, <2>3, <2>4, <2>5, <2>6
<1> QED BY <1>5, <1>6 DEF bs

(* A failure, or an undone file, leaves what the batch began with.           *)
LEMMA PartsFail ==
  ASSUME NEW d, NEW x, NEW jb \in Jobs, Parts(jb, d), NEW j,
         \/ ~jb.failing /\ jb.batches # <<>> /\ Fails(jb, j)
         \/ jb.failing /\ Undoes(jb, j)
  PROVE  Parts(j, x)
<1>1. /\ j.name = jb.name /\ j.before = jb.before /\ j.found = jb.found /\ j.batches = jb.batches
      /\ j.repairing = jb.repairing /\ j.failing = TRUE
  <2>1. jb.failing \in BOOLEAN
    BY JobParts
  <2> QED BY <2>1 DEF Fails, Undoes
<1>2. Len(jb.batches) # 0
  <2>1. jb.batches \in Seq(Batches)
    BY JobParts
  <2>2. jb.batches # <<>> => Len(jb.batches) # 0
    BY <2>1, EmptySeq
  <2> QED BY <2>2 DEF Parts
<1> QED BY <1>1, <1>2 DEF Parts

(* What a command that ends has undone.                                      *)
LEMMA PartsEnd ==
  ASSUME disk \in Disks, job \in Jobs, Parts(job, disk), job.failing, disk = job.before
  PROVE  FirstPartAtMost
<1>1. \/ disk = job.found
      \/ job.name \in {"setup", "uninstall"} /\ PartOf(job.name, job.found, disk)
  BY DEF Parts
<1>2. job.name \in {"route", "subagents", "setup", "uninstall"}
  BY JobParts DEF Commands
<1>3. CASE disk = job.found
  BY <1>2, <1>3 DEF FirstPartAtMost
<1>4. CASE job.name = "setup" /\ PartOf("setup", job.found, disk)
  BY <1>4 DEF FirstPartAtMost, PartOf
<1>5. CASE job.name = "uninstall" /\ PartOf("uninstall", job.found, disk)
  BY <1>5 DEF FirstPartAtMost, PartOf, Files
<1> QED BY <1>1, <1>2, <1>3, <1>4, <1>5

(* Every step keeps the parts in order.                                      *)
LEMMA WhitherNext ==
  ASSUME SetupAssumption, TypeInv, Whither, [Next]_vars
  PROVE  Whither'
<1>0. disk \in Disks /\ FilesTyped /\ job \in Jobs \cup {None}
  BY DEF TypeInv, FilesTyped
<1>1. Idles \/ (job' = job /\ disk' = disk) \/ job' = None => Whither'
  BY DEF Idles, integrationVars, Whither
<1>2. \/ Status \/ Disconnect \/ Connect \/ Uninstall \/ (\E p \in Protocols : Subagents(p))
      \/ (\E r : Preflight(r))
      \/ (\E mode \in Modes : \E r : Setup(mode, r))
      => Whither'
  <2>1. Typed => disk' = disk
    BY DEF Typed
  <2> QED BY <1>0, <2>1, IssuedParts DEF Whither
<1>3. ASSUME NEW mode \in Modes, NEW r \in BOOLEAN, SetupBegins(mode, r)
      PROVE  Whither'
  BY <1>2, <1>3 DEF SetupBegins
<1>4. CASE \/ PreflightEnds \/ SetupCannotStop \/ CommandEnds \/ SetupStarts
           \/ BrowserCommits \/ RollsBack \/ RestoreEnds \/ RecoversRuntime
           \/ UninstallBegins \/ RouteIsRestored \/ Boots
  BY <1>1, <1>4 DEF PreflightEnds, SetupCannotStop, CommandEnds, SetupStarts, BrowserCommits, RollsBack,
                    RestoreEnds, RecoversRuntime, UninstallBegins, RouteIsRestored, Boots, Idle
<1>5. CASE SetupStops
  <2>1. tx.mode \in Modes
    BY <1>5 DEF TypeInv, LauncherTyped, TxTyped, SetupStops, At
  <2> QED BY <1>2, <1>5, <2>1 DEF SetupStops
<1>6. CASE \/ UninstallStops \/ UninstallCannotStop \/ RemoveEnds \/ BootStarts
  BY <1>2, <1>6 DEF UninstallStops, UninstallCannotStop, RemoveEnds, BootStarts
<1>7. CASE RemovalIsVerified \/ RouteIsSeen \/ BootSeesRoute \/ BootConnects
  BY <1>1, <1>2, <1>7 DEF RemovalIsVerified, RouteIsSeen, BootSeesRoute, BootConnects, Idles
<1>8. CASE RestoresFile
  <2>1. job' = None
    BY <1>8 DEF RestoresFile, At
  <2> QED BY <1>1, <2>1
<1>9. CASE RestoreFails \/ LauncherDies \/ LauncherQuits
  BY <1>1, <1>9 DEF RestoreFails, LauncherDies, LauncherQuits, Idle
<1>10. CASE Outside
  <2>1. UserEdits => job' = None
    BY DEF UserEdits, Edit
  <2> QED BY <1>1, <1>2, <1>10, <2>1 DEF Outside
<1>11. CASE CodexReads
  <2>1. job' = None
    BY <1>11 DEF CodexReads
  <2> QED BY <1>1, <2>1
<1>12. CASE Write
  <2>1. job \in Jobs /\ Parts(job, disk) /\ ~job.failing /\ job.batches # <<>>
    BY <1>0, <1>12 DEF Write, Whither
  <2>2. LET w == job.batches[1]
        IN  /\ disk' = [disk EXCEPT ![w[1][1]] = w[1][2]]
            /\ Len(w) > 1 => Advances(job, job')
            /\ ~(Len(w) > 1) => Turns(job, disk', job')
    BY <1>0, <1>12, WriteTyped
  <2>3. Parts(job', disk')
    BY <1>0, <2>1, <2>2, PartsWrite
  <2> QED BY <2>3 DEF Whither
<1>13. CASE WriteFails
  <2>1. job \in Jobs /\ Parts(job, disk) /\ ~job.failing /\ job.batches # <<>>
    BY <1>0, <1>13 DEF WriteFails, Whither
  <2>2. Fails(job, job')
    BY <1>0, <1>13, WriteFailsTyped
  <2>3. Parts(job', disk')
    BY <2>1, <2>2, PartsFail
  <2> QED BY <2>3 DEF Whither
<1>14. CASE Undo \/ UndoFails
  <2>1. job \in Jobs /\ Parts(job, disk)
    BY <1>0, <1>14 DEF Undo, UndoFails, Whither
  <2>2. job.failing /\ Undoes(job, job')
    BY <1>0, <1>14, UndoTyped
  <2>3. Parts(job', disk')
    BY <2>1, <2>2, PartsFail
  <2> QED BY <2>3 DEF Whither
<1>15. CASE Ends \/ Dies
  BY <1>1, <1>15 DEF Ends, Dies
<1>16. CASE UNCHANGED vars
  BY <1>1, <1>16 DEF vars, integrationVars
<1> QED BY <1>3, <1>4, <1>5, <1>6, <1>7, <1>8, <1>9, <1>10, <1>11, <1>12, <1>13, <1>14, <1>15, <1>16
        DEF Next, ProcessStep

(* Harm is remembered.                                                       *)
LEMMA BrokenGrows ==
  ASSUME TypeInv, [Next]_vars
  PROVE  broken \subseteq broken'
<1>0. disk \in Disks
  BY DEF TypeInv, FilesTyped
<1>1. Idles \/ Typed => broken' = broken
  BY DEF Idles, Typed, integrationVars, userVars
<1>2. ASSUME NEW mode \in Modes, NEW r \in BOOLEAN, SetupBegins(mode, r)
      PROVE  broken' = broken
  BY <1>0, <1>1, <1>2, CommandsTyped DEF SetupBegins
<1>3. CASE \/ PreflightEnds \/ SetupStops \/ SetupCannotStop \/ CommandEnds \/ SetupStarts
           \/ BrowserCommits \/ RollsBack \/ RestoreEnds \/ RecoversRuntime
           \/ UninstallBegins \/ UninstallStops \/ UninstallCannotStop \/ RemoveEnds
           \/ RemovalIsVerified \/ RouteIsSeen \/ RouteIsRestored
           \/ Boots \/ BootStarts \/ BootSeesRoute \/ BootConnects
  BY <1>1, <1>3, LauncherKinds
<1>4. CASE RestoresFile \/ RestoreFails \/ LauncherDies \/ LauncherQuits
  BY <1>4 DEF RestoresFile, RestoreFails, LauncherDies, LauncherQuits, Idle
<1>5. CASE Outside
  <2>1. UserEdits => broken' = broken
    BY DEF UserEdits, Edit
  <2>2. Connect \/ Disconnect \/ (\E p \in Protocols : Subagents(p)) => Typed
    BY <1>0, CommandsTyped
  <2> QED BY <1>1, <1>5, <2>1, <2>2 DEF Outside
<1>6. CASE CodexReads
  BY <1>6 DEF CodexReads
<1>7. CASE ProcessStep
  BY <1>7 DEF ProcessStep, Write, WriteFails, Undo, UndoFails, Ends, Dies
<1>8. CASE UNCHANGED vars
  BY <1>8 DEF vars, integrationVars
<1> QED BY <1>2, <1>3, <1>4, <1>5, <1>6, <1>7, <1>8 DEF Next

(* Every step keeps the files whole, unless an undo fails or a death leaves   *)
(* them split.                                                               *)
LEMMA NowNext ==
  ASSUME SetupAssumption, TypeInv, Now, [Next]_vars, "undo" \notin broken', "split" \notin broken'
  PROVE  Next1
<1>1. ASSUME NEW mode \in Modes, NEW r \in BOOLEAN, SetupBegins(mode, r)
      PROVE  Next1
  BY <1>1, BeginsNext
<1>2. CASE PreflightEnds \/ CommandEnds \/ SetupStarts \/ BrowserCommits
  BY <1>2, SetupMoves
<1>3. CASE SetupStops
  BY <1>3, StopsNext
<1>4. CASE SetupCannotStop \/ RollsBack
  BY <1>4, BackNext
<1>5. CASE RestoresFile
  BY <1>5, FileNext
<1>6. CASE RestoreFails \/ UndoFails
  BY <1>6 DEF RestoreFails, UndoFails
<1>7. CASE RestoreEnds
  BY <1>7, RestoredNext
<1>8. CASE \/ RecoversRuntime \/ UninstallBegins \/ UninstallStops \/ UninstallCannotStop \/ RemoveEnds
           \/ RemovalIsVerified \/ RouteIsSeen \/ RouteIsRestored
           \/ Boots \/ BootStarts \/ BootSeesRoute \/ BootConnects \/ LauncherQuits
  BY <1>8, OtherNext
<1>9. CASE LauncherDies
  BY <1>9, LauncherDiesNext
<1>10. CASE Outside
  BY <1>10, OutsideNext
<1>11. CASE ~At("restore") /\ CodexReads /\ UNCHANGED launcherVars
  BY <1>11, ReadsNext DEF launcherVars
<1>12. CASE ProcessStep /\ UNCHANGED launcherVars
  <2>1. UNCHANGED tx
    BY <1>12 DEF launcherVars
  <2> QED BY <1>6, <1>12, <2>1, WorkNext, EndsNext, DiesNext DEF ProcessStep
<1>13. CASE UNCHANGED vars
  BY <1>13 DEF vars, integrationVars, launcherVars, userVars, Now, Next1
<1> QED BY <1>1, <1>2, <1>3, <1>4, <1>5, <1>6, <1>7, <1>8, <1>9, <1>10, <1>11, <1>12, <1>13 DEF Next

-----------------------------------------------------------------------------
(* The theorems.                                                             *)

SetupInv == TypeInv /\ (Unharmed => Now) /\ Whither

(* At first the files are the user's.                                        *)
LEMMA NowInit ==
  ASSUME SetupAssumption, Init
  PROVE  Now
<1> DEFINE m == "death" \in broken
<1>1. /\ own \in UserLines /\ own \in Lines /\ disk["config"] = own /\ disk["app"] = None
      /\ disk["primary"] = None /\ disk["recovery"] = None /\ disk["cache"] = None
  BY FirstFiles
<1>2. job = None /\ tx = None /\ ambiguous \in BOOLEAN /\ (own.realtime = Ours => ambiguous)
      /\ m \in BOOLEAN
  <2>1. job = None /\ tx = None /\ ambiguous = (own.realtime = Ours)
    BY DEF Init, IntegrationInit
  <2>2. m \in BOOLEAN
    OBVIOUS
  <2> HIDE DEF m
  <2>3. ambiguous \in BOOLEAN /\ (own.realtime = Ours => ambiguous)
    BY <2>1, Zenon
  <2> QED BY <2>1, <2>2, <2>3
<1>3. Users(own, ambiguous, m)
  BY <1>1, <1>2, Apart DEF Users
<1> HIDE DEF m
<1>4. TextOf(own) = own
  BY <1>1, <1>3 DEF TextOf, Users, NoneApart
<1>5. Safe(disk, own, ambiguous, m)
  <2>1. OwnLines(own, own) /\ Plain(own, own, ambiguous /\ m)
    BY <1>1, UserParts DEF OwnLines, Plain, Told
  <2>2. Fit(None, None, own, own, ambiguous, m)
    BY <1>2, <2>1, FitNone
  <2> QED BY <1>1, <1>4, <2>2 DEF Safe
<1>6. Agree(disk, edits)
  BY <1>1 DEF Agree
<1> QED BY <1>2, <1>3, <1>5, <1>6 DEF Now, Whole, m

(* The invariant holds of every state.                                       *)
LEMMA SetupInvariant ==
  ASSUME SetupAssumption
  PROVE  Spec => []SetupInv
<1>1. Init => SetupInv
  <2>1. Init => Whither
    BY DEF Init, IntegrationInit, Whither
  <2> QED BY <2>1, TypeInvInit, NowInit DEF SetupInv
<1>2. SetupInv /\ [Next]_vars => SetupInv'
  <2> SUFFICES ASSUME SetupInv, [Next]_vars
               PROVE  SetupInv'
    OBVIOUS
  <2>1. TypeInv /\ TypeInv'
    BY TypeInvNext DEF SetupInv
  <2>2. broken \subseteq broken'
    BY <2>1, BrokenGrows
  <2>3. Unharmed' => "undo" \notin broken' /\ "split" \notin broken' /\ Unharmed
    BY <2>2 DEF Unharmed
  <2>4. Unharmed' => Next1
    BY <2>1, <2>3, NowNext DEF SetupInv
  <2>5. Next1 => Now'
    BY DEF Next1, Now
  <2>6. Whither'
    BY <2>1, WhitherNext DEF SetupInv
  <2> QED BY <2>1, <2>4, <2>5, <2>6 DEF SetupInv
<1> QED BY <1>1, <1>2, PTL DEF Spec

(* A text is what its lines are.                                             *)
LEMMA LinesEqual ==
  ASSUME NEW c \in Lines, NEW d \in Lines, c.base = d.base, c.realtime = d.realtime,
         c.marker = d.marker, c.feature = d.feature, c.hook = d.hook
  PROVE  c = d
BY DEF Lines

(* What an installation takes for the user's is the user's.                  *)
LEMMA TakenIsOwn ==
  ASSUME NEW b \in Lines, NEW o \in UserLines, NEW a, NEW m, Plain(b, o, a /\ m)
  PROVE  LET t == [b EXCEPT !.hook = None]
         IN  t = o \/ (a /\ m /\ t = [o EXCEPT !.realtime = Ours])
<1> DEFINE t == [b EXCEPT !.hook = None]
           q == [o EXCEPT !.realtime = Ours]
<1> SUFFICES t = o \/ (a /\ m /\ t = q)
  OBVIOUS
<1>1. o \in Lines /\ o.marker = FALSE /\ o.hook = None
  BY UserParts
<1>2. /\ t \in Lines /\ t.base = b.base /\ t.realtime = b.realtime /\ t.marker = b.marker
      /\ t.feature = b.feature /\ t.hook = None
  BY DEF Lines
<1>3. /\ q \in Lines /\ q.base = o.base /\ q.realtime = Ours /\ q.marker = o.marker
      /\ q.feature = o.feature /\ q.hook = o.hook
  BY <1>1 DEF Lines
<1>4. b.base = o.base /\ b.feature = o.feature /\ b.marker = FALSE
      /\ (b.realtime = o.realtime \/ (a /\ m /\ b.realtime = Ours))
  <2>1. b.marker \in BOOLEAN
    BY LineParts
  <2> QED BY <2>1 DEF Plain, Told
<1> HIDE DEF t, q
<1>5. CASE b.realtime = o.realtime
  BY <1>1, <1>2, <1>4, <1>5, LinesEqual
<1>6. CASE a /\ m /\ b.realtime = Ours
  <2>1. t = q
    BY <1>1, <1>2, <1>3, <1>4, <1>6, LinesEqual
  <2> QED BY <1>6, <2>1
<1> QED BY <1>4, <1>5, <1>6

(* What the files are at rest.                                               *)
LEMMA RestingFiles ==
  ASSUME SetupInv, AtRest, Unharmed
  PROVE  /\ Users(own, ambiguous, "death" \in broken)
         /\ disk \in Settled(None, own, ambiguous, "death" \in broken, edits)
         /\ "death" \notin broken => Agree(disk, edits)
<1> DEFINE m == "death" \in broken
<1>1. disk \in Disks /\ Whole(disk, None, None, exit, own, ambiguous, m, edits)
  BY DEF SetupInv, TypeInv, FilesTyped, AtRest, Now
<1> HIDE DEF m
<1>2. ~Restoring(None) /\ Other(None)
  BY DEF Restoring, Other
<1>3. Users(own, ambiguous, m) /\ disk \in Settled(None, own, ambiguous, m, edits)
  BY <1>1, <1>2, WholeSettled
<1>4. ~m => Agree(disk, edits)
  BY <1>1, <1>2 DEF Whole
<1> QED BY <1>3, <1>4 DEF m

(* At every state the files hold together, whatever the user's lines, the    *)
(* URLs and the bounds: what an installation would take for the user's text  *)
(* is the user's, through failures and deaths at any write of any command    *)
(* (installRoute, replacementBaseline), but for a death while a change of    *)
(* protocol is undone that leaves a split (setCodexSubagentProtocol); a      *)
(* command that changed the protocol left both halves the same, and the      *)
(* cached models are the route's.                                            *)
THEOREM FilesAlwaysHold ==
  ASSUME SetupAssumption
  PROVE  Spec => []FilesHold
<1>1. SetupInv => FilesHold
  <2> SUFFICES ASSUME SetupInv
               PROVE  FilesHold
    OBVIOUS
  <2> DEFINE m == "death" \in broken
  <2>1. TypeOK
    <3>1. /\ disk["app"] \in AppConfig \cup {None} /\ disk["config"] \in Lines \cup {None}
          /\ disk["cache"] \in {None, "bridge", "own"}
          /\ disk["recovery"] \in Journal \cup {None} /\ disk["primary"] \in Journal \cup {None}
      BY DiskParts DEF SetupInv, TypeInv, FilesTyped
    <3>2. job # None => job.name \in Commands /\ job.before["app"] \in AppConfig \cup {None}
      BY JobParts, DiskParts DEF SetupInv, TypeInv, FilesTyped
    <3>3. tx # None => tx.at \in Steps
      BY DEF SetupInv, TypeInv, LauncherTyped, TxTyped, Operations
    <3> QED BY <3>1, <3>2, <3>3 DEF SetupInv, TypeInv, FilesTyped, LauncherTyped, TypeOK
  <2>2. OwnIsKept
    <3> SUFFICES ASSUME AtRest, ~Unreadable, Unharmed
                 PROVE  LET taken == [Baseline EXCEPT !.hook = None]
                        IN  \/ taken = own
                            \/ ambiguous /\ m /\ taken = [own EXCEPT !.realtime = Ours]
      BY DEF OwnIsKept
    <3>1. Users(own, ambiguous, m) /\ disk \in Settled(None, own, ambiguous, m, edits)
      BY RestingFiles
    <3>2. own \in UserLines
      BY <3>1 DEF Users
    <3> HIDE DEF m
    <3>3. Baseline \in Lines /\ Plain(Baseline, own, ambiguous /\ m)
      BY <3>1, BaselineTaken
    <3> QED BY <3>2, <3>3, TakenIsOwn
  <2>3. ASSUME AtRest, broken = {}
        PROVE  Agree(disk, edits) /\ ReadJournal = disk["primary"]
    <3>0. Unharmed
      BY <2>3 DEF Unharmed
    <3>1. Agree(disk, edits)
      BY <2>3, <3>0, RestingFiles
    <3>2. disk["primary"] = disk["recovery"]
      BY <3>1 DEF Agree
    <3> QED BY <3>1, <3>2, Reading DEF Chosen
  <2>4. ProtocolsAgree
    BY <2>3 DEF ProtocolsAgree, Agree
  <2>5. CacheMatchesRoute
    BY <2>3, Reading DEF CacheMatchesRoute, Agree
  <2> QED BY <2>1, <2>2, <2>4, <2>5 DEF FilesHold
<1> QED BY <1>1, SetupInvariant, PTL

(* A command that fails by itself has undone its batch of writes; only of a   *)
(* setup or an uninstall may the first part be left.                         *)
LEMMA CommandsUndo ==
  ASSUME SetupAssumption, SetupInv, Next
  PROVE  CommandUndone
<1> SUFFICES ASSUME job # None, job' = None, exit' = "failed", broken' = {}
             PROVE  disk = job.before /\ FirstPartAtMost
  BY DEF CommandUndone
<1>0. TypeInv /\ disk \in Disks /\ Now /\ job \in Jobs /\ Parts(job, disk)
  <2>1. TypeInv /\ disk \in Disks /\ job \in Jobs /\ Parts(job, disk)
    BY DEF SetupInv, TypeInv, FilesTyped, Whither
  <2>2. broken = {}
    BY <2>1, BrokenGrows
  <2>3. Unharmed
    BY <2>2 DEF Unharmed
  <2> QED BY <2>1, <2>3 DEF SetupInv
<1>1. ~Idles /\ ~Typed
  BY DEF Idles, Typed, integrationVars
<1>2. ASSUME NEW mode \in Modes, NEW r \in BOOLEAN, SetupBegins(mode, r)
      PROVE  FALSE
  BY <1>0, <1>1, <1>2, CommandsTyped DEF SetupBegins
<1>3. CASE \/ PreflightEnds \/ SetupStops \/ SetupCannotStop \/ CommandEnds \/ SetupStarts
           \/ BrowserCommits \/ RollsBack \/ RestoreEnds \/ RecoversRuntime
           \/ UninstallBegins \/ UninstallStops \/ UninstallCannotStop \/ RemoveEnds
           \/ RemovalIsVerified \/ RouteIsSeen \/ RouteIsRestored
           \/ Boots \/ BootStarts \/ BootSeesRoute \/ BootConnects
  BY <1>0, <1>1, <1>3, LauncherKinds
<1>4. CASE RestoresFile \/ RestoreFails \/ LauncherDies \/ LauncherQuits
  BY <1>4 DEF RestoresFile, RestoreFails, LauncherDies, LauncherQuits, Idle
<1>5. CASE Outside
  <2>1. ~UserEdits
    BY DEF UserEdits, Edit
  <2>2. ~(Connect \/ Disconnect \/ \E p \in Protocols : Subagents(p))
    BY <1>0, <1>1, CommandsTyped
  <2> QED BY <1>5, <2>1, <2>2 DEF Outside
<1>6. CASE CodexReads
  BY <1>6 DEF CodexReads
<1>7. CASE ProcessStep /\ UNCHANGED launcherVars
  <2>1. UNCHANGED tx
    BY <1>7 DEF launcherVars
  <2>2. CASE Write \/ WriteFails \/ Undo
    BY <1>0, <2>2, WorkTyped DEF TypeInv
  <2>3. CASE UndoFails \/ Dies
    BY <2>3 DEF UndoFails, Dies
  <2>4. CASE Ends
    <3>1. job.failing /\ disk = job.before
      <4>1. job.failing
        BY <2>4 DEF Ends
      <4> QED BY <1>0, <2>1, <2>4, <4>1, EndsNext
    <3>2. FirstPartAtMost
      BY <1>0, <3>1, PartsEnd
    <3> QED BY <3>1, <3>2
  <2> QED BY <1>7, <2>2, <2>3, <2>4 DEF ProcessStep
<1> QED BY <1>2, <1>3, <1>4, <1>5, <1>6, <1>7 DEF Next

(* A setup that has been rolled back is at its checkpoint.                   *)
LEMMA SetupsUndo ==
  ASSUME SetupInv
  PROVE  SetupUndone
<1> SUFFICES ASSUME At("recover"), Unharmed
             PROVE  \A f \in Files \ {"cache"} : disk[f] = tx.checkpoint[f]
  BY DEF SetupUndone
<1>1. Now /\ tx # None /\ tx.at = "recover"
  BY DEF SetupInv, At
<1>2. Remembers(disk, job, tx, exit, own, ambiguous, "death" \in broken, edits)
  BY <1>1 DEF Now, Whole, SetupOnly
<1> QED BY <1>1, <1>2 DEF Remembers

(* What a failure leaves, wherever it happens: nothing of the batch whose    *)
(* write failed (writeFilesWithCompensation); nothing at all of a change of  *)
(* the route or the protocol (setCodexSubagentProtocol), and of a setup or an *)
(* uninstallation their first part at most (setup, uninstallCommand); and    *)
(* nothing of a setup that is rolled back, even when its command died        *)
(* between two writes (restoreSetupCheckpoint).                              *)
THEOREM FailuresLeaveNoTrace ==
  ASSUME SetupAssumption
  PROVE  Spec => FailureLeavesNoTrace
<1>1. SetupInv /\ [Next]_vars => [CommandUndone /\ SetupUndone]_vars
  BY CommandsUndo, SetupsUndo
<1> QED BY <1>1, SetupInvariant, PTL DEF Spec, FailureLeavesNoTrace
=============================================================================
