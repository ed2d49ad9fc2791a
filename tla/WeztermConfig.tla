----------------------------- MODULE WeztermConfig -----------------------------
(***************************************************************************)
(* The managed block of the user's WezTerm configuration: setup_wezterm.py *)
(* ensure_band_plugin_config.  A file is the sequence of its lines, and a  *)
(* line is what the regular expressions tell apart: the markers "begin"    *)
(* and "END", the lines "do" and "end", "apply" (the plugin), "builder"    *)
(* (config = wezterm.config_builder()), "require" (of wezterm), "return",  *)
(* an indented return "inner", "on" (wezterm.on), "comment", "blank",      *)
(* "legacy" (dofile of the old plugin) and any other "user" line.  "open"  *)
(* and "close" are the lines --[[ and --]] around a long comment, whose    *)
(* other lines have the kind they would have outside; carriage returns are *)
(* left out.                                                               *)
(***************************************************************************)
EXTENDS Naturals, Sequences, SequencesExt, FiniteSetsExt

CONSTANTS Files,      \* configurations to begin with
          Typed,      \* the lines that the user types
          Setups,     \* runs of the setup command
          MaxEdits,   \* bound: edits by the user
          None        \* no file

VARIABLES file, setup, edits

configVars == <<file, setup, edits>>

Block == <<"begin", "do", "require", "apply", "end", "END">>
Comments == {"comment", "blank", "begin", "END", "open", "close"}

Fresh(comments) == <<"require", "builder", "blank">> \o Block \o <<"blank">> \o comments \o <<"return">>

\* The numbers of the lines of some kinds, and those behind line i.
Lines(s, kinds) == {i \in DOMAIN s : s[i] \in kinds}
After(s, i, kinds) == {j \in Lines(s, kinds) : j > i}
Cut(s, from, to) == SubSeq(s, 1, from - 1) \o SubSeq(s, to + 1, Len(s))

\* _long_comment_ranges and _first_match_outside_long_comments: a comment that
\* is never closed goes to the end.
InComment(s, i) == \E o \in Lines(s, {"open"}) : o < i /\ After(s, o, {"close"}) \cap 1..(i - 1) = {}
Outside(s, kinds) == {i \in Lines(s, kinds) : ~InComment(s, i)}

Text(s) == {i \in DOMAIN s : s[i] # "blank"}
StripLeft(s) == IF Text(s) = {} THEN <<>> ELSE SubSeq(s, Min(Text(s)), Len(s))
StripRight(s) == IF Text(s) = {} THEN <<>> ELSE SubSeq(s, 1, Max(Text(s)))

-----------------------------------------------------------------------------
(* _upsert_managed_block.                                                  *)

\* _MANAGED_BLOCK_RE: from a begin to the first end of a block.
Ends(s, i) == {j \in After(s, i + 1, {"end"}) : j < Len(s) /\ s[j + 1] = "END"}
Begins(s) == {i \in Lines(s, {"begin"}) :
                i < Len(s) /\ s[i + 1] = "do" /\ Ends(s, i) # {}}

\* The lines from i on, without whole blocks.
StripBlocks(s) ==
  LET rest[i \in 1..(Len(s) + 1)] ==
        LET begins == {b \in Begins(s) : b >= i} IN
        IF begins = {} THEN SubSeq(s, i, Len(s))
        ELSE SubSeq(s, i, Min(begins) - 1) \o rest[Min(Ends(s, Min(begins))) + 2]
  IN rest[1]

\* _strip_orphan_begins: the first begin up to its END unless a return is
\* between them, else up to the next return, else the marker alone.
StripOrphan(s) ==
  LET b == Min(Lines(s, {"begin"}))
      ends == After(s, b, {"END"})
      returns == After(s, b, {"return", "inner"})
  IN IF ends # {}
     THEN Cut(s, b, IF \E r \in returns : r < Min(ends) THEN b ELSE Min(ends))
     ELSE Cut(s, b, IF returns # {} THEN Min(returns) - 1 ELSE b)

BugStripOrphans(s) == s

\* Until there is no begin: a line goes each time.
StripOrphans(s) ==
  LET stripped[n \in 0..Len(s)] ==
        IF n = 0 THEN s
        ELSE LET t == stripped[n - 1]
             IN IF Lines(t, {"begin"}) = {} THEN t ELSE StripOrphan(t)
  IN stripped[Len(s)]

\* _insert_managed_block: the search for the return, unlike those before it,
\* does not skip long comments.
InsertBlock(s) ==
  LET builder == Outside(s, {"builder"})
      require == Outside(s, {"require"})
      return == Lines(s, {"return"})
      Upto(i) == SubSeq(s, 1, i)
      From(i) == SubSeq(s, i, Len(s))
      Rest(i) == Block \o <<"blank">> \o StripLeft(From(i))
  IN IF builder # {} THEN Upto(Min(builder)) \o <<"blank">> \o Rest(Min(builder) + 1)
     ELSE IF require # {} THEN Upto(Min(require)) \o Rest(Min(require) + 1)
     ELSE IF return # {} /\ \A i \in Lines(s, {"on"}) : i > Max(return)
          THEN LET prefix == StripRight(Upto(Max(return) - 1)) IN
               (IF prefix = <<>> THEN <<"blank">> ELSE prefix)
                 \o Block \o <<"blank">> \o From(Max(return))
     ELSE IF return = {} /\ ToSet(s) \subseteq Comments
          THEN Fresh(StripLeft(StripRight(s)))
     ELSE Rest(1)

Upsert(s) ==
  LET cleaned == StripOrphans(StripBlocks(SelectSeq(s, LAMBDA l : l # "legacy"))) IN
  IF ToSet(cleaned) \subseteq {"blank"} THEN Fresh(<<>>) ELSE InsertBlock(cleaned)

-----------------------------------------------------------------------------
Idle == [at |-> "idle", text |-> <<>>]

Init ==
  /\ file \in Files
  /\ setup = [p \in Setups |-> Idle] /\ edits = 0

\* ensure_band_plugin_config and _write_upserted: the file as it is read.
Read(p) ==
  /\ setup[p].at \in {"idle", "exists"}
  /\ setup' = [setup EXCEPT ![p] =
       IF file = None THEN [at |-> "publish", text |-> <<>>]
       ELSE IF Upsert(file) = file THEN [at |-> "done", text |-> <<>>]
       ELSE [at |-> "write", text |-> Upsert(file)]]
  /\ UNCHANGED <<file, edits>>

\* _publish_exclusive: os.link creates the whole file; where links are not
\* supported, os.open makes an empty one first.  A file that appeared stays.
Publish(p) ==
  /\ setup[p].at = "publish"
  /\ \/ /\ file # None
        /\ setup' = [setup EXCEPT ![p].at = "exists"] /\ UNCHANGED file
     \/ /\ file = None /\ file' = Fresh(<<>>)
        /\ setup' = [setup EXCEPT ![p].at = "done"]
     \/ /\ file = None /\ file' = <<>>
        /\ setup' = [setup EXCEPT ![p].at = "placed"]
  /\ UNCHANGED edits

\* _publish_exclusive_via_creat: os.replace, over whatever is there.
Replace(p) ==
  /\ setup[p].at = "placed"
  /\ file' = Fresh(<<>>) /\ setup' = [setup EXCEPT ![p].at = "done"]
  /\ UNCHANGED edits

\* _atomic_write.
Write(p) ==
  /\ setup[p].at = "write"
  /\ file' = setup[p].text
  /\ setup' = [setup EXCEPT ![p] = [Idle EXCEPT !.at = "done"]]
  /\ UNCHANGED edits

\* The user creates the file, deletes a line, or types one.
Edit ==
  /\ edits < MaxEdits /\ edits' = edits + 1
  /\ IF file = None THEN file' \in {<<l>> : l \in Typed}
     ELSE \/ \E i \in DOMAIN file : file' = RemoveAt(file, i)
          \/ \E i \in 1..(Len(file) + 1), l \in Typed : file' = InsertAt(file, i, l)
  /\ UNCHANGED setup

Again(p) ==
  /\ setup[p].at = "done" /\ setup' = [setup EXCEPT ![p] = Idle]
  /\ UNCHANGED <<file, edits>>

Next == Edit \/ \E p \in Setups : Read(p) \/ Publish(p) \/ Replace(p) \/ Write(p) \/ Again(p)

-----------------------------------------------------------------------------
TypeOK ==
  /\ file = None \/ \A i \in DOMAIN file : file[i] \in Range(Block) \cup
       {"builder", "return", "inner", "on", "user", "comment", "blank", "legacy",
        "open", "close"}
  /\ \A p \in Setups : setup[p].at \in {"idle", "publish", "placed", "exists", "write", "done"}
  /\ edits \in 0..MaxEdits

BlockAt(s, i) == i + 5 <= Len(s) /\ SubSeq(s, i, i + 5) = Block
Blocks(s) == {i \in DOMAIN s : BlockAt(s, i)}
Strays(s) == Lines(s, {"begin"}) \ Blocks(s)

\* The user's own lines: those outside blocks, and not between an opening
\* marker without a block and a later END or return.
Own(s) ==
  LET mine == {i \in DOMAIN s :
                 /\ s[i] \notin {"begin", "END", "blank", "legacy"}
                 /\ ~\E b \in Blocks(s) : i \in b..(b + 5)
                 /\ ~\E b \in Strays(s) : b < i /\ After(s, i, {"END", "return", "inner"}) # {}}
  IN [n \in 1..Cardinality(mine) |-> s[CHOOSE i \in mine : Cardinality(mine \cap 1..i) = n]]

\* The lines s are among the lines t, in their order.
Among(s, t) ==
  LET place[n \in 0..Len(s)] ==
        IF n = 0 THEN 0
        ELSE LET next == After(t, place[n - 1], {s[n]})
             IN IF next = {} THEN Len(t) + 1 ELSE Min(next)
  IN place[Len(s)] <= Len(t)

\* A file that Lua accepts: comments are closed and nothing follows a return;
\* and every opening marker is that of a block.
Loads(s) ==
  /\ \A o \in Lines(s, {"open"}) : After(s, o, {"close"}) # {}
  /\ \A i \in Outside(s, {"return"}) : \A j \in i + 1..Len(s) : s[j] \in Comments \/ InComment(s, j)
  /\ Strays(s) = {}

\* The block of a file that has been set up runs.
Effective(s) == \A b \in Blocks(s) : ~InComment(s, b) /\ \A i \in Outside(s, {"return"}) : b < i

(***************************************************************************)
(* Whatever the user made of the file, setting it up leaves one whole      *)
(* block and no other opening marker, setting it up again changes nothing, *)
(* and the user's own lines stay in their order.  A file that Lua accepts  *)
(* is still accepted, and the block in it runs, if no return is in a long  *)
(* comment.                                                                *)
(***************************************************************************)
UpsertIsSound ==
  file # None =>
    LET done == Upsert(file) IN
    /\ Strays(done) = {} /\ Cardinality(Blocks(done)) = 1
    /\ Upsert(done) = done
    /\ Among(Own(file), Own(done))
    /\ Loads(file) /\ Lines(file, {"return"}) = Outside(file, {"return"}) => Loads(done) /\ Effective(done)

\* The block of a file that Lua accepts runs, long comments or not.
BlockRuns == file # None /\ Loads(file) => Effective(Upsert(file))

\* An opening marker that has lost its END costs the user no lines.
OrphansKeepLines ==
  file # None /\ Lines(file, {"END"}) = {} =>
    Cardinality(Lines(file, {"user"})) = Cardinality(Lines(Upsert(file), {"user"}))

\* Publishing a first configuration never replaces a text that appeared.
PublishKeepsFile ==
  [][ \A p \in Setups :
        setup[p].at \in {"publish", "placed"} /\ setup'[p] # setup[p] =>
          file \in {None, <<>>} \/ file' = file ]_configVars
=============================================================================
