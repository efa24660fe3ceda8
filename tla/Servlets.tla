------------------------------ MODULE Servlets ------------------------------
(***************************************************************************)
(* Which servlet answers (src/src/http/server/servlet.cpp): the table of   *)
(* ServletDispatch, by name, by pattern and by default.  Every call holds  *)
(* the read-write lock from beginning to end, so each is one step.  A      *)
(* servlet is the number of the call that registered it.                   *)
(***************************************************************************)
EXTENDS Integers, Sequences, SequencesExt, FiniteSetsExt

CONSTANTS Names,      \* names of servlets
          Patterns,   \* names with a "*" at their end
          MaxCalls    \* bound: calls that change the table

VARIABLES datas,      \* m_datas: what each name is bound to
          globs,      \* m_globs: pairs of a pattern and a servlet
          fallback,   \* m_default_servlet
          calls       \* history of the calls: what was done to which entry
servletVars == <<datas, globs, fallback, calls>>

None == 0
\* What a call is about: a name, a pattern (which may read the same) or the default.
Exact(name) == <<"name", name>>
Glob(pattern) == <<"pattern", pattern>>
Default == <<"default", <<>>>>
\* The servlet of a dispatch that has been told nothing.
NotFound == -1

ServletInit ==
  /\ datas = [n \in Names |-> None]
  /\ globs = <<>> /\ fallback = NotFound /\ calls = <<>>

\* fnmatch() without flags: a "*" stands for any text, with slashes or without.
Matches(pattern, path) == IsPrefix(Front(pattern), path)

\* The list without the first entry of that name.
Erased(name) ==
  LET i == SelectInSeq(globs, LAMBDA entry : entry[1] = name) IN
  IF i = 0 THEN globs ELSE RemoveAt(globs, i)
\* Mutant of WithGlob: the entry that was there stays.
WithGlobTwice(name, servlet) == Append(globs, <<name, servlet>>)

WithGlob(name, servlet) == Append(Erased(name), <<name, servlet>>)

Call(op, entry) == Len(calls) < MaxCalls /\ calls' = Append(calls, <<op, entry>>)
This == Len(calls) + 1

AddServlet(name) ==
  /\ Call("add", Exact(name))
  /\ datas' = [datas EXCEPT ![name] = This]
  /\ UNCHANGED <<globs, fallback>>
AddGlobServlet(name) ==
  /\ Call("add", Glob(name))
  /\ globs' = WithGlob(name, This)
  /\ UNCHANGED <<datas, fallback>>
DeleteServlet(name) ==
  /\ Call("delete", Exact(name))
  /\ datas' = [datas EXCEPT ![name] = None]
  /\ UNCHANGED <<globs, fallback>>
DeleteGlobServlet(name) ==
  /\ Call("delete", Glob(name))
  /\ globs' = Erased(name)
  /\ UNCHANGED <<datas, fallback>>
\* The one that takes no lock: a lookup at the same time is a race this leaves out.
SetDefaultServlet ==
  /\ Call("add", Default)
  /\ fallback' = This
  /\ UNCHANGED <<datas, globs>>

ServletCall ==
  \/ \E n \in Names : AddServlet(n) \/ DeleteServlet(n)
  \/ \E n \in Patterns : AddGlobServlet(n) \/ DeleteGlobServlet(n)
  \/ SetDefaultServlet

\* getMatched_servlet()
MatchedServlet(path) ==
  LET i == SelectInSeq(globs, LAMBDA entry : Matches(entry[1], path)) IN
  IF path \in Names /\ datas[path] # None THEN datas[path]
  ELSE IF i # 0 THEN globs[i][2] ELSE fallback

-----------------------------------------------------------------------------
(* What the calls ask for.                                                 *)

\* The servlet the calls have left registered in an entry.
Standing(entry) ==
  LET about == {i \in DOMAIN calls : calls[i][2] = entry} IN
  IF about # {} /\ calls[Max(about)][1] = "add" THEN Max(about) ELSE None
\* The newest of a name, then the one whose pattern has stood longest, then the default.
Asked(path) ==
  LET matching == {Standing(Glob(p)) : p \in {q \in Patterns : Matches(q, path)}} \ {None} IN
  IF Standing(Exact(path)) # None THEN Standing(Exact(path))
  ELSE IF matching # {} THEN Min(matching)
  ELSE IF Standing(Default) # None THEN Standing(Default) ELSE NotFound

ServletSpec == ServletInit /\ [][ServletCall]_servletVars
=============================================================================
