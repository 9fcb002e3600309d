---------------------------- MODULE ToolManager ----------------------------
(* The registry of tools and the calls made through it by the threads of the  *)
(* pool.  callTool finds the tool under a shared lock, lets the lock go and   *)
(* executes through the raw pointer, so a call is two steps, and between them *)
(* others may destroy the tool, unmap its code or tear its state down: what   *)
(* the call has lost is kept with it.                                         *)
EXTENDS Naturals, Functions

CONSTANTS
  Callers,  \* threads of the pool
  Names,    \* names of tools
  Owners    \* what a tool's code belongs to

VARIABLES
  tools,  \* tools_: the owner of each registered name
  calls   \* callTool past the lookup: the tool each caller executes

toolVars == <<tools, calls>>

\* A map with x entered, or entered anew.
With(f, x, v) == [y \in DOMAIN f \cup {x} |-> IF y = x THEN v ELSE f[y]]

Parts == {"tool", "code", "state"}
Call == [name: Names, owner: Owners, lost: SUBSET Parts]

ToolManagerTypeOK ==
  /\ DOMAIN tools \subseteq Names
  /\ \A n \in DOMAIN tools: tools[n] \in Owners
  /\ DOMAIN calls \subseteq Callers
  /\ \A c \in DOMAIN calls: calls[c] \in Call

\* The calls of these callers lose these parts.
Losing(parts, hit) ==
  [c \in DOMAIN calls |->
     IF c \in hit THEN [calls[c] EXCEPT !.lost = @ \cup parts] ELSE calls[c]]

\* registerTool: a name that is taken is refused.
Registered(n) == n \in DOMAIN tools
RegisterOver(n, o) ==   \* mutant: the name is not looked up first
  tools' = With(tools, n, o)
RegisterTool(n, o) == ~Registered(n) /\ tools' = With(tools, n, o)

\* unregisterTool destroys the tool, calls through it or not.
UnregisterTool(n) ==
  /\ tools' = Restrict(tools, DOMAIN tools \ {n})
  /\ calls' = Losing({"tool"}, {c \in DOMAIN calls:
                                Registered(n) /\ calls[c].name = n})

\* callTool; a name that is not found is answered at once.
CallTool(c, n) ==
  /\ c \notin DOMAIN calls
  /\ Registered(n)
  /\ calls' = With(calls, c, [name |-> n, owner |-> tools[n], lost |-> {}])
  /\ UNCHANGED tools

CallReturns(c) ==
  /\ c \in DOMAIN calls
  /\ calls' = Restrict(calls, DOMAIN calls \ {c})
  /\ UNCHANGED tools
=============================================================================
