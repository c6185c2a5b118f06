CONSTANTS
  root1 = root1
  fork1 = fork1
  root2 = root2
  f1 = f1
  f2 = f2
  Callers = {c1, c2}
  Scopes = {root1, fork1, root2}
  Roots = {root1, root2}
  Fins = {f1, f2}
  Homes <- HomesOf
  Forks <- ForksOf
  Extends <- ExtendsOf
  NoScope = NoScope
SPECIFICATION ScopeSpec
INVARIANTS FinalizersAlwaysRun
