SPECIFICATION Spec
CONSTANTS
  Supervisors = {s1, s2}
  Clients = {c1}
  None = None
INVARIANT OneShell
