SPECIFICATION Spec
CONSTANTS
  m = m
  y = y
  t = t
  h1 = h1
  old = old
  new = new
  s1 = s1
  s2 = s2
  TemplateOf <- MCTemplateOf
  Defines <- MCDefines
  Platform <- MCPlatform
  HostOf <- MCHostOf
  Hosts = {h1}
  Commands = {old, new}
  Inventory = {new}
  Modules = {m}
  Yamls = {}
  Templates = {t}
  Shells = {s1}
  Vanishing = {m}
  MaxEdits = 1
INVARIANT EveryEditIsSeen
