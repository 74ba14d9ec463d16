SPECIFICATION Spec
CONSTANTS
  m1 = m1
  m2 = m2
  m3 = m3
  m4 = m4
  Modules = {m1, m2, m3, m4}
  Root = m1
  Programs <- MCPrograms
INVARIANTS
  GraphInv
  ImportsFirst
  LanguageOrder
  EntryIsRoot
