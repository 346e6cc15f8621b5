SPECIFICATION LiveSpec
CONSTANTS
  Memory = {m1, m2}
  Evidence = {e1, e2, e3}
  Session = {s1, s2}
  MaxVersion = 2
  Legacy = {m1, m2}
PROPERTIES
  EventuallyIndexed
