\* The comment on freebsd_char_poll about notification, against the race.
CONSTANTS
  Threads = {t1}
  Results <- SomeResults
SPECIFICATION FairSpec
PROPERTY Notified
