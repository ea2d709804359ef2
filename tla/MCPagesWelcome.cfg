SPECIFICATION PageSpec
CONSTANTS
  Appends <- MCAppends
  Invitations <- MCInvitations
INVARIANT
  WelcomePageFits
